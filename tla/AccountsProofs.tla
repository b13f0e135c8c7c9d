--------------------------- MODULE AccountsProofs ---------------------------
(***************************************************************************)
(* Proofs about Accounts, for every number of accounts, invitations and    *)
(* requests at once: a workspace somebody belongs to has an owner, a       *)
(* session that works was proved with its account's password of now, and   *)
(* an invitation makes one account.                                        *)
(***************************************************************************)
EXTENDS Accounts, FiniteSetTheorems, WellFoundedInduction, TLAPS

(* A row of the users table: all that matters is that it is one.           *)
Account(u) ==
  u = [role |-> u.role, email |-> u.email, pw |-> u.pw, secret |-> u.secret, last |-> u.last,
       epoch |-> u.epoch, row |-> u.row, since |-> u.since]

Invitation(v) ==
  v = [state |-> v.state, email |-> v.email, role |-> v.role, expires |-> v.expires, row |-> v.row]

Typed ==
  /\ users = [i \in Ids |-> users[i]]
  /\ \A i \in Ids : Account(users[i])
  /\ invitations = [i \in Invites |-> invitations[i]]
  /\ \A i \in Invites : Invitation(invitations[i])

(* With nobody in it the workspace has invited nobody either, and only the *)
(* first run makes an account in it, an owner's.  An enrollment that an    *)
(* invitation led to is for one of the invitations, and for a role.        *)
NobodyInvited == People = {} => \A i \in Invites : invitations[i].state # "pending"
FirstOwns ==
  /\ \A c \in cookies : /\ c.kind = "setup" => c.role = "owner"
                        /\ c.kind = "invite" => c.invite \in Invites /\ c.role # "none"
  /\ \A i \in Invites : invitations[i].state = "pending" => invitations[i].role # "none"

OwnerInv == Typed /\ OwnerKept /\ NobodyInvited /\ FirstOwns
-----------------------------------------------------------------------------
(* Numbers below a bound have a largest one.                               *)
LEMMA LargestExists ==
  ASSUME NEW S \in SUBSET Nat, S # {}, NEW n \in Nat, \A x \in S : x <= n
  PROVE  \E x \in S : \A y \in S : y <= x
  <1> DEFINE Bounds == {b \in Nat : \A x \in S : x <= b}
  <1>1. PICK b \in Bounds : \A c \in Bounds : ~(c < b)
    <2>1. Bounds \subseteq Nat /\ n \in Bounds
      OBVIOUS
    <2>2. \E x \in Bounds : \A y \in Bounds : ~(<<y, x>> \in OpToRel(<, Nat))
      BY <2>1, NatLessThanWellFounded, WFMin
    <2> QED
      BY <2>1, <2>2 DEF OpToRel
  <1>2. b \in S
    <2> SUFFICES ASSUME b \notin S PROVE FALSE
      OBVIOUS
    <2>1. \A x \in S : x < b
      BY <1>1
    <2>2. b > 0 /\ b - 1 \in Nat
      <3>1. PICK x \in S : x < b
        BY <2>1
      <3> QED
        BY <3>1, <1>1
    <2>3. b - 1 \in Bounds
      BY <1>1, <2>1, <2>2
    <2> QED
      BY <1>1, <2>2, <2>3
  <1> QED
    BY <1>1, <1>2

(* A number that is given is nobody's.                                     *)
LEMMA NextIdIsFree == NextId \in Nat /\ NextId \notin People
  <1> DEFINE S == {0} \cup People
  <1>1. MaxId \in Nat
    BY AccountsAssumption
  <1>2. S \in SUBSET Nat /\ S # {} /\ \A x \in S : x <= MaxId
    BY <1>1 DEF People, Ids
  <1>3. \E x \in S : \A y \in S : y <= x
    <2> HIDE DEF S
    <2> QED
      BY <1>1, <1>2, LargestExists
  <1>4. Max(S) \in S /\ \A y \in S : y <= Max(S)
    BY <1>3 DEF Max
  <1> HIDE DEF S
  <1>5. NextId = Max(S) + 1
    BY DEF NextId, S
  <1>6. Max(S) \in Nat /\ \A y \in S : y \in Nat
    BY <1>2, <1>4
  <1>7. NextId \notin S
    BY <1>4, <1>5, <1>6
  <1> QED
    BY <1>5, <1>6, <1>7 DEF S

(* What requests do to a row leaves it one, and all but SetRole its role.  *)
WithCode(a, x)         == [a EXCEPT !.last = x]
WithEpoch(a, x)        == [a EXCEPT !.epoch = x]
WithRole(a, x)         == [a EXCEPT !.role = x]
WithPassword(a, x, y)  == [a EXCEPT !.pw = x, !.epoch = y]
Enrolled(a, x, y, z)   == [a EXCEPT !.secret = x, !.last = y, !.since = z]

LEMMA RowEdits ==
  ASSUME NEW a, Account(a), NEW x, NEW y, NEW z
  PROVE  /\ Account(WithCode(a, x)) /\ WithCode(a, x).role = a.role
         /\ Account(WithEpoch(a, x)) /\ WithEpoch(a, x).role = a.role
         /\ Account(WithRole(a, x)) /\ WithRole(a, x).role = x
         /\ Account(WithPassword(a, x, y)) /\ WithPassword(a, x, y).role = a.role
         /\ Account(Enrolled(a, x, y, z)) /\ Enrolled(a, x, y, z).role = a.role
  <1>1. Account(WithCode(a, x)) /\ WithCode(a, x).role = a.role
    BY DEF Account, WithCode
  <1>2. Account(WithEpoch(a, x)) /\ WithEpoch(a, x).role = a.role
    BY DEF Account, WithEpoch
  <1>3. Account(WithRole(a, x)) /\ WithRole(a, x).role = x
    BY DEF Account, WithRole
  <1>4. Account(WithPassword(a, x, y)) /\ WithPassword(a, x, y).role = a.role
    <2>1. WithPassword(a, x, y) =
            [role |-> a.role, email |-> a.email, pw |-> x, secret |-> a.secret, last |-> a.last,
             epoch |-> y, row |-> a.row, since |-> a.since]
      <3>1. WithPassword(a, x, y) = [a EXCEPT !.pw = x, !.epoch = y]
        BY DEF WithPassword
      <3> QED
        BY <3>1 DEF Account
    <2> QED
      BY <2>1 DEF Account
  <1>5. Account(Enrolled(a, x, y, z)) /\ Enrolled(a, x, y, z).role = a.role
    <2>1. Enrolled(a, x, y, z) =
            [role |-> a.role, email |-> a.email, pw |-> a.pw, secret |-> x, last |-> y,
             epoch |-> a.epoch, row |-> a.row, since |-> z]
      <3>1. Enrolled(a, x, y, z) = [a EXCEPT !.secret = x, !.last = y, !.since = z]
        BY DEF Enrolled
      <3> QED
        BY <3>1 DEF Account
    <2> QED
      BY <2>1 DEF Account
  <1> QED
    BY <1>1, <1>2, <1>3, <1>4, <1>5

(* A step that changes no role, and lets in an invitation only where there *)
(* is an owner, keeps the invariant.                                       *)
LEMMA RolesStay ==
  ASSUME OwnerInv,
         users' = [i \in Ids |-> users'[i]],
         \A i \in Ids : Account(users'[i]) /\ users'[i].role = users[i].role,
         invitations' = [i \in Invites |-> invitations'[i]],
         \A i \in Invites : \/ invitations'[i] = invitations[i]
                            \/ /\ Invitation(invitations'[i])
                               /\ invitations'[i].state = "pending" => Owners # {},
         FirstOwns'
  PROVE  OwnerInv'
  <1>1. Typed'
    BY DEF Typed, OwnerInv
  <1>2. People' = People /\ Owners' = Owners /\ Owners \subseteq People
    BY DEF People, Live, Owners
  <1>3. OwnerKept'
    BY <1>2 DEF OwnerInv, OwnerKept
  <1>4. NobodyInvited'
    BY <1>2 DEF OwnerInv, NobodyInvited
  <1> QED
    BY <1>1, <1>3, <1>4 DEF OwnerInv

(* A row written with the role it had.                                     *)
LEMMA RowWritten ==
  ASSUME OwnerInv, NEW i, NEW u, Row(i, u),
         i \in Ids => Account(u) /\ u.role = users[i].role,
         UNCHANGED invitations, cookies' \subseteq cookies
  PROVE  OwnerInv'
  <1>1. /\ users' = [j \in Ids |-> users'[j]]
        /\ \A j \in Ids : Account(users'[j]) /\ users'[j].role = users[j].role
    BY DEF OwnerInv, Typed, Row
  <1>2. /\ invitations' = [j \in Invites |-> invitations'[j]]
        /\ \A j \in Invites : invitations'[j] = invitations[j]
        /\ FirstOwns'
    BY DEF OwnerInv, Typed, FirstOwns
  <1> QED
    BY <1>1, <1>2, RolesStay

(* The people, and their sign-ins, the program may start with.             *)
Founded(k, e, lost) ==
  /\ k = 0 \/ IsInjective(e)
  /\ users = [i \in Ids |->
       IF i <= k
       THEN [NoUser EXCEPT !.role = "owner", !.email = e[i], !.pw = 1, !.epoch = 1,
                           !.secret = IF lost /\ i = 1 THEN 0 ELSE i, !.row = i, !.since = i]
       ELSE NoUser]
  /\ sessions = {[user |-> i, row |-> i, epoch |-> 1, pw |-> 1, proof |-> 1, enrolled |-> FALSE] :
                   i \in 1..k}
  /\ \E asked \in IF k = 0 \/ lost THEN {NoInvite}
                  ELSE [state : {"pending"}, email : Emails \ {e[1]}, role : {"editor"},
                        expires : 2..(1 + InviteLife), row : {1}] :
       invitations = [i \in Invites |-> IF i = 1 THEN asked ELSE NoInvite]

LEMMA FirstPeople ==
  Init => \E k \in {0} \cup Ids : \E e \in [Ids -> Emails], lost \in BOOLEAN : Founded(k, e, lost)
  BY Zenon DEF Init, Founded

LEMMA Initially == Init => OwnerInv
  <1> SUFFICES ASSUME Init PROVE OwnerInv
    OBVIOUS
  <1>0. PICK k \in {0} \cup Ids : \E e \in [Ids -> Emails], lost \in BOOLEAN : Founded(k, e, lost)
    BY FirstPeople
  <1>1. PICK e \in [Ids -> Emails], lost \in BOOLEAN : Founded(k, e, lost)
    BY <1>0
  <1>2. users = [i \in Ids |->
          IF i <= k
          THEN [NoUser EXCEPT !.role = "owner", !.email = e[i], !.pw = 1, !.epoch = 1,
                              !.secret = IF lost /\ i = 1 THEN 0 ELSE i, !.row = i, !.since = i]
          ELSE NoUser]
    BY <1>1 DEF Founded
  <1>3. ASSUME NEW i \in Ids
        PROVE  Account(users[i]) /\ users[i].role \in {"none", "owner"}
    <2> DEFINE t == IF lost /\ i = 1 THEN 0 ELSE i
    <2>1. users[i] = IF i <= k
                     THEN [NoUser EXCEPT !.role = "owner", !.email = e[i], !.pw = 1, !.epoch = 1,
                                         !.secret = t, !.row = i, !.since = i]
                     ELSE NoUser
      BY <1>2
    <2> HIDE DEF t
    <2>2. CASE i <= k
      <3>1. users[i] = [role |-> "owner", email |-> e[i], pw |-> 1, secret |-> t, last |-> 0,
                        epoch |-> 1, row |-> i, since |-> i]
        BY <2>1, <2>2 DEF NoUser
      <3> QED
        BY <3>1 DEF Account
    <2>3. CASE ~(i <= k)
      BY <2>1, <2>3 DEF NoUser, Account
    <2> QED
      BY <2>2, <2>3
  <1>4. users = [i \in Ids |-> users[i]]
    BY <1>2
  <1>5. OwnerKept
    BY <1>3 DEF OwnerKept, People, Live, Owners
  <1>6. /\ invitations = [i \in Invites |-> invitations[i]] /\ NobodyInvited
        /\ \A i \in Invites : /\ Invitation(invitations[i])
                              /\ invitations[i].state = "pending" => invitations[i].role # "none"
    <2>1. PICK asked : /\ k = 0 => asked = NoInvite
                       /\ Invitation(asked)
                       /\ asked.state = "pending" => asked.role # "none"
                       /\ invitations = [i \in Invites |-> IF i = 1 THEN asked ELSE NoInvite]
      <3>1. PICK asked \in IF k = 0 \/ lost THEN {NoInvite}
                           ELSE [state : {"pending"}, email : Emails \ {e[1]}, role : {"editor"},
                                 expires : 2..(1 + InviteLife), row : {1}] :
              invitations = [i \in Invites |-> IF i = 1 THEN asked ELSE NoInvite]
        BY <1>1 DEF Founded
      <3>2. Invitation(asked) /\ (asked.state = "pending" => asked.role # "none")
        BY DEF NoInvite, Invitation
      <3> QED
        BY <3>1, <3>2
    <2>2. ASSUME k # 0
          PROVE  People # {}
      <3>1. 1 \in Ids /\ k \in Ids /\ 1 <= k
        BY <2>2, AccountsAssumption DEF Ids
      <3>2. users[1].role = "owner"
        BY <1>2, <3>1 DEF NoUser
      <3> QED
        BY <3>1, <3>2 DEF People, Live
    <2>3. Invitation(NoInvite) /\ NoInvite.state = "none"
      BY DEF Invitation, NoInvite
    <2> QED
      BY <2>1, <2>2, <2>3 DEF NobodyInvited
  <1>7. FirstOwns
    BY <1>6 DEF Init, FirstOwns
  <1> QED
    BY <1>3, <1>4, <1>5, <1>6, <1>7 DEF OwnerInv, Typed

(* The row an enrollment makes.                                            *)
LEMMA MadeRow ==
  ASSUME NEW c, NEW s, NEW f
  PROVE  WithSecret([NoUser EXCEPT !.role = c.role, !.email = c.email, !.pw = c.pw,
                                   !.epoch = 1, !.row = f], c, s) =
           [role |-> c.role, email |-> c.email, pw |-> c.pw, secret |-> c.secret, last |-> s,
            epoch |-> 1, row |-> f, since |-> fresh']
  <1> DEFINE n == [NoUser EXCEPT !.role = c.role, !.email = c.email, !.pw = c.pw,
                                 !.epoch = 1, !.row = f]
             g == fresh'
             u == WithSecret(n, c, s)
  <1>1. n = [NoUser EXCEPT !.role = c.role, !.email = c.email, !.pw = c.pw, !.epoch = 1, !.row = f]
    OBVIOUS
  <1>2. u = [n EXCEPT !.secret = c.secret, !.last = s, !.since = g]
    BY DEF WithSecret
  <1> HIDE DEF n, u, g
  <1>3. n = [role |-> c.role, email |-> c.email, pw |-> c.pw, secret |-> 0, last |-> 0,
             epoch |-> 1, row |-> f, since |-> 0]
    BY <1>1 DEF NoUser
  <1>4. u = [role |-> c.role, email |-> c.email, pw |-> c.pw, secret |-> c.secret, last |-> s,
             epoch |-> 1, row |-> f, since |-> g]
    BY <1>2, <1>3
  <1> QED
    BY <1>4 DEF u, n, g

(* An account is made at a number that was nobody's, by the first run or   *)
(* where somebody was invited and so an owner is.                          *)
LEMMA MakesKeeps ==
  ASSUME OwnerInv, NEW w, NEW c \in cookies, NEW s, NEW of,
         Makes(w, c, s, NextId, of), Returns(w, c, s),
         c.role = "owner" \/ People # {},
         invitations' = [i \in Invites |-> invitations'[i]],
         \A i \in Invites : \/ invitations'[i] = invitations[i]
                            \/ Invitation(invitations'[i]) /\ invitations'[i].state # "pending"
  PROVE  OwnerInv'
  <1> DEFINE n == [NoUser EXCEPT !.role = c.role, !.email = c.email, !.pw = c.pw,
                                 !.epoch = 1, !.row = fresh']
  <1> DEFINE u == WithSecret(n, c, s)
  <1>1. NextId \in Ids /\ users' = [users EXCEPT ![NextId] = u]
    BY DEF Makes, Row
  <1>2. u = [role |-> c.role, email |-> c.email, pw |-> c.pw, secret |-> c.secret, last |-> s,
             epoch |-> 1, row |-> fresh', since |-> fresh']
    BY MadeRow
  <1> HIDE DEF u
  <1>3. Account(u) /\ u.role = c.role
    BY <1>2 DEF Account
  <1>4. Typed'
    BY <1>1, <1>3 DEF OwnerInv, Typed
  <1>5. \A i \in Ids : i # NextId => users'[i] = users[i]
    BY <1>1 DEF OwnerInv, Typed
  <1>6. users'[NextId] = u
    BY <1>1 DEF OwnerInv, Typed
  <1>7. Owners' # {}
    <2>1. CASE c.role = "owner"
      BY <1>1, <1>3, <1>6, <2>1 DEF Owners
    <2>2. CASE People # {}
      <3>1. PICK o \in Ids : users[o].role = "owner"
        BY <2>2 DEF OwnerInv, OwnerKept, Owners
      <3>2. o # NextId
        BY <3>1, NextIdIsFree DEF People, Live
      <3> QED
        BY <1>5, <3>1, <3>2 DEF Owners
    <2> QED
      BY <2>1, <2>2
  <1>8. OwnerKept' /\ NobodyInvited'
    BY <1>7 DEF OwnerKept, NobodyInvited, Owners, People, Live
  <1>9. FirstOwns'
    BY DEF OwnerInv, FirstOwns, Returns
  <1> QED
    BY <1>4, <1>8, <1>9 DEF OwnerInv

(* The end of an enrollment.                                               *)
LEMMA EnrolKeeps ==
  ASSUME OwnerInv, NEW w, NEW c \in cookies, NEW s, Enrol(w, c, s)
  PROVE  OwnerInv'
  <1>1. CASE FinishSetup(w, c, s)
    BY <1>1, MakesKeeps DEF FinishSetup, OwnerInv, FirstOwns, Typed
  <1>2. CASE FinishInvite(w, c, s)
    <2>1. invitations' = [invitations EXCEPT ![c.invite].state = "accepted"]
          /\ invitations[c.invite].state = "pending" /\ Returns(w, c, s)
          /\ Makes(w, c, s, NextId, invitations[c.invite].row)
      BY <1>2 DEF FinishInvite
    <2>2. c.invite \in Invites
      BY <1>2 DEF FinishInvite, OwnerInv, FirstOwns
    <2>3. /\ invitations' = [i \in Invites |-> invitations'[i]]
          /\ \A i \in Invites \ {c.invite} : invitations'[i] = invitations[i]
          /\ Invitation(invitations'[c.invite]) /\ invitations'[c.invite].state # "pending"
      <3>1. invitations'[c.invite] = [invitations[c.invite] EXCEPT !.state = "accepted"]
        BY <2>1, <2>2 DEF OwnerInv, Typed
      <3>2. Invitation(invitations[c.invite])
        BY <2>2 DEF OwnerInv, Typed
      <3>3. Invitation(invitations'[c.invite]) /\ invitations'[c.invite].state = "accepted"
        BY <3>1, <3>2 DEF Invitation
      <3> QED
        BY <2>1, <3>3 DEF OwnerInv, Typed
    <2>4. People # {}
      BY <2>1, <2>2 DEF OwnerInv, NobodyInvited
    <2> QED
      BY <2>1, <2>3, <2>4, MakesKeeps
  <1>3. CASE FinishSignIn(w, c, s) \/ FinishReenrol(w, c, s)
    <2>1. /\ Row(c.user, WithSecret(users[c.user], c, s))
          /\ UNCHANGED invitations /\ cookies' \subseteq cookies
      BY <1>3 DEF FinishSignIn, FinishReenrol, Enrols, Returns
    <2>2. c.user \in Ids => /\ Account(WithSecret(users[c.user], c, s))
                            /\ WithSecret(users[c.user], c, s).role = users[c.user].role
      <3> SUFFICES ASSUME c.user \in Ids
                   PROVE  /\ Account(WithSecret(users[c.user], c, s))
                          /\ WithSecret(users[c.user], c, s).role = users[c.user].role
        OBVIOUS
      <3>1. WithSecret(users[c.user], c, s) = Enrolled(users[c.user], c.secret, s, fresh')
        BY DEF WithSecret, Enrolled
      <3>2. Account(users[c.user])
        BY DEF OwnerInv, Typed
      <3> QED
        BY <3>1, <3>2, RowEdits
    <2> QED
      BY <2>1, <2>2, RowWritten
  <1> QED
    BY <1>1, <1>2, <1>3 DEF Enrol

(* A signed-in person deletes their account or changes somebody's role:    *)
(* the last owner stays one.                                               *)
LEMMA DeleteAccountKeeps ==
  ASSUME OwnerInv, NEW w, DeleteAccount(w)
  PROVE  OwnerInv'
  <1> DEFINE i == work[w].user
  <1>1. UNCHANGED <<invitations, cookies>>
    BY DEF DeleteAccount
  <1>2. CASE Live(i) /\ Owners \ {i} # {}
    <2>1. users' = [users EXCEPT ![i] = NoUser]
      BY <1>2 DEF DeleteAccount, Row
    <2>2. PICK o \in Ids : o # i /\ users[o].role = "owner"
      BY <1>2 DEF Owners
    <2>3. Account(NoUser)
      BY DEF Account, NoUser
    <2>4. Typed' /\ users'[o] = users[o]
      BY <1>1, <2>1, <2>2, <2>3 DEF OwnerInv, Typed
    <2>5. OwnerKept' /\ NobodyInvited'
      BY <2>2, <2>4 DEF OwnerKept, NobodyInvited, Owners, People, Live
    <2>6. FirstOwns'
      BY <1>1 DEF OwnerInv, FirstOwns
    <2> QED
      BY <2>4, <2>5, <2>6 DEF OwnerInv
  <1>3. CASE ~(Live(i) /\ Owners \ {i} # {})
    <2>1. users' = users
      BY <1>3 DEF DeleteAccount
    <2> QED
      BY <1>1, <2>1, RolesStay DEF OwnerInv, Typed, FirstOwns
  <1> QED
    BY <1>2, <1>3

LEMMA SetRoleKeeps ==
  ASSUME OwnerInv, NEW w, SetRole(w)
  PROVE  OwnerInv'
  <1>1. UNCHANGED <<invitations, cookies>>
    BY DEF SetRole
  <1>2. PICK i \in People, role \in Roles :
          users' = IF users[i].role # "owner" \/ Owners \ {i} # {}
                   THEN [users EXCEPT ![i].role = role]
                   ELSE users
    BY DEF SetRole
  <1>3. CASE users[i].role # "owner" \/ Owners \ {i} # {}
    <2>1. i \in Ids /\ users[i].role # "none" /\ role # "none"
      BY DEF People, Live, Roles
    <2>2. users' = [users EXCEPT ![i] = WithRole(users[i], role)]
      BY <1>2, <1>3 DEF WithRole
    <2>3. /\ Account(WithRole(users[i], role)) /\ WithRole(users[i], role).role = role
      BY <2>1, RowEdits DEF OwnerInv, Typed
    <2>4. /\ users' = [j \in Ids |-> users'[j]]
          /\ \A j \in Ids : Account(users'[j])
          /\ \A j \in Ids \ {i} : users'[j] = users[j]
          /\ users'[i].role = role
      BY <2>1, <2>2, <2>3 DEF OwnerInv, Typed
    <2>5. PICK o \in Ids : o # i /\ users[o].role = "owner"
      <3>1. CASE Owners \ {i} # {}
        BY <3>1 DEF Owners
      <3>2. CASE users[i].role # "owner"
        <4>1. Owners # {}
          BY DEF OwnerInv, OwnerKept
        <4> QED
          BY <3>2, <4>1 DEF Owners
      <3> QED
        BY <1>3, <3>1, <3>2
    <2>6. Owners' # {} /\ People' # {}
      BY <2>4, <2>5 DEF Owners, People, Live
    <2>7. Typed' /\ OwnerKept' /\ NobodyInvited' /\ FirstOwns'
      BY <1>1, <2>4, <2>6 DEF OwnerInv, Typed, OwnerKept, NobodyInvited, FirstOwns
    <2> QED
      BY <2>7 DEF OwnerInv
  <1>4. CASE ~(users[i].role # "owner" \/ Owners \ {i} # {})
    <2>1. users' = users
      BY <1>2, <1>4
    <2> QED
      BY <1>1, <2>1, RolesStay DEF OwnerInv, Typed, FirstOwns
  <1> QED
    BY <1>3, <1>4

(* The other requests that write a row.                                    *)
LEMMA RowsKeep ==
  ASSUME OwnerInv, NEW w,
         ClaimCode(w) \/ Password(w) \/ SignOutEverywhere(w) \/ \E r \in resets : ResetPassword(r)
  PROVE  OwnerInv'
  <1>1. UNCHANGED <<invitations, cookies>>
    BY DEF ClaimCode, Password, SignOutEverywhere, ResetPassword
  <1>2. \A i \in Ids : Account(users[i])
    BY DEF OwnerInv, Typed
  <1>3. CASE users' = users
    BY <1>1, <1>3, RolesStay DEF OwnerInv, Typed, FirstOwns
  <1>4. CASE ClaimCode(w)
    <2>1. PICK s : Row(work[w].user, WithCode(users[work[w].user], s))
      BY <1>4 DEF ClaimCode, WithCode
    <2> QED
      BY <1>1, <1>2, <2>1, RowEdits, RowWritten
  <1>5. CASE Password(w) /\ users' # users
    <2>1. Row(work[w].user, WithPassword(users[work[w].user], users[work[w].user].pw + 1,
                                         users[work[w].user].epoch + 1))
      BY <1>5 DEF Password, WithPassword
    <2> QED
      BY <1>1, <1>2, <2>1, RowEdits, RowWritten
  <1>6. CASE SignOutEverywhere(w) /\ users' # users
    <2>1. Row(work[w].user, WithEpoch(users[work[w].user], users[work[w].user].epoch + 1))
      BY <1>6 DEF SignOutEverywhere, WithEpoch, Row
    <2> QED
      BY <1>1, <1>2, <2>1, RowEdits, RowWritten
  <1>7. CASE \E r \in resets : ResetPassword(r)
    <2>1. PICK r \in resets :
            Row(r.user, WithPassword(users[r.user], users[r.user].pw + 1, users[r.user].epoch + 1))
      BY <1>7 DEF ResetPassword, WithPassword
    <2> QED
      BY <1>1, <1>2, <2>1, RowEdits, RowWritten
  <1> QED
    BY <1>3, <1>4, <1>5, <1>6, <1>7

(* Requests that write no row.                                             *)
LEMMA RestKeeps ==
  ASSUME OwnerInv, UNCHANGED users,
         \/ UNCHANGED <<invitations, cookies>>
         \/ \E w \in Workers : Start(w) \/ Reenrol(w)
         \/ \E e \in Emails : PostSetup(e)
         \/ \E i \in Invites : \/ PostInvite(i) \/ RevokeInvitation(i)
                               \/ \E e \in Emails, role \in Roles : CreateInvitation(i, e, role)
         \/ Tick
  PROVE  OwnerInv'
  <1>1. \A i \in Ids : Account(users'[i]) /\ users'[i].role = users[i].role
    BY DEF OwnerInv, Typed
  <1>2. users' = [i \in Ids |-> users'[i]]
    BY DEF OwnerInv, Typed
  <1>3. CASE UNCHANGED <<invitations, cookies>>
    BY <1>1, <1>2, <1>3, RolesStay DEF OwnerInv, Typed, FirstOwns
  <1>4. CASE \E w \in Workers : Start(w) \/ Reenrol(w)
    <2>1. UNCHANGED invitations
      BY <1>4 DEF Start, Reenrol, tables
    <2>2. \A d \in cookies' \ cookies : d.kind \in {"signin", "reenrol"}
      <3>1. \A kind, i, u : Cookie(kind, i, u).kind = kind
        BY DEF Cookie
      <3>2. PICK w \in Workers : Start(w) \/ Reenrol(w)
        BY <1>4
      <3>3. \A d \in cookies' \ cookies :
              \/ d = Cookie("signin", work[w].user, work[w].read)
              \/ d = Cookie("reenrol", work[w].user, work[w].read)
        BY <3>2 DEF Start, Reenrol
      <3> QED
        BY <3>1, <3>3
    <2>3. FirstOwns'
      BY <2>1, <2>2 DEF OwnerInv, FirstOwns
    <2> QED
      BY <1>1, <1>2, <2>1, <2>3, RolesStay DEF OwnerInv, Typed
  <1>5. CASE \E e \in Emails : PostSetup(e)
    <2>1. UNCHANGED invitations
      BY <1>5 DEF PostSetup, tables
    <2>2. PICK e \in Emails : cookies' = cookies \cup {AccountCookie("setup", 0, 0, e, "owner")}
      BY <1>5 DEF PostSetup
    <2>3. /\ AccountCookie("setup", 0, 0, e, "owner").kind = "setup"
          /\ AccountCookie("setup", 0, 0, e, "owner").role = "owner"
      BY DEF AccountCookie
    <2>4. FirstOwns'
      BY <2>1, <2>2, <2>3 DEF OwnerInv, FirstOwns
    <2> QED
      BY <1>1, <1>2, <2>1, <2>4, RolesStay DEF OwnerInv, Typed
  <1>6. CASE \E i \in Invites : PostInvite(i)
    <2>1. UNCHANGED invitations
      BY <1>6 DEF PostInvite, tables
    <2>2. PICK i \in Invites :
            /\ invitations[i].state = "pending"
            /\ cookies' = cookies \cup {AccountCookie("invite", i, invitations[i].row,
                                                     invitations[i].email, invitations[i].role)}
      BY <1>6 DEF PostInvite
    <2>3. \A row, email, role :
            /\ AccountCookie("invite", i, row, email, role).kind = "invite"
            /\ AccountCookie("invite", i, row, email, role).invite = i
            /\ AccountCookie("invite", i, row, email, role).role = role
      BY DEF AccountCookie
    <2>4. FirstOwns'
      BY <2>1, <2>2, <2>3 DEF OwnerInv, FirstOwns
    <2> QED
      BY <1>1, <1>2, <2>1, <2>4, RolesStay DEF OwnerInv, Typed
  <1>7. CASE \E i \in Invites : RevokeInvitation(i)
    <2>1. PICK i \in Invites : invitations' = [invitations EXCEPT ![i] = NoInvite]
      BY <1>7 DEF RevokeInvitation
    <2>2. Invitation(NoInvite) /\ NoInvite.state = "none"
      BY DEF Invitation, NoInvite
    <2>3. /\ invitations' = [j \in Invites |-> invitations'[j]]
          /\ \A j \in Invites : invitations'[j] = invitations[j] \/ invitations'[j] = NoInvite
      BY <2>1 DEF OwnerInv, Typed
    <2>4. FirstOwns'
      <3>1. UNCHANGED cookies
        BY <1>7 DEF RevokeInvitation
      <3> QED
        BY <2>2, <2>3, <3>1 DEF OwnerInv, FirstOwns
    <2> QED
      BY <1>1, <1>2, <2>2, <2>3, <2>4, RolesStay
  <1>8. CASE \E i \in Invites : \E e \in Emails, role \in Roles : CreateInvitation(i, e, role)
    <2>1. PICK i \in Invites, e \in Emails, role \in Roles : CreateInvitation(i, e, role)
      BY <1>8
    <2> DEFINE v == [state |-> "pending", email |-> e, role |-> role, expires |-> now + InviteLife, row |-> fresh']
    <2>2. Owners # {} /\ UNCHANGED cookies /\ invitations' = [invitations EXCEPT ![i] = v]
      BY <2>1 DEF CreateInvitation
    <2>3. Invitation(v) /\ v.role # "none"
      BY DEF Invitation, Roles
    <2> HIDE DEF v
    <2>4. invitations' = [j \in Invites |-> invitations'[j]]
          /\ \A j \in Invites : invitations'[j] = invitations[j] \/ invitations'[j] = v
      BY <2>2 DEF OwnerInv, Typed
    <2>5. FirstOwns'
      BY <2>2, <2>3, <2>4 DEF OwnerInv, FirstOwns
    <2> QED
      BY <1>1, <1>2, <2>2, <2>3, <2>4, <2>5, RolesStay
  <1>9. CASE Tick
    <2>1. FirstOwns' /\ UNCHANGED invitations
      BY <1>9 DEF Tick, OwnerInv, FirstOwns
    <2> QED
      BY <1>1, <1>2, <2>1, RolesStay DEF OwnerInv, Typed
  <1> QED
    BY <1>3, <1>4, <1>5, <1>6, <1>7, <1>8, <1>9

(* Every step keeps the invariant.                                         *)
LEMMA StepKeeps == OwnerInv /\ [Next]_vars => OwnerInv'
  <1> SUFFICES ASSUME OwnerInv, [Next]_vars PROVE OwnerInv'
    OBVIOUS
  <1>1. ASSUME NEW w \in Workers,
               \/ \E i \in Ids : Login(w, i) \/ Signed(w, i)
               \/ Refused(w)
        PROVE  OwnerInv'
    BY <1>1, RestKeeps DEF Login, Signed, Refused, tables
  <1>2. ASSUME NEW w \in Workers, ClaimCode(w) \/ Password(w) \/ SignOutEverywhere(w)
        PROVE  OwnerInv'
    BY <1>2, RowsKeep
  <1>3. ASSUME NEW w \in Workers, Start(w) \/ Reenrol(w)
        PROVE  OwnerInv'
    BY <1>3, RestKeeps DEF Start, Reenrol, tables
  <1>4. ASSUME NEW w \in Workers, DeleteAccount(w) \/ SetRole(w)
        PROVE  OwnerInv'
    BY <1>4, DeleteAccountKeeps, SetRoleKeeps
  <1>5. ASSUME NEW w \in Workers, \E c \in cookies : \E s \in Good : Enrol(w, c, s)
        PROVE  OwnerInv'
    BY <1>5, EnrolKeeps
  <1>6. CASE \/ \E e \in Emails : PostSetup(e)
             \/ \E i \in Invites : \/ PostInvite(i) \/ RevokeInvitation(i)
                                   \/ \E e \in Emails, role \in Roles : CreateInvitation(i, e, role)
             \/ Tick
    BY <1>6, RestKeeps DEF PostSetup, PostInvite, RevokeInvitation, CreateInvitation, Tick, tables
  <1>7. CASE Require \/ (\E i \in Ids : AskReset(i)) \/ (\E s \in sessions : EndSession(s))
    BY <1>7, RestKeeps DEF Require, AskReset, EndSession, tables
  <1>8. CASE \E r \in resets : ResetPassword(r)
    BY <1>8, RowsKeep
  <1>9. CASE UNCHANGED vars
    BY <1>9, RestKeeps DEF vars
  <1> QED
    BY <1>1, <1>2, <1>3, <1>4, <1>5, <1>6, <1>7, <1>8, <1>9 DEF Next, Commit

(* DeleteUserKeepingAnOwner, SetUserRoleKeepingAnOwner and postEnrol:      *)
(* once somebody has an account there is always an owner, in whatever      *)
(* order requests read an account and commit.                              *)
THEOREM OwnerStays == Spec => []OwnerKept
  <1>1. OwnerInv => OwnerKept
    BY DEF OwnerInv
  <1> QED
    BY <1>1, Initially, StepKeeps, PTL DEF Spec
-----------------------------------------------------------------------------
(* What a session or a request holds of an account is of an epoch the      *)
(* account has had, and at the epoch it has now is its password; or it is  *)
(* of an account that is gone.                                             *)
Fits(table, i, epoch, pw) ==
  /\ epoch \in Nat /\ epoch <= table[i].epoch
  /\ epoch = table[i].epoch => pw = table[i].pw

Held(table, dead, i, row) == row \in dead \/ (table[i].role # "none" /\ table[i].row = row)
HeldFit(table, dead, i, row, epoch, pw) ==
  Held(table, dead, i, row) /\ (row \in dead \/ Fits(table, i, epoch, pw))

Request(q) ==
  /\ q = [pc |-> q.pc, user |-> q.user, read |-> q.read, to |-> q.to, proof |-> q.proof]
  /\ q.read = [role |-> q.read.role, pw |-> q.read.pw, secret |-> q.read.secret,
               epoch |-> q.read.epoch, row |-> q.read.row]
  /\ q.to # "enrolled" => q.proof = q.read.pw

(* A secret is recorded under a number of its own.                         *)
Numbered ==
  /\ fresh \in Nat /\ fresh >= MaxId
  /\ \A i \in Ids : /\ users[i].last \in Nat /\ users[i].epoch \in Nat
                    /\ users[i].since \in 0..fresh
                    /\ Live(i) => users[i].since # 0

SessionsFit ==
  \A s \in sessions : /\ s.user \in Ids /\ Live(s.user)
                      /\ HeldFit(users, gone, s.user, s.row, s.epoch, s.pw)
                      /\ s.proof = s.pw \/ s.enrolled

WorkFits ==
  /\ work = [w \in Workers |-> work[w]]
  /\ \A w \in Workers :
       /\ Request(work[w])
       /\ work[w].pc # "idle" =>
            /\ work[w].user \in Ids
            /\ HeldFit(users, gone, work[w].user, work[w].read.row, work[w].read.epoch, work[w].read.pw)

CookiesHeld ==
  \A c \in cookies : c.kind \in {"signin", "reenrol"} =>
    c.user \in Ids /\ Held(users, gone, c.user, c.row)

(* What a code proved is not above what its account's table row says.      *)
CodesSpent ==
  \A c \in codes :
    /\ c.since \in 1..fresh /\ c.step \in Nat
    /\ \A i \in Ids : c.user = i /\ c.since = users[i].since => c.step <= users[i].last

(* A secret recorded by the program was recorded with a code.              *)
Root(taken, i, since, last) ==
  \/ since = i
  \/ since > MaxId /\ \E e \in taken : /\ e.enrolls /\ e.user = i
                                       /\ e.since = since /\ e.step <= last
Rooted ==
  /\ \A i \in Ids : Live(i) => Root(codes, i, users[i].since, users[i].last)
  /\ \A c \in codes : c.user \in Ids /\ Root(codes, c.user, c.since, c.step)

(* As it is recorded, a secret has its codes taken once.                   *)
CodesApart == \A c, d \in codes : SameCode(c, d) /\ c.since = d.since => c = d

FreshInv ==
  /\ OwnerInv /\ Numbered /\ SessionsFit /\ WorkFits /\ CookiesHeld
  /\ CodesSpent /\ Rooted /\ CodesApart

LEMMA RootedOnce == Numbered /\ CodesSpent /\ Rooted /\ CodesApart => CodesOnce
  <1> SUFFICES ASSUME Numbered, CodesSpent, Rooted, CodesApart,
                      NEW c \in codes, NEW d \in codes, SameCode(c, d), c # d, c.since <= d.since
               PROVE  \E e \in codes : /\ e.enrolls /\ e.user = d.user /\ e.step <= d.step
                                       /\ c.since < e.since /\ e.since = d.since
    BY DEF CodesOnce
  <1>1. c.since \in Nat /\ d.since \in Nat /\ c.since # d.since
    BY DEF CodesSpent, CodesApart
  <1>2. c.since < d.since
    BY <1>1
  <1>3. c.user = d.user /\ d.user \in Ids /\ MaxId \in Nat
    BY AccountsAssumption DEF SameCode, Rooted
  <1>4. c.since = d.user \/ c.since > MaxId
    BY <1>3 DEF Rooted, Root
  <1>5. d.since # d.user
    BY <1>1, <1>2, <1>3, <1>4 DEF Ids
  <1> QED
    BY <1>2, <1>5 DEF Rooted, Root
-----------------------------------------------------------------------------
(* What else the edits of a row leave alone.                               *)
LEMMA EditedFields ==
  ASSUME NEW a, Account(a), NEW x, NEW y, NEW z
  PROVE  /\ WithCode(a, x).last = x /\ WithCode(a, x).epoch = a.epoch
         /\ WithCode(a, x).pw = a.pw /\ WithCode(a, x).since = a.since
         /\ WithEpoch(a, x).last = a.last /\ WithEpoch(a, x).epoch = x
         /\ WithEpoch(a, x).pw = a.pw /\ WithEpoch(a, x).since = a.since
         /\ WithRole(a, x).last = a.last /\ WithRole(a, x).epoch = a.epoch
         /\ WithRole(a, x).pw = a.pw /\ WithRole(a, x).since = a.since
         /\ WithPassword(a, x, y).last = a.last /\ WithPassword(a, x, y).epoch = y
         /\ WithPassword(a, x, y).pw = x /\ WithPassword(a, x, y).since = a.since
         /\ Enrolled(a, x, y, z).last = y /\ Enrolled(a, x, y, z).epoch = a.epoch
         /\ Enrolled(a, x, y, z).pw = a.pw /\ Enrolled(a, x, y, z).since = z
  <1>1. /\ WithCode(a, x).last = x /\ WithCode(a, x).epoch = a.epoch
        /\ WithCode(a, x).pw = a.pw /\ WithCode(a, x).since = a.since
    BY DEF Account, WithCode
  <1>2. /\ WithEpoch(a, x).last = a.last /\ WithEpoch(a, x).epoch = x
        /\ WithEpoch(a, x).pw = a.pw /\ WithEpoch(a, x).since = a.since
    BY DEF Account, WithEpoch
  <1>3. /\ WithRole(a, x).last = a.last /\ WithRole(a, x).epoch = a.epoch
        /\ WithRole(a, x).pw = a.pw /\ WithRole(a, x).since = a.since
    BY DEF Account, WithRole
  <1>4. /\ WithPassword(a, x, y).last = a.last /\ WithPassword(a, x, y).epoch = y
        /\ WithPassword(a, x, y).pw = x /\ WithPassword(a, x, y).since = a.since
    <2>1. WithPassword(a, x, y) = [a EXCEPT !.pw = x, !.epoch = y]
      BY DEF WithPassword
    <2>2. WithPassword(a, x, y) =
            [role |-> a.role, email |-> a.email, pw |-> x, secret |-> a.secret, last |-> a.last,
             epoch |-> y, row |-> a.row, since |-> a.since]
      BY <2>1 DEF Account
    <2> QED
      BY <2>2
  <1>5. /\ Enrolled(a, x, y, z).last = y /\ Enrolled(a, x, y, z).epoch = a.epoch
        /\ Enrolled(a, x, y, z).pw = a.pw /\ Enrolled(a, x, y, z).since = z
    <2>1. Enrolled(a, x, y, z) = [a EXCEPT !.secret = x, !.last = y, !.since = z]
      BY DEF Enrolled
    <2>2. Enrolled(a, x, y, z) =
            [role |-> a.role, email |-> a.email, pw |-> a.pw, secret |-> x, last |-> y,
             epoch |-> a.epoch, row |-> a.row, since |-> z]
      BY <2>1 DEF Account
    <2> QED
      BY <2>2
  <1> QED
    BY <1>1, <1>2, <1>3, <1>4, <1>5

LEMMA KeptFields ==
  ASSUME NEW a, Account(a), NEW x, NEW y, NEW z
  PROVE  /\ WithCode(a, x).row = a.row /\ WithCode(a, x).secret = a.secret
         /\ WithEpoch(a, x).row = a.row /\ WithEpoch(a, x).secret = a.secret
         /\ WithRole(a, x).row = a.row /\ WithRole(a, x).secret = a.secret
         /\ WithPassword(a, x, y).row = a.row /\ WithPassword(a, x, y).secret = a.secret
         /\ Enrolled(a, x, y, z).row = a.row /\ Enrolled(a, x, y, z).secret = x
  <1>1. /\ WithCode(a, x).row = a.row /\ WithCode(a, x).secret = a.secret
    BY DEF Account, WithCode
  <1>2. /\ WithEpoch(a, x).row = a.row /\ WithEpoch(a, x).secret = a.secret
    BY DEF Account, WithEpoch
  <1>3. /\ WithRole(a, x).row = a.row /\ WithRole(a, x).secret = a.secret
    BY DEF Account, WithRole
  <1>4. /\ WithPassword(a, x, y).row = a.row /\ WithPassword(a, x, y).secret = a.secret
    <2>1. WithPassword(a, x, y) = [a EXCEPT !.pw = x, !.epoch = y]
      BY DEF WithPassword
    <2>2. WithPassword(a, x, y) =
            [role |-> a.role, email |-> a.email, pw |-> x, secret |-> a.secret, last |-> a.last,
             epoch |-> y, row |-> a.row, since |-> a.since]
      BY <2>1 DEF Account
    <2> QED
      BY <2>2
  <1>5. /\ Enrolled(a, x, y, z).row = a.row /\ Enrolled(a, x, y, z).secret = x
    <2>1. Enrolled(a, x, y, z) = [a EXCEPT !.secret = x, !.last = y, !.since = z]
      BY DEF Enrolled
    <2>2. Enrolled(a, x, y, z) =
            [role |-> a.role, email |-> a.email, pw |-> a.pw, secret |-> x, last |-> y,
             epoch |-> a.epoch, row |-> a.row, since |-> z]
      BY <2>1 DEF Account
    <2> QED
      BY <2>2
  <1> QED
    BY <1>1, <1>2, <1>3, <1>4, <1>5

(* A row is written, with counts that are counts.                          *)
LEMMA OneRow ==
  ASSUME Typed, Numbered, NEW i \in Ids, NEW u, Row(i, u),
         fresh' \in Nat, fresh' >= fresh,
         u.last \in Nat, u.epoch \in Nat, u.since \in 0..fresh',
         u.role # "none" => u.since # 0
  PROVE  Numbered' /\ users'[i] = u /\ \A j \in Ids \ {i} : users'[j] = users[j]
  <1>1. users' = [users EXCEPT ![i] = u]
    BY DEF Row
  <1>2. users'[i] = u /\ \A j \in Ids \ {i} : users'[j] = users[j]
    BY <1>1 DEF Typed
  <1>3. ASSUME NEW j \in Ids
        PROVE  /\ users'[j].last \in Nat /\ users'[j].epoch \in Nat
               /\ users'[j].since \in 0..fresh'
               /\ users'[j].role # "none" => users'[j].since # 0
    <2>1. CASE j = i
      BY <1>2, <2>1
    <2>2. CASE j # i
      <3>1. users'[j] = users[j]
        BY <1>2, <2>2
      <3> QED
        BY <3>1 DEF Numbered, Live
    <2> QED
      BY <2>1, <2>2
  <1>4. fresh' >= MaxId
    BY AccountsAssumption DEF Numbered
  <1> QED
    BY <1>2, <1>3, <1>4 DEF Numbered, Live

(* An account goes, or keeps its row, and what is held of it fits it still *)
(* when the epoch and the password stay, or the epoch moves on.            *)
GoesOnAs(i) ==
  Live(i) =>
    \/ users[i].row \in gone'
    \/ /\ users'[i].role # "none" /\ users'[i].row = users[i].row
       /\ \/ users'[i].epoch = users[i].epoch /\ users'[i].pw = users[i].pw
          \/ users'[i].epoch > users[i].epoch

AccountsGoOn == gone \subseteq gone' /\ \A i \in Ids : GoesOnAs(i)

LEMMA HeldOn ==
  ASSUME AccountsGoOn, NEW i \in Ids, NEW row, Held(users, gone, i, row)
  PROVE  Held(users', gone', i, row)
  <1>1. GoesOnAs(i) /\ gone \subseteq gone'
    BY DEF AccountsGoOn
  <1> QED
    BY <1>1 DEF Held, GoesOnAs, Live

LEMMA FitsOn ==
  ASSUME AccountsGoOn, NEW i \in Ids, users[i].epoch \in Nat, users'[i].epoch \in Nat,
         NEW row, NEW e, NEW p, HeldFit(users, gone, i, row, e, p)
  PROVE  HeldFit(users', gone', i, row, e, p)
  <1>1. Held(users, gone, i, row) /\ Held(users', gone', i, row)
    BY HeldOn DEF HeldFit
  <1>2. GoesOnAs(i) /\ gone \subseteq gone'
    BY DEF AccountsGoOn
  <1>3. CASE row \in gone'
    BY <1>1, <1>3 DEF HeldFit
  <1>4. CASE row \notin gone'
    <2>1. users[i].role # "none" /\ users[i].row = row /\ Fits(users, i, e, p)
      BY <1>1, <1>2, <1>4 DEF HeldFit, Held
    <2>2. \/ users'[i].epoch = users[i].epoch /\ users'[i].pw = users[i].pw
          \/ users'[i].epoch > users[i].epoch
      BY <1>2, <1>4, <2>1 DEF GoesOnAs, Live
    <2>3. Fits(users', i, e, p)
      BY <2>1, <2>2 DEF Fits
    <2> QED
      BY <1>1, <2>3 DEF HeldFit
  <1> QED
    BY <1>3, <1>4

(* Sessions, requests and cookies there were, and new ones of what their   *)
(* accounts are.                                                           *)
SessionsKnown ==
  \A x \in sessions' :
    /\ users'[x.user].role # "none"
    /\ \/ x \in sessions
       \/ /\ x.user \in Ids /\ HeldFit(users', gone', x.user, x.row, x.epoch, x.pw)
          /\ x.proof = x.pw \/ x.enrolled

Going(q) ==
  /\ Request(q)
  /\ q.pc # "idle" =>
       q.user \in Ids /\ HeldFit(users', gone', q.user, q.read.row, q.read.epoch, q.read.pw)

WorkKnown ==
  /\ work' = [w \in Workers |-> work'[w]]
  /\ \A w \in Workers : work'[w] = work[w] \/ Going(work'[w])

CookiesKnown ==
  \A c \in cookies' : c \in cookies \/ (c.kind \in {"signin", "reenrol"} =>
                                         c.user \in Ids /\ Held(users', gone', c.user, c.row))

LEMMA HoldersFit ==
  ASSUME FreshInv, Numbered', AccountsGoOn, SessionsKnown, WorkKnown, CookiesKnown
  PROVE  SessionsFit' /\ WorkFits' /\ CookiesHeld'
  <1>1. \A i \in Ids : users[i].epoch \in Nat /\ users'[i].epoch \in Nat
    BY DEF FreshInv, Numbered
  <1>2. SessionsFit'
    <2> SUFFICES ASSUME NEW s \in sessions'
                 PROVE  /\ s.user \in Ids /\ users'[s.user].role # "none"
                        /\ HeldFit(users', gone', s.user, s.row, s.epoch, s.pw)
                        /\ s.proof = s.pw \/ s.enrolled
      BY DEF SessionsFit, Live
    <2>1. users'[s.user].role # "none"
      BY DEF SessionsKnown
    <2>2. CASE s \in sessions
      <3>1. s.user \in Ids /\ HeldFit(users, gone, s.user, s.row, s.epoch, s.pw)
            /\ (s.proof = s.pw \/ s.enrolled)
        BY <2>2 DEF FreshInv, SessionsFit
      <3> QED
        BY <1>1, <2>1, <3>1, FitsOn
    <2> QED
      BY <2>1, <2>2 DEF SessionsKnown
  <1>3. WorkFits'
    <2>1. ASSUME NEW w \in Workers
          PROVE  Going(work'[w])
      <3>1. CASE work'[w] = work[w]
        <4>1. /\ Request(work[w])
              /\ work[w].pc # "idle" =>
                   /\ work[w].user \in Ids
                   /\ HeldFit(users, gone, work[w].user, work[w].read.row, work[w].read.epoch, work[w].read.pw)
          BY DEF FreshInv, WorkFits
        <4>2. work[w].pc # "idle" =>
                HeldFit(users', gone', work[w].user, work[w].read.row, work[w].read.epoch, work[w].read.pw)
          BY <1>1, <4>1, FitsOn
        <4> QED
          BY <3>1, <4>1, <4>2 DEF Going
      <3> QED
        BY <3>1 DEF WorkKnown
    <2> QED
      BY <2>1 DEF WorkFits, WorkKnown, Going
  <1>4. CookiesHeld'
    <2> SUFFICES ASSUME NEW c \in cookies', c.kind \in {"signin", "reenrol"}
                 PROVE  c.user \in Ids /\ Held(users', gone', c.user, c.row)
      BY DEF CookiesHeld
    <2>1. CASE c \in cookies
      <3>1. c.user \in Ids /\ Held(users, gone, c.user, c.row)
        BY <2>1 DEF FreshInv, CookiesHeld
      <3> QED
        BY <3>1, HeldOn
    <2> QED
      BY <2>1 DEF CookiesKnown
  <1> QED
    BY <1>2, <1>3, <1>4

(* A code of a step later than the last one used was not accepted before.  *)
LEMMA AcceptKeeps ==
  ASSUME CodesSpent, CodesApart, Rooted, fresh \in Nat, fresh' \in Nat, fresh' >= fresh,
         NEW i \in Ids, NEW secret, NEW since \in 1..fresh', NEW s \in Nat, NEW enrolls,
         codes' = Accept(i, secret, since, s, enrolls),
         users'[i].since = since, users'[i].last = s,
         \/ since > fresh /\ since > MaxId /\ enrolls
         \/ Live(i) /\ since = users[i].since /\ users[i].last \in Nat /\ users[i].last < s,
         \A j \in Ids \ {i} : users'[j] = users[j]
  PROVE  CodesSpent' /\ CodesApart' /\ Rooted'
  <1>1. PICK c : /\ codes' = codes \cup {c}
                 /\ c.user = i /\ c.secret = secret /\ c.since = since /\ c.step = s /\ c.enrolls = enrolls
    <2> DEFINE n == Cardinality({c \in codes : /\ c.user = i /\ c.secret = secret
                                              /\ c.since = since /\ c.step = s})
               one == [user |-> i, secret |-> secret, since |-> since, step |-> s, enrolls |-> enrolls, n |-> n]
    <2>1. codes' = codes \cup {one}
      BY Zenon DEF Accept
    <2> HIDE DEF n
    <2>2. one.user = i /\ one.secret = secret /\ one.since = since /\ one.step = s /\ one.enrolls = enrolls
      OBVIOUS
    <2> HIDE DEF one
    <2> QED
      BY <2>1, <2>2
  <1>2. ASSUME NEW d \in codes, d.user = i, d.since = since
        PROVE  d.step < s
    BY <1>2 DEF CodesSpent
  <1>3. ASSUME NEW d \in codes', NEW j \in Ids, d.user = j, d.since = users'[j].since
        PROVE  d.step <= users'[j].last
    <2>1. CASE d = c
      BY <1>1, <1>3, <2>1
    <2>2. CASE d \in codes /\ j = i
      BY <1>2, <1>3, <2>2 DEF CodesSpent
    <2>3. CASE d \in codes /\ j # i
      <3>1. users'[j] = users[j]
        BY <2>3
      <3> QED
        BY <1>3, <2>3, <3>1 DEF CodesSpent
    <2> QED
      BY <1>1, <2>1, <2>2, <2>3
  <1>4. CodesSpent'
    <2>1. \A d \in codes' : d.since \in 1..fresh' /\ d.step \in Nat
      BY <1>1 DEF CodesSpent
    <2> QED
      BY <1>3, <2>1 DEF CodesSpent
  <1>5. CodesApart'
    <2> SUFFICES ASSUME NEW d \in codes', NEW e \in codes', SameCode(d, e), d.since = e.since
                 PROVE  d = e
      BY DEF CodesApart, SameCode
    <2>1. d.user = e.user /\ d.step = e.step
      BY DEF SameCode
    <2>2. CASE d \in codes /\ e \in codes
      BY <2>2 DEF CodesApart
    <2>3. CASE d = c /\ e \in codes
      BY <1>1, <1>2, <2>1, <2>3
    <2>4. CASE d \in codes /\ e = c
      BY <1>1, <1>2, <2>1, <2>4
    <2> QED
      BY <1>1, <2>2, <2>3, <2>4
  <1>6. \A j, x, last : Root(codes, j, x, last) => Root(codes', j, x, last)
    BY <1>1 DEF Root
  <1>7. Root(codes', i, since, s)
    <2>1. CASE since > MaxId /\ enrolls
      <3>1. c \in codes' /\ c.user = i /\ c.since = since /\ c.step <= s
        BY <1>1
      <3>2. c.enrolls
        BY <1>1, <2>1, Zenon
      <3> QED
        BY <2>1, <3>1, <3>2 DEF Root
    <2>2. CASE Live(i) /\ since = users[i].since /\ users[i].last \in Nat /\ users[i].last < s
      <3>1. Root(codes, i, since, users[i].last)
        BY <2>2 DEF Rooted
      <3>2. \A e \in codes : e.step \in Nat
        BY DEF CodesSpent
      <3> QED
        BY <1>1, <2>2, <3>1, <3>2 DEF Root
    <2> QED
      BY <2>1, <2>2
  <1>8. Rooted'
    <2>1. ASSUME NEW j \in Ids, users'[j].role # "none"
          PROVE  Root(codes', j, users'[j].since, users'[j].last)
      <3>1. CASE j = i
        BY <1>7, <3>1
      <3>2. CASE j # i
        <4>1. users'[j] = users[j]
          BY <3>2
        <4> QED
          BY <1>6, <2>1, <4>1 DEF Rooted, Live
      <3> QED
        BY <3>1, <3>2
    <2>2. ASSUME NEW d \in codes'
          PROVE  d.user \in Ids /\ Root(codes', d.user, d.since, d.step)
      <3>1. CASE d \in codes
        BY <1>6, <3>1 DEF Rooted
      <3>2. CASE d = c
        BY <1>1, <1>7, <3>2
      <3> QED
        BY <1>1, <3>1, <3>2
    <2> QED
      BY <2>1, <2>2 DEF Rooted, Live
  <1> QED
    BY <1>4, <1>5, <1>8
-----------------------------------------------------------------------------
(* A step that writes no account and accepts no code.                      *)
LEMMA QuietKeeps ==
  ASSUME FreshInv, OwnerInv', UNCHANGED <<users, codes, gone>>, fresh' = fresh \/ fresh' = fresh + 1,
         SessionsKnown, WorkKnown, CookiesKnown
  PROVE  FreshInv'
  <1>1. fresh' \in Nat /\ fresh' >= fresh /\ MaxId \in Nat
    BY AccountsAssumption DEF FreshInv, Numbered
  <1>2. Numbered'
    BY <1>1 DEF FreshInv, Numbered, Live
  <1>3. AccountsGoOn
    BY DEF AccountsGoOn, GoesOnAs, Live
  <1>4. CodesSpent' /\ CodesApart' /\ Rooted'
    <2>1. CodesSpent'
      BY <1>1 DEF FreshInv, CodesSpent, Numbered
    <2> QED
      BY <2>1 DEF FreshInv, CodesApart, Rooted, Live
  <1> QED
    BY <1>2, <1>3, <1>4, HoldersFit DEF FreshInv

(* A step that writes one account and neither takes nor records a code.    *)
LEMMA WriteKeeps ==
  ASSUME FreshInv, OwnerInv', UNCHANGED <<codes, fresh, cookies>>, gone \subseteq gone',
         NEW i \in Ids, NEW u, Row(i, u),
         u.last \in Nat, u.epoch \in Nat,
         (u.last = users[i].last /\ u.since = users[i].since /\ u.row = users[i].row)
           \/ (u.since = 0 /\ users[i].row \in gone'),
         u.role # "none" =>
           /\ Live(i) /\ u.since # 0
           /\ (u.epoch = users[i].epoch /\ u.pw = users[i].pw) \/ u.epoch > users[i].epoch,
         u.role = "none" /\ Live(i) => users[i].row \in gone',
         \A s \in sessions' : s \in sessions /\ users'[s.user].role # "none",
         WorkKnown
  PROVE  FreshInv'
  <1>1. /\ Numbered' /\ users'[i] = u /\ \A j \in Ids \ {i} : users'[j] = users[j]
    <2>1. u.since \in 0..fresh'
      BY DEF FreshInv, Numbered
    <2>2. fresh' \in Nat /\ fresh' >= fresh
      BY DEF FreshInv, Numbered
    <2> QED
      BY <2>1, <2>2, OneRow DEF FreshInv, OwnerInv
  <1>2. AccountsGoOn
    <2> SUFFICES ASSUME NEW j \in Ids PROVE GoesOnAs(j)
      BY DEF AccountsGoOn
    <2>1. CASE j = i
      BY <1>1, <2>1 DEF GoesOnAs, Live
    <2>2. CASE j # i
      <3>1. users'[j] = users[j]
        BY <1>1, <2>2
      <3> QED
        BY <3>1 DEF GoesOnAs, Live
    <2> QED
      BY <2>1, <2>2
  <1>3. SessionsKnown /\ CookiesKnown
    BY DEF SessionsKnown, CookiesKnown
  <1>4. CodesSpent' /\ CodesApart'
    <2>1. ASSUME NEW c \in codes, NEW j \in Ids, c.user = j, c.since = users'[j].since
          PROVE  c.step <= users'[j].last
      <3>1. CASE j = i
        BY <1>1, <2>1, <3>1 DEF FreshInv, CodesSpent
      <3>2. CASE j # i
        <4>1. users'[j] = users[j]
          BY <1>1, <3>2
        <4> QED
          BY <2>1, <4>1 DEF FreshInv, CodesSpent
      <3> QED
        BY <3>1, <3>2
    <2>2. CodesSpent'
      BY <2>1 DEF FreshInv, CodesSpent
    <2> QED
      BY <2>2 DEF FreshInv, CodesApart
  <1>5. Rooted'
    <2>1. ASSUME NEW j \in Ids, users'[j].role # "none"
          PROVE  Root(codes, j, users'[j].since, users'[j].last)
      <3>1. CASE j = i
        BY <1>1, <2>1, <3>1 DEF FreshInv, Rooted
      <3>2. CASE j # i
        <4>1. users'[j] = users[j]
          BY <1>1, <3>2
        <4> QED
          BY <2>1, <4>1 DEF FreshInv, Rooted, Live
      <3> QED
        BY <3>1, <3>2
    <2> QED
      BY <2>1 DEF FreshInv, Rooted, Live
  <1> QED
    BY <1>1, <1>2, <1>3, <1>4, <1>5, HoldersFit DEF FreshInv

LEMMA GoodSteps == Good \subseteq Nat
  BY AccountsAssumption DEF Good

(* One request goes on, or comes or ends.                                  *)
LEMMA WorkGoesOn ==
  ASSUME WorkFits, NEW w \in Workers, NEW q, work' = [work EXCEPT ![w] = q], Going(q)
  PROVE  WorkKnown
  <1>1. \A v \in Workers : work'[v] = IF v = w THEN q ELSE work[v]
    BY DEF WorkFits
  <1>2. work' = [v \in Workers |-> work'[v]]
    BY DEF WorkFits
  <1> QED
    BY <1>1, <1>2 DEF WorkKnown

LEMMA WorkStays == ASSUME WorkFits, UNCHANGED work PROVE WorkKnown
  BY DEF WorkFits, WorkKnown

LEMMA FreeGoes == Going(Free)
  BY DEF Going, Request, Free, Read, NoUser

(* Login, Signed: a request begins with what it reads.                     *)
LEMMA ArrivesFresh ==
  ASSUME FreshInv, OwnerInv', NEW w \in Workers, NEW i \in Ids, Live(i), NEW pc, NEW to,
         Arrives(w, pc, i, to), UNCHANGED <<users, sessions, codes, gone, fresh, cookies>>
  PROVE  FreshInv'
  <1> DEFINE q == [pc |-> pc, user |-> i, read |-> Read(users[i]), to |-> to, proof |-> users[i].pw]
  <1>1. work' = [work EXCEPT ![w] = q]
    BY DEF Arrives
  <1>2. Request(q) /\ q.user = i /\ q.read.epoch = users[i].epoch /\ q.read.pw = users[i].pw
        /\ q.read.row = users[i].row
    BY DEF Request, Read
  <1> HIDE DEF q
  <1>3. Going(q)
    <2>1. HeldFit(users', gone', i, users[i].row, users[i].epoch, users[i].pw)
      BY DEF HeldFit, Held, Fits, Live, FreshInv, Numbered
    <2> QED
      BY <1>2, <2>1 DEF Going
  <1>4. WorkKnown
    BY <1>1, <1>3, WorkGoesOn DEF FreshInv
  <1>5. SessionsKnown /\ CookiesKnown
    BY DEF FreshInv, SessionsFit, Live, SessionsKnown, CookiesKnown
  <1> QED
    BY <1>4, <1>5, QuietKeeps

(* Refused, and what else ends with nothing done.                          *)
LEMMA EndsFresh ==
  ASSUME FreshInv, OwnerInv', NEW w \in Workers, Ends(w),
         UNCHANGED <<users, sessions, codes, gone, fresh, cookies>>
  PROVE  FreshInv'
  <1>1. WorkKnown
    BY FreeGoes, WorkGoesOn DEF FreshInv, Ends
  <1>2. SessionsKnown /\ CookiesKnown
    BY DEF FreshInv, SessionsFit, Live, SessionsKnown, CookiesKnown
  <1> QED
    BY <1>1, <1>2, QuietKeeps

(* StartSession: the session is of what the request read; startEnrolment   *)
(* and the enrollment of a new authenticator are for the request's account.*)
LEMMA StartFresh ==
  ASSUME FreshInv, OwnerInv', NEW w \in Workers, Start(w) \/ Reenrol(w)
  PROVE  FreshInv'
  <1> DEFINE q == work[w]
             i == q.user
  <1>1. /\ Ends(w) /\ UNCHANGED <<users, codes, gone>> /\ q.pc # "idle"
        /\ fresh' = fresh \/ fresh' = fresh + 1
    BY DEF Start, Reenrol, tables, ghosts
  <1>2. /\ i \in Ids /\ HeldFit(users, gone, i, q.read.row, q.read.epoch, q.read.pw)
        /\ Request(q)
    BY <1>1 DEF FreshInv, WorkFits
  <1>3. WorkKnown
    BY <1>1, FreeGoes, WorkGoesOn DEF FreshInv, Ends
  <1>4. SessionsKnown
    <2> DEFINE x == [user |-> i, row |-> q.read.row, epoch |-> q.read.epoch, pw |-> q.read.pw,
                     proof |-> q.proof, enrolled |-> q.to = "enrolled"]
    <2>1. sessions' = sessions \/ (Live(i) /\ sessions' = sessions \cup {x})
      BY DEF Start, Reenrol, Session, tables
    <2>2. /\ x.user = i /\ x.row = q.read.row /\ x.epoch = q.read.epoch /\ x.pw = q.read.pw
          /\ x.proof = x.pw \/ x.enrolled
      <3>1. q.to # "enrolled" => q.proof = q.read.pw
        BY <1>2 DEF Request
      <3>2. x.user = i /\ x.row = q.read.row /\ x.epoch = q.read.epoch /\ x.pw = q.read.pw /\ x.proof = q.proof
        OBVIOUS
      <3>3. q.to = "enrolled" => x.enrolled
        BY Zenon
      <3> HIDE DEF x, q
      <3> QED
        BY <3>1, <3>2, <3>3
    <2> HIDE DEF x, q
    <2>3. \A s \in sessions : Live(s.user)
      BY DEF FreshInv, SessionsFit
    <2> QED
      BY <1>1, <1>2, <2>1, <2>2, <2>3 DEF SessionsKnown, Live
  <1>5. CookiesKnown
    <2>1. \A kind, j, u : Cookie(kind, j, u).user = j /\ Cookie(kind, j, u).row = u.row
      BY DEF Cookie
    <2>2. \/ cookies' = cookies
          \/ cookies' = cookies \cup {Cookie("signin", i, q.read)}
          \/ cookies' = cookies \cup {Cookie("reenrol", i, q.read)}
      BY DEF Start, Reenrol
    <2>3. Held(users', gone', i, q.read.row)
      BY <1>1, <1>2 DEF HeldFit
    <2> HIDE DEF q
    <2> QED
      BY <1>2, <2>1, <2>2, <2>3 DEF CookiesKnown
  <1> QED
    BY <1>1, <1>3, <1>4, <1>5, QuietKeeps

(* A code is taken with the row it is of, and the request goes on.         *)
LEMMA TakenFresh ==
  ASSUME FreshInv, OwnerInv', NEW i \in Ids, NEW u, Row(i, u), NEW secret, NEW enrolls, NEW s \in Nat,
         codes' = Accept(i, secret, u.since, s, enrolls), UNCHANGED <<sessions, gone>>,
         cookies' \subseteq cookies, fresh' \in Nat, fresh' >= fresh,
         u.last = s, u.epoch \in Nat, u.since \in 1..fresh', u.role # "none",
         Live(i) => u.row = users[i].row /\ u.epoch = users[i].epoch /\ u.pw = users[i].pw,
         \/ u.since > fresh /\ enrolls
         \/ Live(i) /\ u.since = users[i].since /\ users[i].last < s,
         users'[i] = u => WorkKnown
  PROVE  FreshInv'
  <1>1. /\ Numbered' /\ users'[i] = u /\ \A j \in Ids \ {i} : users'[j] = users[j]
    <2>1. u.since \in 0..fresh' /\ u.since # 0 /\ u.last \in Nat
      OBVIOUS
    <2> QED
      BY <2>1, OneRow DEF FreshInv, OwnerInv
  <1>2. CodesSpent' /\ CodesApart' /\ Rooted'
    <2>1. CodesSpent /\ CodesApart /\ Rooted /\ fresh \in Nat /\ fresh >= MaxId /\ MaxId \in Nat
          /\ users[i].last \in Nat
      BY AccountsAssumption DEF FreshInv, Numbered
    <2>2. u.since > fresh => u.since > MaxId
      BY <2>1
    <2> DEFINE since == u.since
    <2>3. since \in 1..fresh' /\ users'[i].since = since /\ users'[i].last = s
      BY <1>1
    <2>4. \/ since > fresh /\ since > MaxId /\ enrolls
          \/ Live(i) /\ since = users[i].since /\ users[i].last \in Nat /\ users[i].last < s
      BY <2>1, <2>2, Zenon
    <2>5. codes' = Accept(i, secret, since, s, enrolls)
      OBVIOUS
    <2> HIDE DEF since
    <2> QED
      BY <1>1, <2>1, <2>3, <2>4, <2>5, AcceptKeeps
  <1>3. AccountsGoOn
    <2> SUFFICES ASSUME NEW j \in Ids PROVE GoesOnAs(j)
      BY DEF AccountsGoOn
    <2>1. CASE j = i
      BY <1>1, <2>1 DEF GoesOnAs, Live
    <2>2. CASE j # i
      <3>1. users'[j] = users[j]
        BY <1>1, <2>2
      <3> QED
        BY <3>1 DEF GoesOnAs, Live
    <2> QED
      BY <2>1, <2>2
  <1>4. SessionsKnown
    <2> SUFFICES ASSUME NEW x \in sessions PROVE users'[x.user].role # "none"
      BY DEF SessionsKnown
    <2>1. x.user \in Ids /\ users[x.user].role # "none"
      BY DEF FreshInv, SessionsFit, Live
    <2>2. CASE x.user = i
      BY <1>1, <2>2
    <2>3. CASE x.user # i
      <3>1. users'[x.user] = users[x.user]
        BY <1>1, <2>1, <2>3
      <3> QED
        BY <2>1, <3>1
    <2> QED
      BY <2>2, <2>3
  <1>5. CookiesKnown
    BY DEF CookiesKnown
  <1> QED
    BY <1>1, <1>2, <1>3, <1>4, <1>5, HoldersFit DEF FreshInv

(* An account is made at a number that was nobody's.                       *)
LEMMA MakesFresh ==
  ASSUME FreshInv, OwnerInv',
         NEW w \in Workers, NEW c \in cookies, NEW s \in Good, NEW of,
         Makes(w, c, s, NextId, of), Returns(w, c, s), fresh' = fresh + 1, UNCHANGED sessions,
         c.kind \in {"setup", "invite"}
  PROVE  FreshInv'
  <1> DEFINE i == NextId
             n == [NoUser EXCEPT !.role = c.role, !.email = c.email, !.pw = c.pw,
                                 !.epoch = 1, !.row = fresh']
             u == WithSecret(n, c, s)
             q == [pc |-> "start", user |-> i, read |-> Read(u), to |-> "made", proof |-> u.pw]
  <1>1. i \in Ids /\ ~Live(i) /\ Row(i, u) /\ codes' = Accept(i, u.secret, u.since, s, TRUE)
        /\ work' = [work EXCEPT ![w] = q] /\ UNCHANGED gone /\ cookies' \subseteq cookies
    BY NextIdIsFree DEF Makes, Returns, People
  <1>2. u = [role |-> c.role, email |-> c.email, pw |-> c.pw, secret |-> c.secret, last |-> s,
             epoch |-> 1, row |-> fresh', since |-> fresh']
    BY MadeRow
  <1>3. s \in Nat /\ fresh \in Nat /\ fresh' \in Nat /\ fresh' = fresh + 1
    BY GoodSteps DEF FreshInv, Numbered
  <1>4. q = [pc |-> "start", user |-> i, read |-> Read(u), to |-> "made", proof |-> u.pw]
    OBVIOUS
  <1>5. c.role # "none"
    BY DEF FreshInv, OwnerInv, FirstOwns
  <1> HIDE DEF i, n, u, q
  <1>6. u.last = s /\ u.epoch = 1 /\ u.since = fresh' /\ u.since # 0 /\ u.since \in 1..fresh'
        /\ u.since > fresh /\ fresh' >= fresh /\ u.epoch \in Nat /\ u.role = c.role
    BY <1>2, <1>3
  <1>7. ASSUME users'[i] = u PROVE WorkKnown
    <2>1. Request(q) /\ q.user = i /\ q.read.epoch = u.epoch /\ q.read.pw = u.pw /\ q.read.row = u.row
      BY <1>4 DEF Request, Read
    <2>2. HeldFit(users', gone', i, u.row, u.epoch, u.pw)
      BY <1>5, <1>6, <1>7 DEF HeldFit, Held, Fits
    <2>3. Going(q)
      BY <1>1, <2>1, <2>2 DEF Going
    <2> QED
      BY <1>1, <2>3, WorkGoesOn DEF FreshInv
  <1> QED
    BY <1>1, <1>3, <1>5, <1>6, <1>7, TakenFresh

(* An authenticator is recorded with the code that enrolled it as used.    *)
LEMMA EnrolsFresh ==
  ASSUME FreshInv, OwnerInv', NEW w \in Workers, NEW c \in cookies, NEW s \in Good,
         c.kind \in {"signin", "reenrol"}, Enrols(w, c, s)
  PROVE  FreshInv'
  <1> DEFINE i == c.user
             a == users[i]
             u == WithSecret(a, c, s)
             r == [Read(u) EXCEPT !.row = c.row]
             q == [pc |-> "start", user |-> i, to |-> "enrolled", proof |-> c.pw, read |-> r]
  <1>1. /\ i \in Ids /\ Live(i) /\ Row(i, u) /\ codes' = Accept(i, u.secret, u.since, s, TRUE)
        /\ fresh' = fresh + 1 /\ UNCHANGED <<sessions, gone>> /\ cookies' \subseteq cookies
        /\ work' = work \/ work' = [work EXCEPT ![w] = q]
        /\ Held(users, gone, i, c.row)
    BY DEF Enrols, Returns, FreshInv, CookiesHeld
  <1>2. u = Enrolled(a, c.secret, s, fresh')
    BY DEF WithSecret, Enrolled
  <1>3. Account(a) /\ a.last \in Nat /\ a.epoch \in Nat
    BY <1>1 DEF FreshInv, OwnerInv, Typed, Numbered
  <1>4. q = [pc |-> "start", user |-> i, to |-> "enrolled", proof |-> c.pw, read |-> r]
    OBVIOUS
  <1>5. r = [role |-> u.role, pw |-> u.pw, secret |-> u.secret, epoch |-> u.epoch, row |-> c.row]
    BY DEF Read
  <1> HIDE DEF u, q, r
  <1>6. u.last = s /\ u.epoch = a.epoch /\ u.pw = a.pw /\ u.since = fresh' /\ u.role = a.role
        /\ u.row = a.row
    BY <1>2, <1>3, EditedFields, RowEdits, KeptFields
  <1>7. s \in Nat /\ fresh \in Nat /\ fresh' \in Nat /\ fresh' = fresh + 1
    BY <1>1, GoodSteps DEF FreshInv, Numbered
  <1>8. u.since \in 1..fresh' /\ u.since > fresh /\ fresh' >= fresh /\ u.role # "none" /\ u.epoch \in Nat
    BY <1>1, <1>3, <1>6, <1>7 DEF Live
  <1>9. ASSUME users'[i] = u PROVE WorkKnown
    <2>1. Request(q) /\ q.user = i /\ q.read.epoch = u.epoch /\ q.read.pw = u.pw /\ q.read.row = c.row
      BY <1>4, <1>5 DEF Request
    <2>2. HeldFit(users', gone', i, c.row, u.epoch, u.pw)
      BY <1>1, <1>3, <1>6, <1>8, <1>9 DEF HeldFit, Held, Fits
    <2>3. Going(q)
      BY <1>1, <2>1, <2>2 DEF Going
    <2> QED
      BY <1>1, <2>3, WorkGoesOn, WorkStays DEF FreshInv
  <1> HIDE DEF i
  <1> QED
    BY <1>1, <1>6, <1>7, <1>8, <1>9, TakenFresh

(* CheckTOTP: the step is claimed in the row as it is.                     *)
LEMMA ClaimFresh ==
  ASSUME FreshInv, OwnerInv', NEW w \in Workers, ClaimCode(w)
  PROVE  FreshInv'
  <1> DEFINE i == work[w].user
  <1>1. /\ i \in Ids /\ Live(i) /\ Request(work[w]) /\ Account(users[i])
        /\ HeldFit(users, gone, i, work[w].read.row, work[w].read.epoch, work[w].read.pw)
        /\ UNCHANGED <<sessions, gone, cookies, fresh>>
    BY DEF ClaimCode, FreshInv, WorkFits, OwnerInv, Typed
  <1>2. PICK s \in Codes(i) : /\ Row(i, WithCode(users[i], s))
                              /\ codes' = Accept(i, work[w].read.secret, users[i].since, s, FALSE)
    BY DEF ClaimCode, WithCode
  <1> DEFINE u == WithCode(users[i], s)
             q == [pc |-> Turned(work[w].to), user |-> i, read |-> work[w].read, to |-> work[w].to,
                   proof |-> work[w].proof]
  <1>3. u.last = s /\ u.epoch = users[i].epoch /\ u.pw = users[i].pw /\ u.since = users[i].since
        /\ u.role = users[i].role /\ u.row = users[i].row
    BY <1>1, EditedFields, RowEdits, KeptFields
  <1>4. s \in Nat /\ users[i].last < s /\ users[i].last \in Nat /\ users[i].epoch \in Nat
        /\ users[i].since \in 1..fresh /\ fresh \in Nat /\ fresh' = fresh
    BY <1>1, GoodSteps DEF Codes, FreshInv, Numbered
  <1>5. work' = [work EXCEPT ![w] = q]
    <2> DEFINE t == Turned(work[w].to)
    <2>1. work' = [work EXCEPT ![w] = [work[w] EXCEPT !.pc = t]]
      BY DEF ClaimCode, Goes
    <2> HIDE DEF t
    <2>2. [work[w] EXCEPT !.pc = t] =
            [pc |-> t, user |-> work[w].user, read |-> work[w].read, to |-> work[w].to,
             proof |-> work[w].proof]
      BY <1>1 DEF Request
    <2> QED
      BY <2>1, <2>2 DEF t
  <1>6. Request(q) /\ q.user = i /\ q.read = work[w].read
    BY <1>1 DEF Request
  <1>7. Row(i, u) /\ codes' = Accept(i, work[w].read.secret, u.since, s, FALSE)
    BY <1>2, <1>3
  <1> HIDE DEF i, u, q
  <1>8. ASSUME users'[i] = u PROVE WorkKnown
    <2>1. HeldFit(users', gone', i, q.read.row, q.read.epoch, q.read.pw)
      BY <1>1, <1>3, <1>6, <1>8 DEF HeldFit, Held, Fits
    <2>2. Going(q)
      BY <1>1, <1>6, <2>1 DEF Going
    <2> QED
      BY <1>5, <2>2, WorkGoesOn DEF FreshInv
  <1>9. /\ u.since \in 1..fresh' /\ fresh' >= fresh /\ fresh' \in Nat /\ u.role # "none"
        /\ u.epoch \in Nat /\ cookies' \subseteq cookies
    BY <1>1, <1>3, <1>4 DEF Live
  <1> QED
    BY <1>1, <1>3, <1>4, <1>7, <1>8, <1>9, TakenFresh

(* A request that goes on to start a session with what it has just made.   *)
Proved(k, e, p) == [k EXCEPT !.epoch = e, !.pw = p]

GoesOn(a, b, p) == [a EXCEPT !.pc = "start", !.read = b, !.proof = p]

LEMMA RequestGoesOn ==
  ASSUME NEW a, Request(a), NEW e, NEW p
  PROVE  LET y == GoesOn(a, Proved(a.read, e, p), p) IN
         /\ Request(y) /\ y.pc = "start" /\ y.user = a.user
         /\ y.read.epoch = e /\ y.read.pw = p /\ y.read.row = a.read.row
  <1> DEFINE b == Proved(a.read, e, p)
             y == GoesOn(a, b, p)
  <1>1. b = [role |-> a.read.role, pw |-> p, secret |-> a.read.secret, epoch |-> e, row |-> a.read.row]
    <2> DEFINE k == a.read
    <2>1. k = [role |-> k.role, pw |-> k.pw, secret |-> k.secret, epoch |-> k.epoch, row |-> k.row]
      BY DEF Request
    <2>2. b = [k EXCEPT !.epoch = e, !.pw = p]
      BY DEF Proved
    <2> HIDE DEF k, b
    <2>3. b = [role |-> k.role, pw |-> p, secret |-> k.secret, epoch |-> e, row |-> k.row]
      BY <2>1, <2>2
    <2> QED
      BY <2>3 DEF k
  <1> HIDE DEF b
  <1>2. y = [pc |-> "start", user |-> a.user, read |-> b, to |-> a.to, proof |-> p]
    <2>1. a = [pc |-> a.pc, user |-> a.user, read |-> a.read, to |-> a.to, proof |-> a.proof]
      BY DEF Request
    <2>2. y = [a EXCEPT !.pc = "start", !.read = b, !.proof = p]
      BY DEF GoesOn
    <2> HIDE DEF y
    <2> QED
      BY <2>1, <2>2
  <1> HIDE DEF y
  <1>3. Request(y) /\ y.pc = "start" /\ y.user = a.user /\ y.read.epoch = e /\ y.read.pw = p
        /\ y.read.row = a.read.row
    BY <1>1, <1>2 DEF Request
  <1> QED
    BY <1>3 DEF y, b

(* A new password strands what older ones proved: the request that set it  *)
(* goes on with the epoch it made, or with one that has passed.            *)
LEMMA PasswordFresh ==
  ASSUME FreshInv, OwnerInv', NEW w \in Workers, Password(w)
  PROVE  FreshInv'
  <1> DEFINE i == work[w].user
             a == work[w]
             e == a.read.epoch + 1
             p == users[i].pw + 1
             u == WithPassword(users[i], p, users[i].epoch + 1)
             r == [a.read EXCEPT !.epoch = @ + 1, !.pw = p]
             q == GoesOn(a, Proved(a.read, e, p), p)
  <1>1. /\ i \in Ids /\ Request(a)
        /\ HeldFit(users, gone, i, a.read.row, a.read.epoch, a.read.pw)
    BY DEF Password, FreshInv, WorkFits
  <1>2. UNCHANGED <<codes, gone, fresh, cookies, sessions>>
    BY DEF Password, ghosts
  <1>3. CASE Live(i)
    <2>1. Row(i, u) /\ work' = [work EXCEPT ![w] = q]
      <3>1. Row(i, [users[i] EXCEPT !.pw = @ + 1, !.epoch = @ + 1])
            /\ work' = [work EXCEPT ![w].pc = "start", ![w].read = r, ![w].proof = r.pw]
        BY <1>3 DEF Password
      <3>2. r = Proved(a.read, e, p) /\ r.pw = p
        <4>1. r = [a.read EXCEPT !.epoch = e, !.pw = p]
          OBVIOUS
        <4> HIDE DEF e, p, a
        <4>2. a.read = [role |-> a.read.role, pw |-> a.read.pw, secret |-> a.read.secret,
                        epoch |-> a.read.epoch, row |-> a.read.row]
          BY <1>1 DEF Request
        <4> DEFINE k == a.read
        <4> HIDE DEF r, k
        <4>3. r = [role |-> k.role, pw |-> p, secret |-> k.secret, epoch |-> e, row |-> k.row]
          BY <4>1, <4>2 DEF k
        <4> QED
          BY <4>1, <4>3 DEF Proved
      <3>3. work' = [work EXCEPT ![w] = q]
        <4> HIDE DEF r
        <4>1. work' = [work EXCEPT ![w].pc = "start", ![w].read = r, ![w].proof = p]
          BY <3>1, <3>2
        <4> HIDE DEF p
        <4>2. work' = [work EXCEPT ![w] = [work[w] EXCEPT !.pc = "start", !.read = r, !.proof = p]]
          BY <4>1 DEF FreshInv, WorkFits
        <4> HIDE DEF e
        <4> QED
          BY <3>2, <4>2 DEF GoesOn
      <3> QED
        BY <3>1, <3>3 DEF WithPassword
    <2>2. Request(q) /\ q.user = i /\ q.read.epoch = e /\ q.read.pw = p /\ q.read.row = a.read.row
      <3> HIDE DEF e, p
      <3> QED
        BY <1>1, RequestGoesOn
    <2> HIDE DEF q
    <2>3. Account(users[i]) /\ users[i].last \in Nat /\ users[i].epoch \in Nat /\ users[i].since # 0
      BY <1>1, <1>3 DEF FreshInv, OwnerInv, Typed, Numbered
    <2>4. u.last = users[i].last /\ u.epoch = users[i].epoch + 1 /\ u.pw = p
          /\ u.since = users[i].since /\ u.role = users[i].role /\ u.row = users[i].row
      <3> HIDE DEF p
      <3> QED
        BY <2>3, EditedFields, RowEdits, KeptFields
    <2> HIDE DEF u
    <2>5. users' = [users EXCEPT ![i] = u] /\ users'[i] = u
      BY <1>1, <2>1 DEF Row, FreshInv, OwnerInv, Typed
    <2>6. \A s \in sessions' : s \in sessions /\ users'[s.user].role # "none"
      BY <1>1, <1>2, <1>3, <2>4, <2>5 DEF FreshInv, OwnerInv, Typed, SessionsFit, Live
    <2>7. HeldFit(users', gone', i, a.read.row, e, p)
      BY <1>1, <1>2, <1>3, <2>3, <2>4, <2>5 DEF HeldFit, Held, Fits, Live
    <2>8. Going(q)
      BY <1>1, <2>2, <2>7 DEF Going
    <2>9. WorkKnown
      BY <2>1, <2>8, WorkGoesOn DEF FreshInv
    <2>10. /\ u.last \in Nat /\ u.epoch \in Nat /\ u.epoch > users[i].epoch /\ u.since # 0
           /\ u.role # "none"
      BY <1>3, <2>3, <2>4 DEF Live
    <2> HIDE DEF i
    <2> QED
      BY <1>1, <1>2, <1>3, <2>1, <2>4, <2>6, <2>9, <2>10, WriteKeeps
  <1>4. CASE ~Live(i)
    <2>1. Ends(w) /\ UNCHANGED users
      BY <1>4 DEF Password
    <2> QED
      BY <1>2, <2>1, EndsFresh
  <1> QED
    BY <1>3, <1>4

(* A row is written beside requests that stay as they are, but for the one *)
(* that ends with it.                                                      *)
LEMMA WriteAside ==
  ASSUME FreshInv, OwnerInv', UNCHANGED <<codes, fresh, cookies>>, gone \subseteq gone',
         NEW i \in Ids, NEW u, Row(i, u),
         u.last \in Nat, u.epoch \in Nat,
         (u.last = users[i].last /\ u.since = users[i].since /\ u.row = users[i].row)
           \/ (u.since = 0 /\ users[i].row \in gone'),
         u.role # "none" =>
           /\ Live(i) /\ u.since # 0
           /\ (u.epoch = users[i].epoch /\ u.pw = users[i].pw) \/ u.epoch > users[i].epoch,
         \/ sessions' = sessions /\ (Live(i) => u.role # "none")
         \/ sessions' = {s \in sessions : s.user # i} /\ users[i].row \in gone',
         UNCHANGED work \/ \E w \in Workers : Ends(w)
  PROVE  FreshInv'
  <1>1. users' = [users EXCEPT ![i] = u] /\ users'[i] = u
        /\ \A j \in Ids \ {i} : users'[j] = users[j]
    BY DEF Row, FreshInv, OwnerInv, Typed
  <1>2. \A s \in sessions' : s \in sessions /\ users'[s.user].role # "none"
    BY <1>1 DEF FreshInv, SessionsFit, Live
  <1>3. WorkKnown
    BY FreeGoes, WorkGoesOn, WorkStays DEF FreshInv, Ends
  <1>4. u.role = "none" /\ Live(i) => users[i].row \in gone'
    OBVIOUS
  <1> QED
    BY <1>2, <1>3, <1>4, WriteKeeps

LEMMA WritersFresh ==
  ASSUME FreshInv, OwnerInv', NEW w \in Workers,
         SignOutEverywhere(w) \/ DeleteAccount(w) \/ SetRole(w)
  PROVE  FreshInv'
  <1>1. \A i \in Ids : /\ Account(users[i]) /\ users[i].last \in Nat /\ users[i].epoch \in Nat
                       /\ Live(i) => users[i].since # 0
    BY DEF FreshInv, OwnerInv, Typed, Numbered
  <1>2. UNCHANGED <<codes, fresh, cookies>>
    BY DEF SignOutEverywhere, DeleteAccount, SetRole, ghosts
  <1>3. ASSUME UNCHANGED <<users, sessions, gone>>, Ends(w)
        PROVE  FreshInv'
    BY <1>2, <1>3, EndsFresh
  <1>4. CASE SignOutEverywhere(w)
    <2> DEFINE i == work[w].user
               u == WithEpoch(users[i], users[i].epoch + 1)
    <2>1. i \in Ids /\ Ends(w) /\ UNCHANGED <<sessions, gone>>
      BY <1>4 DEF SignOutEverywhere, FreshInv, WorkFits, ghosts
    <2>2. CASE Live(i)
      <3>1. Row(i, u)
        BY <1>4, <2>2 DEF SignOutEverywhere, Row, WithEpoch
      <3>2. u.last = users[i].last /\ u.epoch = users[i].epoch + 1 /\ u.since = users[i].since
            /\ u.role = users[i].role /\ u.row = users[i].row
        BY <1>1, <2>1, EditedFields, RowEdits, KeptFields
      <3>3. u.last \in Nat /\ u.epoch \in Nat /\ u.epoch > users[i].epoch /\ u.since # 0
            /\ u.role # "none"
        BY <1>1, <2>1, <2>2, <3>2 DEF Live
      <3> HIDE DEF i, u
      <3> QED
        BY <1>2, <2>1, <2>2, <3>1, <3>2, <3>3, WriteAside
    <2>3. CASE ~Live(i)
      BY <1>3, <1>4, <2>1, <2>3 DEF SignOutEverywhere
    <2> QED
      BY <2>2, <2>3
  <1>5. CASE DeleteAccount(w)
    <2> DEFINE i == work[w].user
    <2>1. i \in Ids /\ Ends(w)
      BY <1>5 DEF DeleteAccount, FreshInv, WorkFits
    <2>2. CASE Live(i) /\ Owners \ {i} # {}
      <3>1. Row(i, NoUser) /\ sessions' = {s \in sessions : s.user # i}
            /\ gone \subseteq gone' /\ users[i].row \in gone'
        BY <1>5, <2>2 DEF DeleteAccount
      <3>2. NoUser.last \in Nat /\ NoUser.epoch \in Nat /\ NoUser.since = 0 /\ NoUser.role = "none"
        BY DEF NoUser
      <3> HIDE DEF i
      <3> QED
        BY <1>2, <2>1, <3>1, <3>2, WriteAside
    <2>3. CASE ~(Live(i) /\ Owners \ {i} # {})
      BY <1>3, <1>5, <2>1, <2>3 DEF DeleteAccount
    <2> QED
      BY <2>2, <2>3
  <1>6. CASE SetRole(w)
    <2>1. Ends(w) /\ UNCHANGED <<sessions, gone>>
      BY <1>6 DEF SetRole, ghosts
    <2>2. PICK i \in People, role \in Roles :
            users' = IF users[i].role # "owner" \/ Owners \ {i} # {}
                     THEN [users EXCEPT ![i].role = role]
                     ELSE users
      BY <1>6 DEF SetRole
    <2> DEFINE u == WithRole(users[i], role)
    <2>3. CASE users[i].role # "owner" \/ Owners \ {i} # {}
      <3>1. Row(i, u)
        BY <2>2, <2>3 DEF Row, WithRole
      <3>2. i \in Ids /\ Live(i)
        BY DEF People
      <3>3. u.last = users[i].last /\ u.epoch = users[i].epoch /\ u.since = users[i].since
            /\ u.pw = users[i].pw /\ u.role = role /\ u.row = users[i].row
        BY <1>1, <3>2, EditedFields, RowEdits, KeptFields
      <3>4. u.last \in Nat /\ u.epoch \in Nat /\ u.since # 0 /\ u.role # "none"
        BY <1>1, <3>2, <3>3 DEF Roles
      <3> HIDE DEF u
      <3> QED
        BY <1>2, <2>1, <3>1, <3>2, <3>3, <3>4, WriteAside
    <2>4. CASE ~(users[i].role # "owner" \/ Owners \ {i} # {})
      BY <1>3, <2>1, <2>2, <2>4
    <2> QED
      BY <2>3, <2>4
  <1> QED
    BY <1>4, <1>5, <1>6

LEMMA ResetFresh ==
  ASSUME FreshInv, OwnerInv', NEW r \in resets, ResetPassword(r)
  PROVE  FreshInv'
  <1>1. \A i \in Ids : /\ Account(users[i]) /\ users[i].last \in Nat /\ users[i].epoch \in Nat
                       /\ Live(i) => users[i].since # 0
    BY DEF FreshInv, OwnerInv, Typed, Numbered
  <1>2. UNCHANGED <<codes, gone, fresh, cookies>>
    BY DEF ResetPassword, ghosts
  <1> DEFINE i == r.user
             u == WithPassword(users[i], users[i].pw + 1, users[i].epoch + 1)
  <1>3. Row(i, u) /\ UNCHANGED <<sessions, work>>
    BY DEF ResetPassword, WithPassword
  <1>4. CASE i \in Ids
    <2>1. u.last = users[i].last /\ u.epoch = users[i].epoch + 1 /\ u.since = users[i].since
          /\ u.role = users[i].role /\ u.row = users[i].row
      BY <1>1, <1>4, EditedFields, RowEdits, KeptFields
    <2>2. u.last \in Nat /\ u.epoch \in Nat /\ u.epoch > users[i].epoch
          /\ (u.role # "none" => Live(i) /\ u.since # 0) /\ (Live(i) => u.role # "none")
      BY <1>1, <1>4, <2>1 DEF Live
    <2> HIDE DEF i, u
    <2> QED
      BY <1>2, <1>3, <1>4, <2>1, <2>2, WriteAside
  <1>5. CASE i \notin Ids
    <2>1. UNCHANGED users
      BY <1>3, <1>5 DEF Row, FreshInv, OwnerInv, Typed
    <2>2. WorkKnown
      BY <1>3, WorkStays DEF FreshInv
    <2>3. SessionsKnown /\ CookiesKnown
      BY <1>2, <1>3, <2>1 DEF FreshInv, SessionsFit, Live, SessionsKnown, CookiesKnown
    <2> QED
      BY <1>2, <2>1, <2>2, <2>3, QuietKeeps
  <1> QED
    BY <1>4, <1>5

(* Requests that touch neither accounts nor those who are at work.         *)
LEMMA RestFresh ==
  ASSUME FreshInv, OwnerInv', UNCHANGED <<users, codes, gone, work>>, sessions' \subseteq sessions,
         fresh' = fresh \/ fresh' = fresh + 1,
         \A c \in cookies' \ cookies : c.kind \in {"setup", "invite"}
  PROVE  FreshInv'
  <1>1. WorkKnown
    BY WorkStays DEF FreshInv
  <1>2. SessionsKnown
    BY DEF FreshInv, SessionsFit, Live, SessionsKnown
  <1>3. CookiesKnown
    BY DEF CookiesKnown
  <1> QED
    BY <1>1, <1>2, <1>3, QuietKeeps

LEMMA FreshInitially == Init => FreshInv
  <1> SUFFICES ASSUME Init PROVE FreshInv
    OBVIOUS
  <1>0. PICK k \in {0} \cup Ids : \E e \in [Ids -> Emails], lost \in BOOLEAN : Founded(k, e, lost)
    BY FirstPeople
  <1>1. PICK e \in [Ids -> Emails], lost \in BOOLEAN : Founded(k, e, lost)
    BY <1>0
  <1>2. /\ users = [i \in Ids |->
             IF i <= k
             THEN [NoUser EXCEPT !.role = "owner", !.email = e[i], !.pw = 1, !.epoch = 1,
                                 !.secret = IF lost /\ i = 1 THEN 0 ELSE i, !.row = i, !.since = i]
             ELSE NoUser]
        /\ sessions = {[user |-> i, row |-> i, epoch |-> 1, pw |-> 1, proof |-> 1, enrolled |-> FALSE] :
                         i \in 1..k}
    BY <1>1 DEF Founded
  <1>3. MaxId \in Nat /\ Ids = 1..MaxId /\ fresh = MaxId
    <2>1. MaxId \in Nat
      BY AccountsAssumption
    <2>2. Cardinality(1..MaxId) = MaxId
      BY <2>1, FS_Interval
    <2> QED
      BY <2>1, <2>2 DEF Init, Ids
  <1>4. ASSUME NEW i \in Ids
        PROVE  /\ users[i].last = 0
               /\ i <= k => users[i].role = "owner" /\ users[i].pw = 1 /\ users[i].epoch = 1
                            /\ users[i].since = i /\ users[i].row = i
               /\ ~(i <= k) => users[i].role = "none" /\ users[i].epoch = 0 /\ users[i].since = 0
    <2> DEFINE x == IF lost /\ i = 1 THEN 0 ELSE i
    <2>1. users[i] = IF i <= k
                     THEN [NoUser EXCEPT !.role = "owner", !.email = e[i], !.pw = 1, !.epoch = 1,
                                         !.secret = x, !.row = i, !.since = i]
                     ELSE NoUser
      BY <1>2
    <2> HIDE DEF x
    <2>2. CASE i <= k
      <3>1. users[i] = [role |-> "owner", email |-> e[i], pw |-> 1, secret |-> x, last |-> 0,
                        epoch |-> 1, row |-> i, since |-> i]
        BY <2>1, <2>2 DEF NoUser
      <3> QED
        BY <2>2, <3>1
    <2>3. CASE ~(i <= k)
      BY <2>1, <2>3 DEF NoUser
    <2> QED
      BY <2>2, <2>3
  <1>5. Numbered
    BY <1>3, <1>4 DEF Numbered, Live
  <1>6. SessionsFit
    <2>1. ASSUME NEW s \in sessions
          PROVE  /\ s.user \in Ids /\ s.user <= k /\ s.epoch = 1 /\ s.pw = 1
                 /\ s.row = s.user /\ s.proof = 1
      <3>1. PICK j \in 1..k : s = [user |-> j, row |-> j, epoch |-> 1, pw |-> 1, proof |-> 1, enrolled |-> FALSE]
        BY <1>2
      <3>2. k \in Nat /\ k <= MaxId
        BY <1>3
      <3>3. j \in Ids /\ j <= k
        BY <1>3, <3>2
      <3> QED
        BY <3>1, <3>3
    <2> QED
      BY <1>4, <2>1 DEF SessionsFit, Live, Fits, Held, HeldFit
  <1>7. WorkFits
    <2>1. Request(Free) /\ Free.pc = "idle"
      BY DEF Request, Free, Read, NoUser
    <2> QED
      BY <2>1 DEF Init, WorkFits
  <1>8. CookiesHeld /\ CodesSpent /\ CodesApart /\ Rooted
    <2>1. cookies = {} /\ codes = {}
      BY DEF Init
    <2>2. \A i \in Ids : Live(i) => users[i].since = i
      BY <1>4 DEF Live
    <2> QED
      BY <2>1, <2>2 DEF CookiesHeld, CodesSpent, CodesApart, Rooted, Root
  <1> QED
    BY <1>5, <1>6, <1>7, <1>8, Initially DEF FreshInv

LEMMA FreshStep == FreshInv /\ [Next]_vars => FreshInv'
  <1> SUFFICES ASSUME FreshInv, [Next]_vars PROVE FreshInv'
    OBVIOUS
  <1>1. OwnerInv'
    BY StepKeeps DEF FreshInv
  <1>2. ASSUME NEW w \in Workers, NEW i \in Ids, Login(w, i) \/ Signed(w, i)
        PROVE  FreshInv'
    <2>1. /\ UNCHANGED <<users, sessions, codes, gone, fresh, cookies>>
          /\ \E pc, to : Arrives(w, pc, i, to)
      BY <1>2 DEF Login, Signed, tables, ghosts
    <2>2. Live(i)
      BY <1>2 DEF Login, Signed, Usable
    <2> QED
      BY <1>1, <2>1, <2>2, ArrivesFresh
  <1>3. ASSUME NEW w \in Workers, Refused(w)
        PROVE  FreshInv'
    BY <1>1, <1>3, EndsFresh DEF Refused, tables, ghosts
  <1>4. ASSUME NEW w \in Workers, ClaimCode(w) \/ Start(w) \/ Commit(w)
        PROVE  FreshInv'
    BY <1>1, <1>4, ClaimFresh, StartFresh, PasswordFresh, WritersFresh DEF Commit
  <1>5. ASSUME NEW w \in Workers, NEW c \in cookies, NEW s \in Good, Enrol(w, c, s)
        PROVE  FreshInv'
    <2>1. CASE FinishSetup(w, c, s) \/ FinishInvite(w, c, s)
      <3>1. /\ Returns(w, c, s) /\ fresh' = fresh + 1 /\ UNCHANGED sessions
            /\ c.kind \in {"setup", "invite"}
            /\ \E of : Makes(w, c, s, NextId, of)
        BY <2>1 DEF FinishSetup, FinishInvite
      <3> QED
        BY <1>1, <3>1, MakesFresh
    <2>2. CASE FinishSignIn(w, c, s) \/ FinishReenrol(w, c, s)
      BY <1>1, <2>2, EnrolsFresh DEF FinishSignIn, FinishReenrol
    <2> QED
      BY <1>5, <2>1, <2>2 DEF Enrol
  <1>6. CASE (\E e \in Emails : PostSetup(e)) \/ (\E i \in Invites : PostInvite(i))
    <2>1. /\ UNCHANGED <<users, codes, gone, work, sessions>> /\ fresh' = fresh + 1
          /\ \E kind \in {"setup", "invite"} : \E i, row, e, role :
               cookies' = cookies \cup {AccountCookie(kind, i, row, e, role)}
      BY <1>6 DEF PostSetup, PostInvite, Asked, tables, ghosts
    <2>2. \A kind, i, row, e, role : AccountCookie(kind, i, row, e, role).kind = kind
      BY DEF AccountCookie
    <2>3. \A c \in cookies' \ cookies : c.kind \in {"setup", "invite"}
      BY <2>1, <2>2
    <2> QED
      BY <1>1, <2>1, <2>3, RestFresh
  <1>7. CASE \/ \E i \in Invites : \/ RevokeInvitation(i)
                                   \/ \E e \in Emails, role \in Roles : CreateInvitation(i, e, role)
             \/ Require \/ (\E i \in Ids : AskReset(i)) \/ (\E s \in sessions : EndSession(s)) \/ Tick
    <2>1. /\ UNCHANGED <<users, codes, gone, work>> /\ sessions' \subseteq sessions
          /\ fresh' = fresh \/ fresh' = fresh + 1
          /\ cookies' \subseteq cookies
      BY <1>7 DEF RevokeInvitation, CreateInvitation, Require, AskReset, EndSession, Tick, tables, ghosts
    <2> QED
      BY <1>1, <2>1, RestFresh
  <1>8. CASE \E r \in resets : ResetPassword(r)
    BY <1>1, <1>8, ResetFresh
  <1>9. CASE UNCHANGED vars
    BY <1>1, <1>9, RestFresh DEF vars
  <1> QED
    BY <1>2, <1>3, <1>4, <1>5, <1>6, <1>7, <1>8, <1>9 DEF Next

(* StartSession, ResetPassword and ClaimTOTPStep: a session that works is  *)
(* of an account that is gone or was proved with the password of now, but  *)
(* for who enrolled on the way; and a code is taken once, but for one that *)
(* is as late as the code of an enrollment that came between.              *)
THEOREM SessionsAreFresh == Spec => []ProvedFresh
  <1>1. FreshInv => ProvedFresh
    <2> SUFFICES ASSUME FreshInv PROVE ProvedFresh
      OBVIOUS
    <2>1. CodesOnce
      BY RootedOnce DEF FreshInv
    <2>2. SessionsProved
      BY DEF FreshInv, SessionsFit, SessionsProved, Usable, HeldFit, Held, Fits
    <2> QED
      BY <2>1, <2>2 DEF ProvedFresh
  <1> QED
    BY <1>1, FreshStep, FreshInitially, PTL DEF Spec
-----------------------------------------------------------------------------
(* Everything an enrollment or an invitation draws is a number of its own. *)
Drawn ==
  \A i \in Ids : /\ users[i].row \in 0..fresh
                 /\ (Live(i) \/ users[i].secret # 0) => users[i].row # 0
Secrets ==
  /\ \A c \in cookies : c.secret \in 0..fresh
  /\ \A c, d \in cookies : c.secret = d.secret => c = d
Invited ==
  /\ \A i \in Invites : invitations[i].state = "pending" => invitations[i].row \in 0..fresh
  /\ \A i, j \in Invites : /\ invitations[i].state = "pending" /\ invitations[j].state = "pending"
                           /\ invitations[i].row = invitations[j].row
                           => i = j
(* A cookie's invitation is the one it was begun from, or was revoked.     *)
Begun ==
  \A c \in cookies : c.kind = "invite" =>
    /\ c.invite \in Invites
    /\ c.row \in revoked \/ (invitations[c.invite].state # "none" /\ invitations[c.invite].row = c.row)
(* What made an account cannot make another.                               *)
Spent ==
  \A m \in made :
    \/ m.by = "setup" /\ m.of = 0 /\ People # {}
    \/ /\ m.by = "invite" /\ m.of \in 0..fresh
       /\ \A i \in Invites : invitations[i].state = "pending" => invitations[i].row # m.of

EnrolInv == FreshInv /\ Drawn /\ Secrets /\ Invited /\ Begun /\ Spent /\ InvitedOnce
-----------------------------------------------------------------------------
(* What a step may do to the row of an account.                            *)
Same(i) ==
  /\ users'[i].row = users[i].row /\ users'[i].secret = users[i].secret
  /\ Live(i) <=> users'[i].role # "none"
Replaced(i) ==
  /\ Live(i) /\ users'[i].role # "none" /\ users'[i].row = users[i].row
  /\ \E c \in cookies : /\ users'[i].secret = c.secret
                        /\ \/ c.kind = "reenrol" /\ (c.row = users[i].row \/ c.row \in gone)
                           \/ c.kind = "signin" /\ users[i].secret = 0
Becomes(i) ==
  Same(i) \/ users'[i] = NoUser \/ (users'[i].row = fresh' /\ fresh' = fresh + 1) \/ Replaced(i)
(* Somebody stays when somebody is there.                                  *)
SomebodyStays == (\A i \in Ids : Live(i) => users'[i].role # "none") \/ Owners' # {}
RowsStep == SomebodyStays /\ \A i \in Ids : Becomes(i)

LEMMA EditedRow ==
  ASSUME OwnerInv, NEW i, NEW u, Row(i, u),
         i \in Ids => u.row = users[i].row /\ u.secret = users[i].secret /\ (Live(i) <=> u.role # "none")
  PROVE  RowsStep
  <1>1. \A j \in Ids : users'[j] = IF j = i THEN u ELSE users[j]
    BY DEF Row, OwnerInv, Typed
  <1>2. \A j \in Ids : Same(j)
    BY <1>1 DEF Same, Live
  <1> QED
    BY <1>2 DEF RowsStep, Becomes, Same, SomebodyStays

LEMMA RowsAsWere ==
  ASSUME UNCHANGED users PROVE RowsStep
  BY DEF RowsStep, Becomes, Same, SomebodyStays, Live

LEMMA EditsRow ==
  ASSUME OwnerInv, NEW w,
         ClaimCode(w) \/ Password(w) \/ SignOutEverywhere(w) \/ \E r \in resets : ResetPassword(r)
  PROVE  RowsStep
  <1>2. \A i \in Ids : Account(users[i])
    BY DEF OwnerInv, Typed
  <1>3. CASE users' = users
    BY <1>3, RowsAsWere
  <1>4. CASE ClaimCode(w)
    <2>1. PICK s : Row(work[w].user, WithCode(users[work[w].user], s))
      BY <1>4 DEF ClaimCode, WithCode
    <2> QED
      BY <1>2, <2>1, RowEdits, KeptFields, EditedRow DEF Live
  <1>5. CASE Password(w) /\ users' # users
    <2>1. Row(work[w].user, WithPassword(users[work[w].user], users[work[w].user].pw + 1,
                                         users[work[w].user].epoch + 1))
      BY <1>5 DEF Password, WithPassword
    <2> QED
      BY <1>2, <2>1, RowEdits, KeptFields, EditedRow DEF Live
  <1>6. CASE SignOutEverywhere(w) /\ users' # users
    <2>1. Row(work[w].user, WithEpoch(users[work[w].user], users[work[w].user].epoch + 1))
      BY <1>6 DEF SignOutEverywhere, WithEpoch, Row
    <2> QED
      BY <1>2, <2>1, RowEdits, KeptFields, EditedRow DEF Live
  <1>7. CASE \E r \in resets : ResetPassword(r)
    <2>1. PICK r \in resets :
            Row(r.user, WithPassword(users[r.user], users[r.user].pw + 1, users[r.user].epoch + 1))
      BY <1>7 DEF ResetPassword, WithPassword
    <2> QED
      BY <1>2, <2>1, RowEdits, KeptFields, EditedRow DEF Live
  <1> QED
    BY <1>3, <1>4, <1>5, <1>6, <1>7

LEMMA DeleteRow ==
  ASSUME OwnerInv, NEW w, DeleteAccount(w)
  PROVE  RowsStep
  <1> DEFINE i == work[w].user
  <1>1. CASE Live(i) /\ Owners \ {i} # {}
    <2>1. Row(i, NoUser)
      BY <1>1 DEF DeleteAccount
    <2>2. \A j \in Ids : users'[j] = IF j = i THEN NoUser ELSE users[j]
      BY <2>1 DEF Row, OwnerInv, Typed
    <2>3. Owners' # {}
      BY <1>1, <2>2 DEF Owners
    <2>4. \A j \in Ids : Becomes(j)
      BY <2>2 DEF Becomes, Same, Live
    <2> QED
      BY <2>3, <2>4 DEF RowsStep, SomebodyStays
  <1>2. CASE ~(Live(i) /\ Owners \ {i} # {})
    BY <1>2, RowsAsWere DEF DeleteAccount
  <1> QED
    BY <1>1, <1>2

LEMMA RoleRow ==
  ASSUME OwnerInv, NEW w, SetRole(w)
  PROVE  RowsStep
  <1>1. PICK i \in People, role \in Roles :
          users' = users \/ users' = [users EXCEPT ![i].role = role]
    BY DEF SetRole
  <1>2. CASE users' = [users EXCEPT ![i].role = role]
    <2>1. Row(i, WithRole(users[i], role)) /\ i \in Ids /\ Live(i) /\ role # "none"
      BY <1>2 DEF Row, WithRole, People, Roles
    <2>2. Account(users[i])
      BY <2>1 DEF OwnerInv, Typed
    <2> QED
      BY <2>1, <2>2, RowEdits, KeptFields, EditedRow
  <1> QED
    BY <1>1, <1>2, RowsAsWere

LEMMA EnrolRow ==
  ASSUME FreshInv, NEW w, NEW c \in cookies, NEW s, Enrol(w, c, s)
  PROVE  RowsStep
  <1>0. OwnerInv
    BY DEF FreshInv
  <1>1. CASE FinishSetup(w, c, s) \/ FinishInvite(w, c, s)
    <2> DEFINE u == WithSecret([NoUser EXCEPT !.role = c.role, !.email = c.email, !.pw = c.pw,
                                              !.epoch = 1, !.row = fresh'], c, s)
    <2>1. Row(NextId, u) /\ fresh' = fresh + 1
      BY <1>1 DEF FinishSetup, FinishInvite, Makes
    <2>2. u.row = fresh'
      <3>1. u = [role |-> c.role, email |-> c.email, pw |-> c.pw, secret |-> c.secret, last |-> s,
                 epoch |-> 1, row |-> fresh', since |-> fresh']
        BY MadeRow
      <3> HIDE DEF u
      <3> QED
        BY <3>1
    <2> HIDE DEF u
    <2>3. \A j \in Ids : users'[j] = IF j = NextId THEN u ELSE users[j]
      BY <1>0, <2>1 DEF Row, OwnerInv, Typed
    <2>4. \A j \in Ids : Becomes(j)
      BY <2>1, <2>2, <2>3 DEF Becomes, Same, Live
    <2>5. SomebodyStays
      <3>1. \A j \in Ids : Live(j) => j # NextId
        BY NextIdIsFree DEF People
      <3> QED
        BY <2>3, <3>1 DEF SomebodyStays, Live
    <2> QED
      BY <2>4, <2>5 DEF RowsStep
  <1>2. CASE FinishSignIn(w, c, s) \/ FinishReenrol(w, c, s)
    <2> DEFINE i == c.user
               u == WithSecret(users[i], c, s)
    <2>1. /\ Row(i, u) /\ Live(i)
          /\ \/ c.kind = "reenrol" /\ (c.row = users[i].row \/ c.row \in gone)
             \/ c.kind = "signin" /\ users[i].secret = 0
      BY <1>2 DEF FinishSignIn, FinishReenrol, Enrols, FreshInv, CookiesHeld, Held
    <2>2. u = Enrolled(users[i], c.secret, s, fresh')
      BY DEF WithSecret, Enrolled
    <2> HIDE DEF u
    <2>3. \A j \in Ids : users'[j] = IF j = i THEN u ELSE users[j]
      BY <1>0, <2>1 DEF Row, OwnerInv, Typed
    <2>4. i \in Ids => u.row = users[i].row /\ u.secret = c.secret /\ u.role = users[i].role
      <3>1. i \in Ids => Account(users[i])
        BY <1>0 DEF OwnerInv, Typed
      <3> QED
        BY <2>2, <3>1, KeptFields, RowEdits
    <2>5. \A j \in Ids : Becomes(j)
      BY <2>1, <2>3, <2>4 DEF Becomes, Same, Replaced, Live
    <2>6. SomebodyStays
      BY <2>1, <2>3, <2>4 DEF SomebodyStays, Live
    <2> QED
      BY <2>5, <2>6 DEF RowsStep
  <1> QED
    BY <1>1, <1>2 DEF Enrol

LEMMA RowsOfStep ==
  ASSUME FreshInv, [Next]_vars
  PROVE  RowsStep
  <1>0. OwnerInv
    BY DEF FreshInv
  <1>1. ASSUME NEW w \in Workers,
               \/ \E i \in Ids : Login(w, i) \/ Signed(w, i)
               \/ Refused(w) \/ Start(w) \/ Reenrol(w)
        PROVE  RowsStep
    BY <1>1, RowsAsWere DEF Login, Signed, Refused, Start, Reenrol, tables
  <1>2. ASSUME NEW w \in Workers, ClaimCode(w) \/ Password(w) \/ SignOutEverywhere(w)
        PROVE  RowsStep
    BY <1>0, <1>2, EditsRow
  <1>3. ASSUME NEW w \in Workers, DeleteAccount(w) \/ SetRole(w)
        PROVE  RowsStep
    BY <1>0, <1>3, DeleteRow, RoleRow
  <1>4. ASSUME NEW w \in Workers, \E c \in cookies : \E s \in Good : Enrol(w, c, s)
        PROVE  RowsStep
    BY <1>4, EnrolRow
  <1>5. CASE \/ \E e \in Emails : PostSetup(e)
             \/ \E i \in Invites : \/ PostInvite(i) \/ RevokeInvitation(i)
                                   \/ \E e \in Emails, role \in Roles : CreateInvitation(i, e, role)
             \/ Require \/ (\E i \in Ids : AskReset(i)) \/ (\E s \in sessions : EndSession(s)) \/ Tick
    BY <1>5, RowsAsWere
       DEF PostSetup, PostInvite, RevokeInvitation, CreateInvitation, Require, AskReset, EndSession, Tick, tables
  <1>6. CASE \E r \in resets : ResetPassword(r)
    BY <1>0, <1>6, EditsRow
  <1>7. CASE UNCHANGED vars
    BY <1>7, RowsAsWere DEF vars
  <1> QED
    BY <1>1, <1>2, <1>3, <1>4, <1>5, <1>6, <1>7 DEF Next, Commit

(* What a step draws, and the cookies it hands out.                        *)
Handed(x) ==
  /\ fresh' = fresh + 1 /\ UNCHANGED <<invitations, made, revoked>>
  /\ cookies' = cookies \cup {x} /\ x.secret = fresh'
  /\ x.kind = "invite" => /\ x.invite \in Invites /\ x.row = invitations[x.invite].row
                          /\ invitations[x.invite].state # "none"
CookiesStep ==
  /\ fresh' \in {fresh, fresh + 1}
  /\ cookies' \subseteq cookies \/ \E x : Handed(x)

(* What a step does to the invitations, and the account it makes of one.   *)
Gone(k) ==
  /\ UNCHANGED <<made, cookies>> /\ revoked' = revoked \cup {invitations[k].row}
  /\ invitations' = [invitations EXCEPT ![k] = NoInvite]
Issued(k) ==
  /\ UNCHANGED <<made, cookies, revoked>> /\ invitations[k].state = "none"
  /\ fresh' = fresh + 1
  /\ \E v : Invitation(v) /\ v.row = fresh' /\ invitations' = [invitations EXCEPT ![k] = v]
First(m) ==
  /\ m.by = "setup" /\ m.of = 0 /\ made' = made \cup {m}
  /\ UNCHANGED <<invitations, revoked>> /\ People = {} /\ People' # {}
Taken(c, m) ==
  /\ c.kind = "invite" /\ m.by = "invite" /\ m.of = invitations[c.invite].row /\ m.asked = c.row
  /\ made' = made \cup {m} /\ UNCHANGED revoked
  /\ invitations[c.invite].state = "pending"
  /\ invitations' = [invitations EXCEPT ![c.invite].state = "accepted"]
  /\ cookies' \subseteq cookies /\ fresh' = fresh + 1
InvitesStep ==
  \/ UNCHANGED <<invitations, made, revoked>>
  \/ \E k \in Invites : Gone(k) \/ Issued(k)
  \/ \E m : First(m)
  \/ \E c \in cookies : \E m : Taken(c, m)

LEMMA NextInviteIsFree == NextInvite \in Invites => invitations[NextInvite].state = "none"
  <1> DEFINE S == {0} \cup {i \in Invites : invitations[i].state # "none"}
  <1>1. MaxInvite \in Nat
    BY AccountsAssumption
  <1>2. S \in SUBSET Nat /\ S # {} /\ \A x \in S : x <= MaxInvite
    BY <1>1 DEF Invites
  <1>3. \E x \in S : \A y \in S : y <= x
    <2> HIDE DEF S
    <2> QED
      BY <1>1, <1>2, LargestExists
  <1>4. Max(S) \in S /\ \A y \in S : y <= Max(S)
    BY <1>3 DEF Max
  <1> HIDE DEF S
  <1>5. NextInvite = Max(S) + 1
    BY DEF NextInvite, S
  <1>6. Max(S) \in Nat /\ \A y \in S : y \in Nat
    BY <1>2, <1>4
  <1>7. NextInvite \notin S
    BY <1>4, <1>5, <1>6
  <1> QED
    BY <1>7 DEF S

LEMMA CookiesOfStep ==
  ASSUME FreshInv, [Next]_vars
  PROVE  CookiesStep
  <1>1. ASSUME NEW w \in Workers,
               \/ \E i \in Ids : Login(w, i) \/ Signed(w, i)
               \/ Refused(w) \/ ClaimCode(w) \/ Password(w) \/ SignOutEverywhere(w)
               \/ DeleteAccount(w) \/ SetRole(w)
        PROVE  CookiesStep
    BY <1>1 DEF Login, Signed, Refused, ClaimCode, Password, SignOutEverywhere, DeleteAccount, SetRole, CookiesStep
  <1>2. ASSUME NEW w \in Workers, Start(w) \/ Reenrol(w)
        PROVE  CookiesStep
    <2>1. UNCHANGED <<invitations, made, revoked>>
      BY <1>2 DEF Start, Reenrol, tables, ghosts
    <2>2. \/ fresh' = fresh /\ cookies' = cookies
          \/ /\ fresh' = fresh + 1
             /\ \E kind \in {"signin", "reenrol"} : cookies' = cookies \cup {Cookie(kind, work[w].user, work[w].read)}
      BY <1>2 DEF Start, Reenrol
    <2>3. \A kind, i, u : Cookie(kind, i, u).kind = kind /\ Cookie(kind, i, u).secret = fresh'
      BY DEF Cookie
    <2> QED
      BY <2>1, <2>2, <2>3 DEF CookiesStep, Handed
  <1>3. ASSUME NEW w \in Workers, NEW c \in cookies, NEW s \in Good, Enrol(w, c, s)
        PROVE  CookiesStep
    BY <1>3 DEF Enrol, FinishSetup, FinishInvite, FinishSignIn, FinishReenrol, Enrols, Returns, CookiesStep
  <1>4. ASSUME NEW e \in Emails, PostSetup(e)
        PROVE  CookiesStep
    <2> DEFINE x == AccountCookie("setup", 0, 0, e, "owner")
    <2>1. /\ UNCHANGED <<invitations, made, revoked>> /\ fresh' = fresh + 1
          /\ cookies' = cookies \cup {x}
      BY <1>4 DEF PostSetup, Asked, tables, ghosts
    <2>2. x.kind = "setup" /\ x.secret = fresh'
      BY DEF AccountCookie
    <2> HIDE DEF x
    <2> QED
      BY <2>1, <2>2 DEF CookiesStep, Handed
  <1>5. ASSUME NEW i \in Invites, PostInvite(i)
        PROVE  CookiesStep
    <2> DEFINE x == AccountCookie("invite", i, invitations[i].row, invitations[i].email, invitations[i].role)
    <2>1. /\ UNCHANGED <<invitations, made, revoked>> /\ fresh' = fresh + 1
          /\ cookies' = cookies \cup {x}
      BY <1>5 DEF PostInvite, Asked, tables, ghosts
    <2>2. x.invite = i /\ x.row = invitations[i].row /\ x.secret = fresh'
          /\ invitations[i].state # "none"
      BY <1>5 DEF AccountCookie, PostInvite
    <2> HIDE DEF x
    <2> QED
      BY <2>1, <2>2 DEF CookiesStep, Handed
  <1>6. CASE \/ \E i \in Invites : \/ RevokeInvitation(i)
                                   \/ \E e \in Emails, role \in Roles : CreateInvitation(i, e, role)
             \/ Require \/ (\E i \in Ids : AskReset(i)) \/ (\E s \in sessions : EndSession(s)) \/ Tick
    BY <1>6 DEF RevokeInvitation, CreateInvitation, Require, AskReset, EndSession, Tick, tables, CookiesStep
  <1>7. CASE (\E r \in resets : ResetPassword(r)) \/ UNCHANGED vars
    BY <1>7 DEF ResetPassword, vars, CookiesStep
  <1> QED
    BY <1>1, <1>2, <1>3, <1>4, <1>5, <1>6, <1>7 DEF Next, Commit

LEMMA InvitesOfStep ==
  ASSUME FreshInv, [Next]_vars
  PROVE  InvitesStep
  <1>1. ASSUME NEW w \in Workers,
               \/ \E i \in Ids : Login(w, i) \/ Signed(w, i)
               \/ Refused(w) \/ ClaimCode(w) \/ Password(w) \/ SignOutEverywhere(w)
               \/ DeleteAccount(w) \/ SetRole(w) \/ Start(w) \/ Reenrol(w)
        PROVE  InvitesStep
    BY <1>1 DEF Login, Signed, Refused, ClaimCode, Password, SignOutEverywhere, DeleteAccount, SetRole,
                Start, Reenrol, tables, ghosts, InvitesStep
  <1>2. ASSUME NEW w \in Workers, NEW c \in cookies, NEW s \in Good, FinishSetup(w, c, s)
        PROVE  InvitesStep
    <2>1. c.kind = "setup" /\ People = {} /\ UNCHANGED <<invitations, revoked>>
          /\ Makes(w, c, s, NextId, 0)
      BY <1>2 DEF FinishSetup, Makes
    <2> DEFINE u == WithSecret([NoUser EXCEPT !.role = c.role, !.email = c.email, !.pw = c.pw,
                                              !.epoch = 1, !.row = fresh'], c, s)
               m == [by |-> c.kind, of |-> 0, asked |-> c.row,
                     n |-> Cardinality({k \in made : k.by = c.kind /\ k.of = 0})]
    <2>2. Row(NextId, u) /\ NextId \in Ids /\ made' = made \cup {m}
      BY <2>1 DEF Makes
    <2>3. m.by = "setup" /\ m.of = 0
      BY <2>1
    <2>4. u.role = "owner"
      <3>1. u = [role |-> c.role, email |-> c.email, pw |-> c.pw, secret |-> c.secret, last |-> s,
                 epoch |-> 1, row |-> fresh', since |-> fresh']
        BY MadeRow
      <3> HIDE DEF u
      <3> QED
        BY <2>1, <3>1 DEF FreshInv, OwnerInv, FirstOwns
    <2> HIDE DEF u, m
    <2>5. People' # {}
      BY <2>2, <2>4 DEF Row, FreshInv, OwnerInv, Typed, People, Live
    <2> QED
      BY <2>1, <2>2, <2>3, <2>5 DEF InvitesStep, First
  <1>3. ASSUME NEW w \in Workers, NEW c \in cookies, NEW s \in Good, FinishInvite(w, c, s)
        PROVE  InvitesStep
    <2>1. /\ c.kind = "invite" /\ invitations[c.invite].state = "pending" /\ fresh' = fresh + 1
          /\ cookies' \subseteq cookies
          /\ invitations' = [invitations EXCEPT ![c.invite].state = "accepted"]
          /\ Makes(w, c, s, NextId, invitations[c.invite].row)
      BY <1>3 DEF FinishInvite, Returns
    <2> DEFINE m == [by |-> c.kind, of |-> invitations[c.invite].row, asked |-> c.row,
                     n |-> Cardinality({k \in made : k.by = c.kind /\ k.of = invitations[c.invite].row})]
    <2>2. made' = made \cup {m} /\ UNCHANGED revoked
      BY <2>1 DEF Makes
    <2>3. m.by = "invite" /\ m.of = invitations[c.invite].row /\ m.asked = c.row
      BY <2>1
    <2> HIDE DEF m
    <2> QED
      BY <2>1, <2>2, <2>3 DEF InvitesStep, Taken
  <1>4. ASSUME NEW w \in Workers, NEW c \in cookies, NEW s \in Good, FinishSignIn(w, c, s) \/ FinishReenrol(w, c, s)
        PROVE  InvitesStep
    BY <1>4 DEF FinishSignIn, FinishReenrol, Enrols, InvitesStep
  <1>5. ASSUME NEW i \in Invites, NEW e \in Emails, NEW role \in Roles, CreateInvitation(i, e, role)
        PROVE  InvitesStep
    <2> DEFINE v == [state |-> "pending", email |-> e, role |-> role, expires |-> now + InviteLife, row |-> fresh']
    <2>1. /\ i = NextInvite /\ fresh' = fresh + 1 /\ UNCHANGED <<cookies, made, revoked>>
          /\ invitations' = [invitations EXCEPT ![i] = v]
      BY <1>5 DEF CreateInvitation, ghosts
    <2>2. Invitation(v) /\ v.row = fresh'
      BY DEF Invitation
    <2> HIDE DEF v
    <2>3. invitations[i].state = "none"
      BY <2>1, NextInviteIsFree
    <2> QED
      BY <2>1, <2>2, <2>3 DEF InvitesStep, Issued
  <1>6. CASE \E i \in Invites : RevokeInvitation(i)
    BY <1>6 DEF RevokeInvitation, InvitesStep, Gone, ghosts
  <1>7. CASE \/ \E e \in Emails : PostSetup(e)
             \/ \E i \in Invites : PostInvite(i)
             \/ Require \/ (\E i \in Ids : AskReset(i)) \/ (\E s \in sessions : EndSession(s)) \/ Tick
             \/ \E r \in resets : ResetPassword(r)
             \/ UNCHANGED vars
    BY <1>7 DEF PostSetup, PostInvite, Require, AskReset, EndSession, Tick, ResetPassword, tables, ghosts, vars, InvitesStep
  <1> QED
    BY <1>1, <1>2, <1>3, <1>4, <1>5, <1>6, <1>7 DEF Next, Commit, Enrol
-----------------------------------------------------------------------------
LEMMA DrawnKeeps ==
  ASSUME fresh \in Nat, Drawn, RowsStep, CookiesStep
  PROVE  Drawn'
  <1> SUFFICES ASSUME NEW i \in Ids
               PROVE  /\ users'[i].row \in 0..fresh'
                      /\ (users'[i].role # "none" \/ users'[i].secret # 0) => users'[i].row # 0
    BY DEF Drawn, Live
  <1>1. fresh' \in Nat /\ fresh' >= fresh
    BY DEF CookiesStep
  <1>2. CASE Same(i)
    BY <1>1, <1>2 DEF Drawn, Same, Live
  <1>3. CASE users'[i] = NoUser
    BY <1>1, <1>3 DEF NoUser
  <1>4. CASE users'[i].row = fresh' /\ fresh' = fresh + 1
    BY <1>4
  <1>5. CASE Replaced(i)
    BY <1>1, <1>5 DEF Drawn, Replaced
  <1> QED
    BY <1>2, <1>3, <1>4, <1>5 DEF RowsStep, Becomes

LEMMA SecretsKeep ==
  ASSUME fresh \in Nat, Secrets, CookiesStep
  PROVE  Secrets'
  BY DEF Secrets, CookiesStep, Handed

LEMMA InvitedKeeps ==
  ASSUME fresh \in Nat, Typed, Secrets, Invited, Begun, Spent, InvitedOnce, RowsStep, CookiesStep, InvitesStep
  PROVE  Invited' /\ Begun' /\ Spent' /\ InvitedOnce'
  <1>1. fresh' \in Nat /\ fresh' >= fresh
    BY DEF CookiesStep
  <1>2. People # {} => People' # {}
    BY DEF RowsStep, SomebodyStays, People, Live, Owners
  <1>3. CASE UNCHANGED <<invitations, made, revoked>>
    <2>1. Invited' /\ InvitedOnce'
      BY <1>1, <1>3 DEF Invited, InvitedOnce
    <2>2. Begun'
      BY <1>3 DEF Begun, CookiesStep, Handed
    <2>3. Spent'
      BY <1>1, <1>2, <1>3 DEF Spent
    <2> QED
      BY <2>1, <2>2, <2>3
  <1>4. ASSUME NEW k \in Invites, Gone(k)
        PROVE  Invited' /\ Begun' /\ Spent' /\ InvitedOnce'
    <2>1. \A i \in Invites : invitations'[i] = IF i = k THEN NoInvite ELSE invitations[i]
      BY <1>4 DEF Gone, Typed
    <2>2. Invitation(NoInvite) /\ NoInvite.state = "none"
      BY DEF Invitation, NoInvite
    <2>3. Invited' /\ InvitedOnce'
      BY <1>1, <1>4, <2>1, <2>2 DEF Gone, Invited, InvitedOnce
    <2>4. Begun'
      BY <1>4, <2>1 DEF Begun, Gone
    <2>5. Spent'
      BY <1>1, <1>2, <1>4, <2>1, <2>2 DEF Gone, Spent
    <2> QED
      BY <2>3, <2>4, <2>5
  <1>5. ASSUME NEW k \in Invites, Issued(k)
        PROVE  Invited' /\ Begun' /\ Spent' /\ InvitedOnce'
    <2>1. PICK v : Invitation(v) /\ v.row = fresh' /\ invitations' = [invitations EXCEPT ![k] = v]
      BY <1>5 DEF Issued
    <2>2. \A i \in Invites : invitations'[i] = IF i = k THEN v ELSE invitations[i]
      BY <2>1 DEF Typed
    <2>3. Invited' /\ InvitedOnce'
      <3>1. fresh' = fresh + 1 /\ UNCHANGED <<made, revoked>>
        BY <1>5 DEF Issued
      <3>2. Invited'
        BY <1>1, <2>1, <2>2, <3>1 DEF Invited
      <3> QED
        BY <3>1, <3>2 DEF InvitedOnce
    <2>4. Begun'
      BY <1>5, <2>2 DEF Begun, Issued
    <2>5. Spent'
      <3>1. fresh' = fresh + 1 /\ UNCHANGED made
        BY <1>5 DEF Issued
      <3> QED
        BY <1>1, <1>2, <2>1, <2>2, <3>1 DEF Spent
    <2> QED
      BY <2>3, <2>4, <2>5
  <1>6. ASSUME NEW m, First(m)
        PROVE  Invited' /\ Begun' /\ Spent' /\ InvitedOnce'
    <2>1. \A k \in made : k.by = "invite"
      BY <1>6 DEF First, Spent
    <2>2. Invited' /\ InvitedOnce'
      BY <1>1, <1>6, <2>1 DEF First, Invited, InvitedOnce
    <2>3. Begun'
      BY <1>6 DEF First, Begun, CookiesStep, Handed
    <2>4. Spent'
      BY <1>1, <1>2, <1>6 DEF First, Spent
    <2> QED
      BY <2>2, <2>3, <2>4
  <1>7. ASSUME NEW c \in cookies, NEW m, Taken(c, m)
        PROVE  Invited' /\ Begun' /\ Spent' /\ InvitedOnce'
    <2> DEFINE k == c.invite
    <2> DEFINE x == invitations[k].row
    <2>1. k \in Invites /\ invitations[k].state = "pending" /\ x \in 0..fresh
          /\ (x = c.row \/ c.row \in revoked)
      BY <1>7 DEF Taken, Begun, Invited
    <2>2. /\ \A i \in Invites \ {k} : invitations'[i] = invitations[i]
          /\ invitations'[k].state = "accepted" /\ invitations'[k].row = invitations[k].row
          /\ Invitation(invitations'[k])
      <3>1. Invitation(invitations[k])
        BY <2>1 DEF Typed
      <3>2. invitations' = [invitations EXCEPT ![k] = [invitations[k] EXCEPT !.state = "accepted"]]
        BY <1>7 DEF Taken
      <3>3. invitations'[k] = [invitations[k] EXCEPT !.state = "accepted"]
            /\ \A i \in Invites \ {k} : invitations'[i] = invitations[i]
        BY <2>1, <3>2 DEF Typed
      <3> QED
        BY <3>1, <3>3 DEF Invitation
    <2>3. m.by = "invite" /\ m.of = x /\ m.asked = c.row /\ made' = made \cup {m}
          /\ cookies' \subseteq cookies /\ UNCHANGED revoked
      BY <1>7, <2>1 DEF Taken
    <2>4. \A y \in made : y.by = "invite" => y.of # x
      BY <2>1 DEF Spent
    <2>5. Invited'
      BY <1>1, <2>1, <2>2 DEF Invited
    <2>6. InvitedOnce'
      BY <2>1, <2>3, <2>4 DEF InvitedOnce
    <2>7. Begun'
      BY <2>1, <2>2, <2>3 DEF Begun
    <2>8. Spent'
      <3>1. \A i \in Invites : invitations'[i].state = "pending"
              => i # k /\ invitations[i].state = "pending" /\ invitations'[i].row = invitations[i].row
        BY <2>2
      <3>2. \A i \in Invites : invitations'[i].state = "pending" => invitations'[i].row # x
        BY <2>1, <3>1 DEF Invited
      <3> QED
        BY <1>1, <1>2, <2>1, <2>3, <3>1, <3>2 DEF Spent
    <2> QED
      BY <2>5, <2>6, <2>7, <2>8
  <1> QED
    BY <1>3, <1>4, <1>5, <1>6, <1>7 DEF InvitesStep

LEMMA EnrolInitially == Init => EnrolInv
  <1> SUFFICES ASSUME Init PROVE EnrolInv
    OBVIOUS
  <1>1. MaxId \in Nat /\ Ids = 1..MaxId /\ fresh = MaxId
    <2>1. MaxId \in Nat
      BY AccountsAssumption
    <2>2. Cardinality(1..MaxId) = MaxId
      BY <2>1, FS_Interval
    <2> QED
      BY <2>1, <2>2 DEF Init, Ids
  <1>10. PICK k \in {0} \cup Ids : \E e \in [Ids -> Emails], lost \in BOOLEAN : Founded(k, e, lost)
    BY FirstPeople
  <1>11. PICK e \in [Ids -> Emails], lost \in BOOLEAN : Founded(k, e, lost)
    BY <1>10
  <1>2. users = [i \in Ids |->
          IF i <= k
          THEN [NoUser EXCEPT !.role = "owner", !.email = e[i], !.pw = 1, !.epoch = 1,
                              !.secret = IF lost /\ i = 1 THEN 0 ELSE i, !.row = i, !.since = i]
          ELSE NoUser]
    BY <1>11 DEF Founded
  <1>3. Drawn
    <2>1. ASSUME NEW i \in Ids
          PROVE  /\ users[i].row \in {0, i}
                 /\ (Live(i) \/ users[i].secret # 0) => users[i].row = i
      <3> DEFINE x == IF lost /\ i = 1 THEN 0 ELSE i
      <3>1. users[i] = IF i <= k
                       THEN [NoUser EXCEPT !.role = "owner", !.email = e[i], !.pw = 1, !.epoch = 1,
                                           !.secret = x, !.row = i, !.since = i]
                       ELSE NoUser
        BY <1>2
      <3> HIDE DEF x
      <3>2. CASE i <= k
        <4>1. users[i].row = i
          BY <3>1, <3>2 DEF NoUser
        <4> QED
          BY <4>1
      <3>3. CASE ~(i <= k)
        BY <3>1, <3>3 DEF NoUser, Live
      <3> QED
        BY <3>2, <3>3
    <2> QED
      BY <1>1, <2>1 DEF Drawn
  <1>4. cookies = {} /\ made = {}
    BY DEF Init
  <1>5. Invited
    <2>1. PICK asked \in IF k = 0 \/ lost THEN {NoInvite}
                         ELSE [state : {"pending"}, email : Emails \ {e[1]}, role : {"editor"},
                               expires : 2..(1 + InviteLife), row : {1}] :
            invitations = [i \in Invites |-> IF i = 1 THEN asked ELSE NoInvite]
      BY <1>11 DEF Founded
    <2>2. asked.state = "pending" => asked.row = 1 /\ fresh >= 1
      BY <1>1, <2>1 DEF NoInvite
    <2>3. NoInvite.state = "none"
      BY DEF NoInvite
    <2>4. \A i \in Invites : invitations[i] = IF i = 1 THEN asked ELSE NoInvite
      BY <2>1
    <2> QED
      BY <1>1, <2>2, <2>3, <2>4 DEF Invited
  <1> QED
    BY <1>3, <1>4, <1>5, FreshInitially DEF EnrolInv, Secrets, Begun, Spent, InvitedOnce

LEMMA EnrolStep == EnrolInv /\ [Next]_vars => EnrolInv'
  <1> SUFFICES ASSUME EnrolInv, [Next]_vars PROVE EnrolInv'
    OBVIOUS
  <1>1. RowsStep /\ CookiesStep /\ InvitesStep /\ FreshInv'
    BY RowsOfStep, CookiesOfStep, InvitesOfStep, FreshStep DEF EnrolInv
  <1>2. fresh \in Nat /\ Typed
    BY DEF EnrolInv, FreshInv, Numbered, OwnerInv
  <1> QED
    BY <1>1, <1>2, DrawnKeeps, SecretsKeep, InvitedKeeps DEF EnrolInv

(* A step that changes the secret of an account that stays is that of an   *)
(* enrollment of it.                                                       *)
LEMMA NoneIsReplaced ==
  ASSUME EnrolInv, RowsStep, NEW i \in Ids, users[i].secret # 0,
         users'[i].row = users[i].row, users'[i].secret # users[i].secret,
         NEW c \in cookies, c.secret = users'[i].secret
  PROVE  c.kind = "reenrol" /\ (c.row = users[i].row \/ c.row \in gone)
  <1>1. users[i].row \in 1..fresh /\ fresh \in Nat
    BY DEF EnrolInv, Drawn, FreshInv, Numbered
  <1>2. ~Same(i)
    BY DEF Same
  <1>3. users'[i] # NoUser
    BY <1>1 DEF NoUser
  <1>4. Replaced(i)
    BY <1>1, <1>2, <1>3 DEF RowsStep, Becomes
  <1> QED
    BY <1>4 DEF Replaced, EnrolInv, Secrets

(* postEnrol and finishEnrolment: the first run and an invitation make one *)
(* account each, begun from it or from one revoked since, and an           *)
(* authenticator in place is replaced only by an enrollment of somebody    *)
(* signed in to the account, or to one that had its number and is gone.    *)
THEOREM EnrolledOnceHolds == Spec => EnrolledOnce
  <1>1. EnrolInv => InvitedOnce
    BY DEF EnrolInv
  <1>2. EnrolInv /\ [Next]_vars
        => [\A i \in Ids :
              users[i].secret # 0 /\ users'[i].row = users[i].row /\ users'[i].secret # users[i].secret
              => \A c \in cookies : c.secret = users'[i].secret
                   => c.kind = "reenrol" /\ (c.row = users[i].row \/ c.row \in gone)]_vars
    BY NoneIsReplaced, RowsOfStep DEF EnrolInv
  <1> QED
    BY <1>1, <1>2, EnrolStep, EnrolInitially, PTL DEF Spec, EnrolledOnce, EnrolledKept
=============================================================================
