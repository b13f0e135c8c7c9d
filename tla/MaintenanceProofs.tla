------------------------- MODULE MaintenanceProofs -------------------------
(***************************************************************************)
(* Proofs about Maintenance, for every number of archives, requests and    *)
(* crashes: no number is given twice across a restore and no revoked key   *)
(* comes back with one; no answered write is out of reach and no job is    *)
(* left running; what is deleted, saved or told across a restore is so.    *)
(***************************************************************************)
EXTENDS Maintenance, TLAPS

Db(work, seq, jobs, owner, key, deleted, text, job, lastAt, lastOk) ==
  [work |-> work, seq |-> seq, jobs |-> jobs, owner |-> owner, key |-> key,
   deleted |-> deleted, text |-> text, job |-> job, lastAt |-> lastAt, lastOk |-> lastOk]

(* A database; only its numbers and its key need a type here.              *)
Database(db) ==
  /\ db = Db(db.work, db.seq, db.jobs, db.owner, db.key, db.deleted, db.text, db.job,
             db.lastAt, db.lastOk)
  /\ db.seq \in Nat /\ db.jobs \in Nat /\ db.key \in BOOLEAN

Op(o) == o = [at |-> o.at, n |-> o.n, gen |-> o.gen, tree |-> o.tree, fail |-> o.fail, db |-> o.db]

(* The numbers a has given, b has given too.                               *)
AtMost(a, b) == a.seq <= b.seq /\ a.jobs <= b.jobs

Moving  == {"moving", "opening"}
Staged  == {"freeze", "drain", "swap", "moving"}
Frozen  == {"drain", "swap", "moving", "opening", "after", "resume"}
Filing  == {"put", "manifest"}

(* The database whose numbers were given last: the one a swap has aside    *)
(* until it is over.                                                       *)
Current == IF op.at \in Moving THEN op.db ELSE live

Live ==
  /\ live = None \/ Database(live)
  /\ (up \/ ~torn) /\ op.at # "moving" => Database(live)
  /\ op.at = "moving" => live = None

Operation ==
  /\ Op(op)
  /\ op.at \in Filing => busy = "archive" /\ Database(op.db)
  /\ op.at \notin Filing /\ op.at # "none" => busy = "restore"
  /\ op.at \in Frozen => frozen
  /\ op.at \in Moving => Database(op.db)
  /\ op.at \in Staged => Database(stage) /\ ~stage.key
  /\ ~up => op.at = "none"

(* Every copy there is of a database is older than the current one.        *)
Older ==
  /\ \A a \in bucket : Database(a.db)
  /\ ~torn => /\ \A a \in bucket : AtMost(a.db, Current)
              /\ op.at \in Filing => AtMost(op.db, live)
              /\ op.at \in Staged => AtMost(stage, Current)
              /\ op.at = "opening" => AtMost(live, op.db)

Keyless ==
  /\ revoked => live = None \/ ~live.key
  /\ revoked /\ (up \/ ~torn) /\ op.at # "moving" => ~live.key
  /\ revoked /\ op.at \in Moving => ~op.db.key
  /\ op.at = "opening" => ~live.key

SwapInv == Live /\ Operation /\ Older /\ Keyless

(* What NumbersGrow says of a step.                                        *)
Grown ==
  live # None /\ ~torn' =>
    (live' # None => live'.seq >= live.seq /\ live'.jobs >= live.jobs)
-----------------------------------------------------------------------------
LEMMA DbIs ==
  ASSUME NEW w, NEW s, NEW n, NEW o, NEW k, NEW d, NEW t, NEW j, NEW a, NEW l
  PROVE  LET db == Db(w, s, n, o, k, d, t, j, a, l)
         IN  /\ db.seq = s /\ db.jobs = n /\ db.key = k
             /\ s \in Nat /\ n \in Nat /\ k \in BOOLEAN => Database(db)
  <1> DEFINE db == Db(w, s, n, o, k, d, t, j, a, l)
  <1>1. /\ db.work = w /\ db.seq = s /\ db.jobs = n /\ db.owner = o /\ db.key = k
        /\ db.deleted = d /\ db.text = t /\ db.job = j /\ db.lastAt = a /\ db.lastOk = l
    BY DEF Db
  <1> HIDE DEF db
  <1>2. db = Db(db.work, db.seq, db.jobs, db.owner, db.key, db.deleted, db.text, db.job,
                db.lastAt, db.lastOk)
    BY <1>1 DEF db
  <1> QED
    BY <1>1, <1>2 DEF Database, db

LEMMA DatabaseIsThere ==
  ASSUME NEW db, Database(db)
  PROVE  db # None
  <1>1. DOMAIN db = {"work", "seq", "jobs", "owner", "key", "deleted", "text", "job", "lastAt",
                     "lastOk"}
    BY DEF Database, Db
  <1>2. DOMAIN None = {"nothing"}
    BY DEF None
  <1>3. "seq" \in DOMAIN db /\ "seq" \notin DOMAIN None
    BY <1>1, <1>2
  <1> QED
    BY <1>3

(* The larger of two numbers is at least each.                             *)
LEMMA MaxOfTwo ==
  ASSUME NEW a \in Nat, NEW b \in Nat
  PROVE  Max({a, b}) \in Nat /\ a <= Max({a, b}) /\ b <= Max({a, b})
  <1>1. \E x \in {a, b} : \A y \in {a, b} : x >= y
    <2>1. CASE a <= b
      BY <2>1
    <2>2. CASE b <= a
      BY <2>2
    <2> QED
      BY <2>1, <2>2
  <1>2. Max({a, b}) \in {a, b} /\ \A y \in {a, b} : Max({a, b}) >= y
    BY <1>1 DEF Max
  <1> QED
    BY <1>2

(* What a restore and a restart make of a database is one, with the same   *)
(* numbers or, after keepSequences, those of both; and no key comes back.  *)
LEMMA Made ==
  ASSUME NEW db, Database(db)
  PROVE  /\ Database(Cleaned(db)) /\ AtMost(Cleaned(db), db) /\ ~Cleaned(db).key
         /\ Database(Recover(db)) /\ AtMost(Recover(db), db) /\ AtMost(db, Recover(db))
         /\ Recover(db).key = db.key
         /\ \A n, ok : /\ Database(Recorded(db, n, ok)) /\ AtMost(db, Recorded(db, n, ok))
                       /\ Recorded(db, n, ok).key = db.key
         /\ \A old : Database(old) =>
              /\ Database(KeepSequences(db, old)) /\ KeepSequences(db, old).key = db.key
              /\ AtMost(db, KeepSequences(db, old)) /\ AtMost(old, KeepSequences(db, old))
  <1>1. Database(Cleaned(db)) /\ AtMost(Cleaned(db), db) /\ ~Cleaned(db).key
    <2> DEFINE k == FALSE
    <2>1. Cleaned(db) = [db EXCEPT !.key = k] /\ k \in BOOLEAN /\ ~k
      BY DEF Cleaned
    <2> HIDE DEF k
    <2>2. Cleaned(db) = Db(db.work, db.seq, db.jobs, db.owner, k, db.deleted, db.text,
                           db.job, db.lastAt, db.lastOk)
      BY <2>1 DEF Database, Db
    <2> QED
      BY <2>1, <2>2, DbIs DEF AtMost, Database
  <1>2. /\ Database(Recover(db)) /\ AtMost(Recover(db), db) /\ AtMost(db, Recover(db))
        /\ Recover(db).key = db.key
    <2>1. CASE db.job.state = "running"
      <3> DEFINE j == [db.job EXCEPT !.state = "failed"]
      <3>1. Recover(db) = [db EXCEPT !.job = j]
        BY <2>1 DEF Recover
      <3> HIDE DEF j
      <3>2. Recover(db) = Db(db.work, db.seq, db.jobs, db.owner, db.key, db.deleted, db.text,
                             j, db.lastAt, db.lastOk)
        BY <3>1 DEF Database, Db
      <3> QED
        BY <3>2, DbIs DEF AtMost, Database
    <2>2. CASE db.job.state # "running"
      BY <2>2 DEF Recover, AtMost, Database
    <2> QED
      BY <2>1, <2>2
  <1>3. ASSUME NEW n, NEW ok
        PROVE  /\ Database(Recorded(db, n, ok)) /\ AtMost(db, Recorded(db, n, ok))
               /\ Recorded(db, n, ok).key = db.key
    <2> DEFINE l == IF ok THEN n ELSE db.lastOk
    <2>1. Recorded(db, n, ok) = [db EXCEPT !.lastAt = day, !.lastOk = l]
      BY DEF Recorded
    <2> HIDE DEF l
    <2>2. Recorded(db, n, ok) = Db(db.work, db.seq, db.jobs, db.owner, db.key, db.deleted,
                                   db.text, db.job, day, l)
      BY <2>1 DEF Database, Db
    <2> QED
      BY <2>2, DbIs DEF AtMost, Database
  <1>4. ASSUME NEW old, Database(old)
        PROVE  /\ Database(KeepSequences(db, old)) /\ KeepSequences(db, old).key = db.key
               /\ AtMost(db, KeepSequences(db, old)) /\ AtMost(old, KeepSequences(db, old))
    <2> DEFINE s == Max({db.seq, old.seq})
    <2> DEFINE n == Max({db.jobs, old.jobs})
    <2>1. /\ s \in Nat /\ db.seq <= s /\ old.seq <= s
          /\ n \in Nat /\ db.jobs <= n /\ old.jobs <= n
      BY <1>4, MaxOfTwo DEF Database
    <2>2. KeepSequences(db, old) = [db EXCEPT !.seq = s, !.jobs = n]
      BY DEF KeepSequences
    <2> HIDE DEF s, n
    <2>3. KeepSequences(db, old) = Db(db.work, s, n, db.owner, db.key, db.deleted, db.text,
                                      db.job, db.lastAt, db.lastOk)
      BY <2>2 DEF Database, Db
    <2> QED
      BY <2>1, <2>3, DbIs DEF AtMost, Database
  <1> QED
    BY <1>1, <1>2, <1>3, <1>4

LEMMA Initially == Init => SwapInv
  <1> SUFFICES ASSUME Init PROVE SwapInv
    OBVIOUS
  <1>1. live = Db({}, 0, 0, TRUE, TRUE, 0, 0, NoJob, 0, 0)
    BY DEF Init, NewDatabase, Db
  <1>2. Database(live)
    BY <1>1, DbIs
  <1>3. /\ op.at = "none" /\ Op(op) /\ bucket = {} /\ up /\ ~revoked
    BY DEF Init, NoOp, Op
  <1> QED
    BY <1>2, <1>3 DEF SwapInv, Live, Operation, Older, Keyless, Moving, Staged, Frozen, Filing

(* A step outside of a swap: what it makes is no older than what there is. *)
LEMMA Steady ==
  ASSUME SwapInv, Operation',
         torn' = torn, up' => up,
         \A a \in bucket' : a \in bucket \/ (Database(a.db) /\ (~torn => AtMost(a.db, live))),
         op.at \notin Moving, op'.at \notin Moving,
         \/ live' = live
         \/ /\ up /\ Database(live) /\ Database(live') /\ AtMost(live, live')
            /\ live'.key => live.key,
         revoked' => revoked \/ ~live'.key,
         op'.at \in Filing /\ ~torn => AtMost(op'.db, live),
         op'.at \in Staged /\ ~torn => AtMost(stage', live)
  PROVE  SwapInv' /\ Grown
  <1>1. ~torn => Database(live)
    BY DEF SwapInv, Live, Moving
  <1>2. Live'
    BY DEF SwapInv, Live, Moving
  <1>3. Current = live /\ Current' = live'
    BY DEF Current
  <1>5. \A a : Database(a) /\ ~torn /\ AtMost(a, live) => AtMost(a, live')
    BY <1>1 DEF AtMost, Database
  <1>6. Older'
    <2>1. \A a \in bucket' : Database(a.db)
      BY DEF SwapInv, Older
    <2>2. ~torn' => \A a \in bucket' : AtMost(a.db, Current')
      BY <1>3, <1>5, <2>1 DEF SwapInv, Older
    <2>3. ~torn' /\ op'.at \in Filing => AtMost(op'.db, live')
      BY <1>5 DEF Operation
    <2>4. ~torn' /\ op'.at \in Staged => AtMost(stage', Current')
      BY <1>3, <1>5 DEF Operation
    <2> QED
      BY <2>1, <2>2, <2>3, <2>4 DEF Older, Moving
  <1>7. Keyless'
    BY DEF SwapInv, Keyless, Moving
  <1>8. Grown
    BY <1>1 DEF Grown, AtMost, Database
  <1> QED
    BY <1>2, <1>6, <1>7, <1>8 DEF SwapInv

(* The same, of a step that changes the database or nothing of these.      *)
LEMMA LiveGrows ==
  ASSUME SwapInv, UNCHANGED <<stage, bucket, op, up, frozen, busy, torn>>,
         op.at \notin Moving, up,
         Database(live), Database(live'), AtMost(live, live'), live'.key => live.key,
         revoked' => revoked \/ ~live'.key
  PROVE  SwapInv' /\ Grown
  <1>1. Operation'
    BY DEF SwapInv, Operation, Op
  <1>2. op'.at \in Filing /\ ~torn => AtMost(op'.db, live)
    BY DEF SwapInv, Older
  <1>3. op'.at \in Staged /\ ~torn => AtMost(stage', live)
    BY DEF SwapInv, Older, Current
  <1>4. \A a \in bucket' : a \in bucket
    OBVIOUS
  <1> QED
    BY <1>1, <1>2, <1>3, <1>4, Steady

LEMMA Still ==
  ASSUME SwapInv, UNCHANGED <<live, stage, bucket, op, up, frozen, busy, torn, revoked>>
  PROVE  SwapInv' /\ Grown
  <1>1. Live' /\ Operation' /\ Keyless'
    BY DEF SwapInv, Live, Operation, Keyless, Op
  <1>2. Older'
    BY DEF SwapInv, Older, Current
  <1>3. Grown
    BY DEF SwapInv, Live, Grown, Database
  <1> QED
    BY <1>1, <1>2, <1>3 DEF SwapInv
-----------------------------------------------------------------------------
(* Who has the reservation says what runs.                                 *)
LEMMA Reserved ==
  ASSUME SwapInv
  PROVE  /\ busy = "free" \/ busy = "verify" \/ busy = "cleanup" => op.at = "none"
         /\ op.at \in Filing => op.at \notin Moving /\ op.at \notin Staged
         /\ up /\ op.at \notin Moving => Database(live)
         /\ op.at \notin Moving /\ op.at \in Staged /\ ~torn => AtMost(stage, live)
  BY DEF SwapInv, Live, Operation, Older, Current, Filing, Moving, Staged

(* The record of the operation after a step of it.                         *)
LEMMA OpGoes ==
  ASSUME NEW o, Op(o), NEW a, NEW p, p = [o EXCEPT !.at = a]
  PROVE  /\ Op(p) /\ p.at = a /\ p.db = o.db
         /\ p.n = o.n /\ p.gen = o.gen /\ p.tree = o.tree /\ p.fail = o.fail
  <1>1. p = [at |-> a, n |-> o.n, gen |-> o.gen, tree |-> o.tree, fail |-> o.fail, db |-> o.db]
    BY DEF Op
  <1> QED
    BY <1>1 DEF Op

Saying(o, a, f) == [o EXCEPT !.at = a, !.fail = f]

LEMMA OpSays ==
  ASSUME NEW o, Op(o), NEW a, NEW f
  PROVE  LET p == Saying(o, a, f)
         IN  /\ Op(p) /\ p.at = a /\ p.db = o.db
             /\ p.n = o.n /\ p.gen = o.gen /\ p.tree = o.tree /\ p.fail = f
  <1> DEFINE p == Saying(o, a, f)
  <1>1. p = [o EXCEPT !.at = a, !.fail = f]
    BY DEF Saying
  <1> HIDE DEF p
  <1>2. p = [at |-> a, n |-> o.n, gen |-> o.gen, tree |-> o.tree, fail |-> f, db |-> o.db]
    BY <1>1 DEF Op
  <1>3. /\ Op(p) /\ p.at = a /\ p.db = o.db
        /\ p.n = o.n /\ p.gen = o.gen /\ p.tree = o.tree /\ p.fail = f
    BY <1>2 DEF Op
  <1> QED
    BY <1>3 DEF p

Taking(o, a, d) == [o EXCEPT !.at = a, !.db = d]

LEMMA OpTakes ==
  ASSUME NEW o, Op(o), NEW a, NEW d
  PROVE  LET p == Taking(o, a, d)
         IN  /\ Op(p) /\ p.at = a /\ p.db = d
             /\ p.n = o.n /\ p.gen = o.gen /\ p.tree = o.tree /\ p.fail = o.fail
  <1> DEFINE p == Taking(o, a, d)
  <1>1. p = [o EXCEPT !.at = a, !.db = d]
    BY DEF Taking
  <1> HIDE DEF p
  <1>2. p = [at |-> a, n |-> o.n, gen |-> o.gen, tree |-> o.tree, fail |-> o.fail, db |-> d]
    BY <1>1 DEF Op
  <1>3. /\ Op(p) /\ p.at = a /\ p.db = d
        /\ p.n = o.n /\ p.gen = o.gen /\ p.tree = o.tree /\ p.fail = o.fail
    BY <1>2 DEF Op
  <1> QED
    BY <1>3 DEF p

LEMMA Over ==
  Op(NoOp) /\ NoOp.at = "none"
  BY DEF NoOp, Op

LEMMA ArchiveBegins ==
  ASSUME SwapInv, up, busy = "free", BeginArchive, busy' = "archive",
         UNCHANGED <<live, stage, bucket, up, frozen, torn, revoked>>
  PROVE  SwapInv' /\ Grown
  <1>1. op.at = "none" /\ Database(live)
    BY Reserved DEF Moving
  <1>2. op'.at = "put" /\ op'.db = live /\ Op(op')
    BY DEF BeginArchive, Counted, NoOp, Op
  <1>3. Operation'
    BY <1>1, <1>2 DEF SwapInv, Operation, Filing, Staged, Frozen, Moving
  <1>4. AtMost(op'.db, live)
    BY <1>1, <1>2 DEF AtMost, Database
  <1>5. op.at \notin Moving /\ op'.at \notin Moving /\ op'.at \notin Staged
    BY <1>1, <1>2 DEF Moving, Staged
  <1>6. \A a \in bucket' : a \in bucket
    OBVIOUS
  <1> QED
    BY <1>3, <1>4, <1>5, <1>6, Steady

(* An archive's end, with or without the archive in the bucket.            *)
LEMMA ArchiveEnds ==
  ASSUME SwapInv, up, op.at \in Filing, NEW ok, EndArchive(ok),
         UNCHANGED <<stage, up, frozen, torn, revoked>>,
         \/ bucket' = bucket
         \/ bucket' = bucket \cup {[n |-> op.n, db |-> op.db]}
  PROVE  SwapInv' /\ Grown
  <1>1. op.at \notin Moving /\ Database(live) /\ Database(op.db)
    BY Reserved DEF SwapInv, Operation
  <1>2. Op(op') /\ op'.at = "none" /\ live' = Recorded(live, op.n, ok)
    BY Over DEF EndArchive
  <1>3. Database(live') /\ AtMost(live, live') /\ live'.key = live.key
    BY <1>1, <1>2, Made
  <1>4. Operation'
    BY <1>1, <1>2 DEF SwapInv, Operation, Filing, Staged, Frozen, Moving
  <1>5. \A a \in bucket' : a \in bucket \/ (Database(a.db) /\ (~torn => AtMost(a.db, live)))
    BY <1>1 DEF SwapInv, Older
  <1>6. op'.at \notin Filing /\ op'.at \notin Staged /\ op'.at \notin Moving
    BY <1>2 DEF Filing, Staged, Moving
  <1> QED
    BY <1>1, <1>3, <1>4, <1>5, <1>6, Steady

LEMMA Archiving ==
  ASSUME SwapInv, Tick \/ Now \/ PutArchive \/ PutManifest
  PROVE  SwapInv' /\ Grown
  <1>1. CASE Tick \/ Now
    BY <1>1, ArchiveBegins DEF Tick, Now, Reserve, disk, ghosts, told
  <1>2. CASE PutArchive
    <2>1. up /\ op.at = "put" /\ UNCHANGED <<stage, bucket, up, frozen, torn, revoked>>
      BY <1>2 DEF PutArchive, ghosts, told
    <2>2. CASE EndArchive(FALSE)
      BY <2>1, <2>2, ArchiveEnds DEF Filing
    <2>3. CASE op' = [op EXCEPT !.at = "manifest"] /\ UNCHANGED <<live, known, busy>>
      <3>1. Op(op') /\ op'.at = "manifest" /\ op'.db = op.db
        BY <2>3, OpGoes DEF SwapInv, Operation
      <3>2. op.at \notin Moving /\ op'.at \notin Moving /\ op'.at \notin Staged
        BY <2>1, <3>1 DEF Moving, Staged
      <3>3. Operation'
        BY <2>1, <2>3, <3>1 DEF SwapInv, Operation, Filing, Staged, Frozen, Moving
      <3>4. ~torn => AtMost(op'.db, live)
        BY <2>1, <3>1 DEF SwapInv, Older, Filing
      <3> QED
        BY <2>1, <2>3, <3>2, <3>3, <3>4, Steady
    <2> QED
      BY <1>2, <2>2, <2>3 DEF PutArchive
  <1>3. CASE PutManifest
    <2>1. up /\ op.at = "manifest" /\ UNCHANGED <<stage, up, frozen, torn, revoked>>
      BY <1>3 DEF PutManifest, ghosts, told
    <2>2. PICK ok \in BOOLEAN : EndArchive(ok)
      BY <1>3 DEF PutManifest
    <2> QED
      BY <1>3, <2>1, <2>2, ArchiveEnds DEF PutManifest, Filing
  <1> QED
    BY <1>1, <1>2, <1>3

(* Who holds the reservation for something else, and whatever says nothing *)
(* of databases.                                                           *)
LEMMA Others ==
  ASSUME SwapInv,
         \/ VerifyNow \/ VerifyEnds \/ BeginCleanup \/ EndCleanup
         \/ BeginWrite \/ StopJob \/ NextDay \/ UNCHANGED vars
  PROVE  SwapInv' /\ Grown
  <1>1. CASE VerifyNow \/ VerifyEnds \/ BeginCleanup \/ EndCleanup
    <2>1. op.at = "none" /\ UNCHANGED <<live, stage, bucket, op, up, frozen, torn, revoked>>
      BY <1>1, Reserved DEF VerifyNow, VerifyEnds, BeginCleanup, EndCleanup, Reserve, disk,
        ghosts, told
    <2>2. Operation' /\ op'.at \notin Filing /\ op'.at \notin Staged /\ op'.at \notin Moving
      BY <2>1 DEF SwapInv, Operation, Filing, Staged, Frozen, Moving, Op
    <2>3. \A a \in bucket' : a \in bucket
      BY <2>1
    <2> QED
      BY <2>1, <2>2, <2>3, Steady
  <1>2. CASE BeginWrite \/ StopJob
    BY <1>2, Still DEF BeginWrite, StopJob, disk, ghosts, told
  <1>3. CASE NextDay \/ UNCHANGED vars
    BY <1>3, Still DEF NextDay, vars, disk, process, ghosts, told
  <1> QED
    BY <1>1, <1>2, <1>3

(* The restore, up to the swap and from its end.                           *)
LEMMA RestoreBegins ==
  ASSUME SwapInv, RestoreNow \/ Prepare
  PROVE  SwapInv' /\ Grown
  <1>1. CASE RestoreNow
    <2>1. /\ op.at = "none" /\ busy' = "restore"
          /\ UNCHANGED <<live, stage, bucket, up, frozen, torn, revoked>>
      BY <1>1, Reserved DEF RestoreNow, Reserve, disk, ghosts, told
    <2>2. up /\ Op(op') /\ op'.at = "prepare"
      BY <1>1 DEF RestoreNow, Reserve, NoOp, Op
    <2>3. Operation' /\ op'.at \notin Filing /\ op'.at \notin Staged /\ op'.at \notin Moving
      BY <2>1, <2>2 DEF SwapInv, Operation, Filing, Staged, Frozen, Moving
    <2>4. \A a \in bucket' : a \in bucket
      BY <2>1
    <2> QED
      BY <2>1, <2>3, <2>4, Steady DEF Moving
  <1>2. CASE Prepare
    <2>1. /\ op.at = "prepare" /\ up /\ busy = "restore"
          /\ UNCHANGED <<live, bucket, busy, up, frozen, torn, revoked>>
      BY <1>2 DEF Prepare, ghosts, told, SwapInv, Operation, Filing
    <2>2. op.at \notin Moving /\ \A a \in bucket' : a \in bucket
      BY <2>1 DEF Moving
    <2>3. CASE Fails("nothing") /\ UNCHANGED stage
      <3>0. op' = Saying(op, "finish", "nothing")
        BY <2>3 DEF Fails, Saying
      <3>1. Op(op') /\ op'.at = "finish"
        BY <3>0, OpSays DEF SwapInv, Operation
      <3>2. Operation' /\ op'.at \notin Filing /\ op'.at \notin Staged /\ op'.at \notin Moving
        BY <2>1, <3>1 DEF SwapInv, Operation, Filing, Staged, Frozen, Moving
      <3> QED
        BY <2>1, <2>2, <3>2, Steady
    <2>4. CASE \E db \in Unpacked(op.n) :
                 /\ Valid(db)
                 /\ stage' = Cleaned(db)
                 /\ op' = [op EXCEPT !.at = "freeze"]
      <3>1. PICK a \in bucket : stage' = Cleaned(a.db) /\ op' = [op EXCEPT !.at = "freeze"]
        BY <2>4 DEF Unpacked
      <3>2. Database(a.db) /\ (~torn => AtMost(a.db, live) /\ Database(live))
        BY <2>1, <2>2, Reserved DEF SwapInv, Older, Current
      <3>3. Database(stage') /\ ~stage'.key /\ AtMost(stage', a.db)
        BY <3>1, <3>2, Made
      <3>4. ~torn => AtMost(stage', live)
        BY <3>2, <3>3 DEF AtMost, Database
      <3>5. Op(op') /\ op'.at = "freeze"
        BY <3>1, OpGoes DEF SwapInv, Operation
      <3>6. Operation' /\ op'.at \notin Filing /\ op'.at \notin Moving
        BY <2>1, <3>3, <3>5 DEF SwapInv, Operation, Filing, Staged, Frozen, Moving
      <3> QED
        BY <2>1, <2>2, <3>4, <3>6, Steady
    <2> QED
      BY <1>2, <2>3, <2>4 DEF Prepare
  <1> QED
    BY <1>1, <1>2

LEMMA RestoreWaits ==
  ASSUME SwapInv, Freeze \/ Drain
  PROVE  SwapInv' /\ Grown
  <1>1. /\ op.at \in {"freeze", "drain"} /\ up /\ frozen'
        /\ UNCHANGED <<live, stage, bucket, busy, up, torn, revoked>>
    BY DEF Freeze, Drain, disk, ghosts, told, SwapInv, Operation, Frozen
  <1>2. /\ Op(op) /\ busy = "restore" /\ Database(stage) /\ ~stage.key
        /\ op.at \notin Moving /\ (~torn => AtMost(stage, live))
    BY <1>1, Reserved DEF SwapInv, Operation, Filing, Staged, Moving
  <1>3. Op(op') /\ op'.at \in {"drain", "swap", "resume"}
    <2>1. CASE Freeze
      BY <1>2, <2>1, OpGoes DEF Freeze
    <2>2. CASE Drain
      <3>1. CASE op' = Saying(op, "resume", "nothing")
        BY <1>2, <3>1, OpSays
      <3>2. CASE op' = [op EXCEPT !.at = "swap"]
        BY <1>2, <3>2, OpGoes
      <3> QED
        BY <2>2, <3>1, <3>2 DEF Drain, Saying
    <2> QED
      BY <2>1, <2>2
  <1>4. Operation' /\ op'.at \notin Filing /\ op'.at \notin Moving
    BY <1>1, <1>2, <1>3 DEF SwapInv, Operation, Filing, Staged, Frozen, Moving
  <1>5. \A a \in bucket' : a \in bucket
    BY <1>1
  <1> QED
    BY <1>1, <1>2, <1>4, <1>5, Steady

LEMMA RestoreEnds ==
  ASSUME SwapInv, AfterSwap \/ Resume \/ Finish
  PROVE  SwapInv' /\ Grown
  <1>1. /\ op.at \in {"after", "resume", "finish"} /\ up /\ UNCHANGED <<bucket, up, torn, revoked>>
    BY DEF AfterSwap, Resume, Finish, ghosts, told
  <1>2. /\ Op(op) /\ busy = "restore" /\ op.at \notin Moving /\ Database(live)
        /\ \A a \in bucket' : a \in bucket
    BY <1>1, Reserved DEF SwapInv, Operation, Filing, Moving
  <1>3. CASE AfterSwap
    <2>1. PICK done \in {"nothing", "settings", "tree", "all"} :
            /\ live' = IF done = "all" THEN [live EXCEPT !.seq = @ + 1] ELSE live
            /\ op' = Saying(op, "resume", IF done = "all" THEN "no" ELSE "partly")
      BY <1>3 DEF AfterSwap, Saying
    <2>2. Op(op') /\ op'.at = "resume"
      BY <1>2, <2>1, OpSays
    <2>3. op.at = "after" /\ UNCHANGED <<stage, busy, frozen>>
      BY <1>3 DEF AfterSwap
    <2>4. Operation' /\ op'.at \notin Filing /\ op'.at \notin Staged /\ op'.at \notin Moving
      BY <1>1, <1>2, <2>2, <2>3 DEF SwapInv, Operation, Filing, Staged, Frozen, Moving
    <2>5. live' = live \/ (Database(live') /\ AtMost(live, live') /\ live'.key = live.key)
      <3>1. CASE done = "all"
        <4> DEFINE n == live.seq + 1
        <4>1. live' = [live EXCEPT !.seq = n] /\ n \in Nat /\ live.seq <= n
          BY <1>2, <2>1, <3>1 DEF Database
        <4> HIDE DEF n
        <4>2. live' = Db(live.work, n, live.jobs, live.owner, live.key, live.deleted, live.text,
                         live.job, live.lastAt, live.lastOk)
          BY <1>2, <4>1 DEF Database, Db
        <4> QED
          BY <1>2, <4>1, <4>2, DbIs DEF AtMost, Database
      <3>2. CASE done # "all"
        BY <2>1, <3>2
      <3> QED
        BY <3>1, <3>2
    <2> QED
      BY <1>1, <1>2, <2>4, <2>5, Steady
  <1>4. CASE Resume
    <2>1. PICK f : op' = Saying(op, "finish", f)
      BY <1>4 DEF Resume, Saying
    <2>2. /\ op.at = "resume" /\ UNCHANGED <<stage, busy, frozen>>
          /\ live' = live \/ live' = Recover(live)
      BY <1>4 DEF Resume
    <2>3. Op(op') /\ op'.at = "finish"
      BY <1>2, <2>1, OpSays
    <2>4. Operation' /\ op'.at \notin Filing /\ op'.at \notin Staged /\ op'.at \notin Moving
      BY <1>1, <1>2, <2>2, <2>3 DEF SwapInv, Operation, Filing, Staged, Frozen, Moving
    <2>5. live' = live \/ (Database(live') /\ AtMost(live, live') /\ live'.key = live.key)
      BY <1>2, <2>2, Made
    <2> QED
      BY <1>1, <1>2, <2>4, <2>5, Steady
  <1>5. CASE Finish
    <2>1. live' = live /\ Op(op') /\ op'.at = "none"
      BY <1>5, Over DEF Finish
    <2>2. Operation' /\ op'.at \notin Filing /\ op'.at \notin Staged /\ op'.at \notin Moving
      BY <1>1, <1>2, <2>1 DEF SwapInv, Operation, Filing, Staged, Frozen, Moving
    <2> QED
      BY <1>1, <1>2, <2>1, <2>2, Steady
  <1> QED
    BY <1>3, <1>4, <1>5

(* The swap, which has the current database aside.                         *)
LEMMA Aside ==
  ASSUME SwapInv, SwapOut
  PROVE  SwapInv' /\ Grown
  <1>1. op.at = "swap" /\ up /\ UNCHANGED <<stage, bucket, busy, frozen, up, torn, revoked>>
    BY DEF SwapOut, ghosts, told
  <1>2. /\ Op(op) /\ busy = "restore" /\ frozen /\ Database(stage) /\ ~stage.key
        /\ Database(live) /\ (~torn => AtMost(stage, live)) /\ op.at \notin Moving
    BY <1>1, Reserved DEF SwapInv, Operation, Filing, Staged, Moving, Frozen
  <1>3. CASE op' = [op EXCEPT !.at = "resume", !.fail = "nothing"] /\ UNCHANGED <<live, asides>>
    <2>1. op' = Saying(op, "resume", "nothing")
      BY <1>3 DEF Saying
    <2>2. Op(op') /\ op'.at = "resume"
      BY <1>2, <2>1, OpSays
    <2>3. Operation' /\ op'.at \notin Filing /\ op'.at \notin Staged /\ op'.at \notin Moving
      BY <1>1, <1>2, <2>2 DEF SwapInv, Operation, Filing, Staged, Frozen, Moving
    <2>4. \A a \in bucket' : a \in bucket
      BY <1>1
    <2> QED
      BY <1>1, <1>2, <1>3, <2>3, <2>4, Steady
  <1>4. CASE op' = [op EXCEPT !.at = "moving", !.db = live] /\ live' = None
    <2>1. op' = Taking(op, "moving", live)
      BY <1>4 DEF Taking
    <2>2. Op(op') /\ op'.at = "moving" /\ op'.db = live
      BY <1>2, <2>1, OpTakes
    <2>3. Operation' /\ Live'
      BY <1>1, <1>2, <1>4, <2>2 DEF SwapInv, Operation, Live, Filing, Staged, Frozen, Moving
    <2>4. Current = live /\ Current' = live
      BY <1>2, <2>2 DEF Current, Moving
    <2>5. Older'
      BY <1>1, <1>2, <2>2, <2>4 DEF SwapInv, Older, Filing, Staged
    <2>6. Keyless'
      BY <1>1, <1>2, <1>4, <2>2 DEF SwapInv, Keyless
    <2>7. Grown
      BY <1>4 DEF Grown
    <2> QED
      BY <2>3, <2>5, <2>6, <2>7 DEF SwapInv
  <1> QED
    BY <1>3, <1>4 DEF SwapOut

LEMMA BackAgain ==
  ASSUME SwapInv, up, op.at \in Moving, PutBack,
         UNCHANGED <<bucket, busy, frozen, up, torn, revoked>>
  PROVE  SwapInv' /\ Grown
  <1>1. /\ Op(op) /\ busy = "restore" /\ frozen /\ Database(op.db)
        /\ Current = op.db
    BY DEF SwapInv, Operation, Filing, Moving, Frozen, Current
  <1>2. live' = op.db /\ op' = Saying(op, "resume", "nothing")
    BY DEF PutBack, Saying
  <1>3. Op(op') /\ op'.at = "resume"
    BY <1>1, <1>2, OpSays
  <1>4. /\ Operation' /\ Live' /\ Current' = op.db
        /\ op'.at \notin Filing /\ op'.at \notin Staged /\ op'.at \notin Moving
    BY <1>1, <1>2, <1>3 DEF Operation, Live, Current, Filing, Staged, Frozen, Moving
  <1>5. Older'
    BY <1>1, <1>4, <1>3 DEF SwapInv, Older
  <1>6. Keyless'
    BY <1>2, <1>3, <1>4 DEF SwapInv, Keyless
  <1>7. Grown
    BY <1>2 DEF Grown, SwapInv, Live, Older, AtMost, Moving
  <1> QED
    BY <1>4, <1>5, <1>6, <1>7 DEF SwapInv

LEMMA InPlace ==
  ASSUME SwapInv, SwapIn
  PROVE  SwapInv' /\ Grown
  <1>1. /\ op.at = "moving" /\ up /\ live = None
        /\ UNCHANGED <<bucket, busy, frozen, up, torn, revoked>>
    BY DEF SwapIn, ghosts, told, SwapInv, Live
  <1>2. CASE PutBack
    BY <1>1, <1>2, BackAgain DEF Moving
  <1>3. CASE live' = stage /\ stage' = None /\ op' = [op EXCEPT !.at = "opening"]
    <2>1. /\ Op(op) /\ busy = "restore" /\ frozen /\ Database(op.db)
          /\ Database(stage) /\ ~stage.key /\ Current = op.db
          /\ (~torn => AtMost(stage, op.db))
      BY <1>1 DEF SwapInv, Operation, Older, Filing, Staged, Moving, Frozen, Current
    <2>2. Op(op') /\ op'.at = "opening" /\ op'.db = op.db
      BY <1>3, <2>1, OpGoes
    <2>3. Operation' /\ Live' /\ Current' = op.db
      BY <1>1, <1>3, <2>1, <2>2
        DEF SwapInv, Operation, Live, Current, Filing, Staged, Frozen, Moving
    <2>4. Older'
      BY <1>1, <1>3, <2>1, <2>2, <2>3 DEF SwapInv, Older, Filing, Staged
    <2>5. Keyless'
      BY <1>1, <1>3, <2>1, <2>2 DEF SwapInv, Keyless, Moving
    <2>6. Grown
      BY <1>1 DEF Grown
    <2> QED
      BY <2>3, <2>4, <2>5, <2>6 DEF SwapInv
  <1> QED
    BY <1>2, <1>3 DEF SwapIn

LEMMA Opened ==
  ASSUME SwapInv, SwapOpen
  PROVE  SwapInv' /\ Grown
  <1>1. /\ op.at = "opening" /\ up
        /\ UNCHANGED <<stage, bucket, busy, frozen, up, torn, revoked>>
    BY DEF SwapOpen
  <1>2. CASE PutBack
    BY <1>1, <1>2, BackAgain DEF Moving
  <1>3. CASE live' = KeepSequences(live, op.db) /\ op' = [op EXCEPT !.at = "after"]
    <2>1. /\ Op(op) /\ busy = "restore" /\ frozen /\ Database(op.db)
          /\ Database(live) /\ ~live.key /\ Current = op.db
      BY <1>1 DEF SwapInv, Operation, Live, Keyless, Filing, Moving, Frozen, Current
    <2>2. Op(op') /\ op'.at = "after"
      BY <1>3, <2>1, OpGoes
    <2>3. /\ Database(live') /\ live'.key = live.key
          /\ AtMost(live, live') /\ AtMost(op.db, live')
      BY <1>3, <2>1, Made
    <2>4. /\ Operation' /\ Live' /\ Current' = live'
          /\ op'.at \notin Filing /\ op'.at \notin Staged /\ op'.at \notin Moving
      BY <1>1, <2>1, <2>2, <2>3 DEF Operation, Live, Current, Filing, Staged, Frozen, Moving
    <2>5. \A a : Database(a) /\ AtMost(a, op.db) => AtMost(a, live')
      BY <2>1, <2>3 DEF AtMost, Database
    <2>6. Older'
      BY <1>1, <2>1, <2>2, <2>4, <2>5 DEF SwapInv, Older
    <2>7. Keyless'
      BY <2>1, <2>2, <2>3, <2>4 DEF Keyless
    <2>8. Grown
      BY <2>1, <2>3 DEF Grown, AtMost, Database
    <2> QED
      BY <2>4, <2>6, <2>7, <2>8 DEF SwapInv
  <1> QED
    BY <1>2, <1>3 DEF SwapOpen

(* The process dies; what it had of the restore in memory is gone.         *)
LEMMA Dies ==
  ASSUME SwapInv, Crash
  PROVE  SwapInv' /\ Grown
  <1>1. /\ op' = NoOp /\ ~up' /\ UNCHANGED <<live, stage, bucket, revoked>>
        /\ up /\ (~torn' => ~torn /\ op.at \notin Moving)
    BY DEF Crash, disk, Moving
  <1>2. Op(op') /\ op'.at = "none"
    BY <1>1, Over
  <1>3. ~torn' => Database(live) /\ Current = live /\ Current' = live
    BY <1>1, <1>2 DEF SwapInv, Live, Current, Moving
  <1>4. Operation' /\ Live'
    BY <1>1, <1>2, <1>3 DEF SwapInv, Operation, Live, Filing, Staged, Frozen, Moving
  <1>5. Older'
    BY <1>1, <1>2, <1>3 DEF SwapInv, Older, Filing, Staged
  <1>6. Keyless'
    BY <1>1, <1>2 DEF SwapInv, Keyless, Moving
  <1>7. Grown
    BY <1>1, <1>3 DEF Grown, Database
  <1> QED
    BY <1>4, <1>5, <1>6, <1>7 DEF SwapInv

LEMMA Starts ==
  ASSUME SwapInv, Start
  PROVE  SwapInv' /\ Grown
  <1>1. /\ ~up /\ up' /\ op.at = "none" /\ op' = op /\ busy' = busy /\ frozen' = frozen
        /\ UNCHANGED <<bucket, revoked, torn>>
        /\ live' = IF live = None THEN EmptyDatabase ELSE Recover(live)
    BY DEF Start, ghosts, told, SwapInv, Operation
  <1>2. CASE live = None
    <2>1. torn
      BY <1>1, <1>2, DatabaseIsThere DEF SwapInv, Live
    <2>2. Database(live') /\ ~live'.key
      <3> DEFINE k == FALSE
      <3> DEFINE z == 0
      <3>1. /\ k \in BOOLEAN /\ ~k /\ z \in Nat
            /\ live' = [work |-> {}, seq |-> z, jobs |-> z, owner |-> k, key |-> k,
                        deleted |-> z, text |-> z, job |-> NoJob, lastAt |-> z, lastOk |-> z]
        BY <1>1, <1>2 DEF EmptyDatabase, NewDatabase
      <3> HIDE DEF k, z
      <3>2. live' = Db({}, z, z, k, k, z, z, NoJob, z, z)
        BY <3>1 DEF Db
      <3>3. live'.key = k
        BY <3>1
      <3> QED
        BY <3>1, <3>2, <3>3, DbIs DEF Database
    <2>3. Live' /\ Operation' /\ Older' /\ Keyless'
      BY <1>1, <2>1, <2>2
        DEF SwapInv, Live, Operation, Older, Keyless, Filing, Staged, Frozen, Moving, Op
    <2> QED
      BY <1>2, <2>3 DEF SwapInv, Grown
  <1>3. CASE live # None
    <2>1. Database(live) /\ (revoked => ~live.key)
      BY <1>3 DEF SwapInv, Live, Keyless
    <2>2. Database(live') /\ AtMost(live, live') /\ live'.key = live.key
      BY <1>1, <1>3, <2>1, Made
    <2>3. Current = live /\ Current' = live'
      BY <1>1 DEF Current, Moving
    <2>4. Live' /\ Operation' /\ Keyless'
      BY <1>1, <2>1, <2>2
        DEF SwapInv, Live, Operation, Keyless, Filing, Staged, Frozen, Moving, Op
    <2>5. \A a : Database(a) /\ AtMost(a, live) => AtMost(a, live')
      BY <2>1, <2>2 DEF AtMost, Database
    <2>6. Older'
      BY <1>1, <2>3, <2>5 DEF SwapInv, Older, Filing, Staged
    <2>7. Grown
      BY <2>1, <2>2 DEF Grown, AtMost, Database
    <2> QED
      BY <2>4, <2>6, <2>7 DEF SwapInv
  <1> QED
    BY <1>2, <1>3

-----------------------------------------------------------------------------
(* What requests and the worker change of a database.                      *)
LEMMA Edited ==
  ASSUME NEW db, Database(db), NEW e, NEW w, NEW s, NEW n, NEW k, NEW d, NEW t, NEW j,
         e = Db(w, s, n, db.owner, k, d, t, j, db.lastAt, db.lastOk),
         s \in Nat, n \in Nat, k \in BOOLEAN, db.seq <= s, db.jobs <= n
  PROVE  Database(e) /\ AtMost(db, e) /\ e.key = k
  BY DbIs DEF AtMost

LEMMA Writes ==
  ASSUME SwapInv, CommitWrite \/ RevokeKey
  PROVE  SwapInv' /\ Grown
  <1>1. /\ up /\ op.at \notin Moving /\ Database(live)
        /\ UNCHANGED <<stage, bucket, op, up, frozen, busy, torn>>
    BY Reserved DEF CommitWrite, RevokeKey, Pool, Admitted, LiveOnly, SwapInv, Operation,
                    Moving, Frozen
  <1>2. /\ live.seq \in Nat /\ live.jobs \in Nat /\ live.key \in BOOLEAN
        /\ live.seq <= live.seq /\ live.jobs <= live.jobs
    BY <1>1 DEF Database
  <1>3. CASE CommitWrite
    <2> DEFINE w == live.work \cup {Cardinality(acked) + 1}
    <2> DEFINE s == live.seq + 1
    <2>1. live' = [live EXCEPT !.work = w, !.seq = s] /\ s \in Nat /\ live.seq <= s
      BY <1>2, <1>3 DEF CommitWrite
    <2> HIDE DEF w, s
    <2>2. live' = Db(w, s, live.jobs, live.owner, live.key, live.deleted, live.text, live.job,
                     live.lastAt, live.lastOk)
      BY <1>1, <2>1 DEF Database, Db
    <2>3. Database(live') /\ AtMost(live, live') /\ live'.key = live.key
      BY <1>1, <1>2, <2>1, <2>2, Edited
    <2> QED
      BY <1>1, <1>3, <2>3, LiveGrows DEF CommitWrite
  <1>4. CASE RevokeKey
    <2> DEFINE k == FALSE
    <2>1. live' = [live EXCEPT !.key = k] /\ k \in BOOLEAN /\ ~k
      BY <1>4 DEF RevokeKey
    <2> HIDE DEF k
    <2>2. live' = Db(live.work, live.seq, live.jobs, live.owner, k, live.deleted, live.text,
                     live.job, live.lastAt, live.lastOk)
      BY <1>1, <2>1 DEF Database, Db
    <2>3. Database(live') /\ AtMost(live, live') /\ ~live'.key
      BY <1>1, <1>2, <2>1, <2>2, Edited
    <2> QED
      BY <1>1, <2>3, LiveGrows
  <1> QED
    BY <1>3, <1>4

(* What is done to the recording, its transcript and its job.              *)
LEMMA Transcribes ==
  ASSUME SwapInv,
         \/ DeleteFile \/ RestoreDeleted \/ QueueTranscription \/ EditTranscript
         \/ Claim \/ SaveTranscript \/ FailJob
  PROVE  SwapInv' /\ Grown
  <1>1. /\ up /\ op.at \notin Moving /\ Database(live)
        /\ UNCHANGED <<stage, bucket, op, up, frozen, busy, torn, revoked>>
    BY Reserved DEF DeleteFile, RestoreDeleted, QueueTranscription, EditTranscript, Claim,
                    SaveTranscript, FailJob, Pool, Admitted, LiveOnly, WorkerOnly, ghosts, told,
                    SwapInv, Operation, Moving, Frozen
  <1>2. /\ live.seq \in Nat /\ live.jobs \in Nat /\ live.key \in BOOLEAN
        /\ live.seq <= live.seq /\ live.jobs <= live.jobs
    BY <1>1 DEF Database
  <1>3. ASSUME NEW n \in Nat, NEW d, NEW t, NEW j, live.jobs <= n,
               live' = Db(live.work, live.seq, n, live.owner, live.key, d, t, j, live.lastAt,
                          live.lastOk)
        PROVE  SwapInv' /\ Grown
    <2>1. Database(live') /\ AtMost(live, live') /\ live'.key = live.key
      BY <1>1, <1>2, <1>3, Edited
    <2> QED
      BY <1>1, <2>1, LiveGrows
  <1>4. CASE QueueTranscription
    <2> DEFINE n == live.jobs + 1
    <2> DEFINE j == [id |-> live.jobs + 1, state |-> "queued", base |-> live.text]
    <2>1. live' = [live EXCEPT !.jobs = n, !.job = j] /\ n \in Nat /\ live.jobs <= n
      BY <1>2, <1>4 DEF QueueTranscription
    <2> HIDE DEF n, j
    <2>2. live' = Db(live.work, live.seq, n, live.owner, live.key, live.deleted, live.text, j,
                     live.lastAt, live.lastOk)
      BY <1>1, <2>1 DEF Database, Db
    <2> QED
      BY <1>3, <2>1, <2>2
  <1>5. CASE DeleteFile \/ RestoreDeleted
    <2> DEFINE t == IF live.text = 0 THEN 0 ELSE live.text + 1
    <2>1. \/ live' = [live EXCEPT !.deleted = day, !.job = NoJob]
          \/ live' = [live EXCEPT !.deleted = 0, !.text = t]
      BY <1>5 DEF DeleteFile, RestoreDeleted
    <2> HIDE DEF t
    <2>2. \/ live' = Db(live.work, live.seq, live.jobs, live.owner, live.key, day, live.text,
                        NoJob, live.lastAt, live.lastOk)
          \/ live' = Db(live.work, live.seq, live.jobs, live.owner, live.key, 0, t,
                        live.job, live.lastAt, live.lastOk)
      BY <1>1, <2>1 DEF Database, Db
    <2> QED
      BY <1>2, <1>3, <2>2
  <1>6. CASE EditTranscript \/ SaveTranscript
    <2> DEFINE t == live.text + 1
    <2> DEFINE j == [live.job EXCEPT !.state = "complete"]
    <2>1. live' = [live EXCEPT !.text = t] \/ live' = [live EXCEPT !.text = t, !.job = j]
      BY <1>6 DEF EditTranscript, SaveTranscript
    <2> HIDE DEF t, j
    <2>2. \/ live' = Db(live.work, live.seq, live.jobs, live.owner, live.key, live.deleted, t,
                        live.job, live.lastAt, live.lastOk)
          \/ live' = Db(live.work, live.seq, live.jobs, live.owner, live.key, live.deleted, t,
                        j, live.lastAt, live.lastOk)
      BY <1>1, <2>1 DEF Database, Db
    <2> QED
      BY <1>2, <1>3, <2>2
  <1>7. CASE Claim \/ FailJob
    <2>1. PICK s : live' = live \/ live' = [live EXCEPT !.job.state = s]
      BY <1>7 DEF Claim, FailJob
    <2> DEFINE j == [live.job EXCEPT !.state = s]
    <2>2. live' = live \/ live' = [live EXCEPT !.job = j]
      BY <2>1
    <2> HIDE DEF j
    <2>3. \/ live' = live
          \/ live' = Db(live.work, live.seq, live.jobs, live.owner, live.key, live.deleted,
                        live.text, j, live.lastAt, live.lastOk)
      BY <1>1, <2>2 DEF Database, Db
    <2> QED
      BY <1>1, <1>2, <1>3, <2>3, Still
  <1> QED
    BY <1>4, <1>5, <1>6, <1>7
-----------------------------------------------------------------------------
LEMMA Steps == SwapInv /\ [Next]_vars => SwapInv' /\ Grown
  <1> SUFFICES ASSUME SwapInv, [Next]_vars PROVE SwapInv' /\ Grown
    OBVIOUS
  <1>1. CASE Serve
    BY <1>1, Archiving, Others, RestoreBegins, RestoreWaits, Aside, InPlace, Opened, RestoreEnds,
       Writes, Transcribes, Starts
      DEF Serve
  <1>2. CASE Ask
    BY <1>2, Archiving, Others, RestoreBegins, Writes, Transcribes DEF Ask
  <1>3. CASE NextDay \/ UNCHANGED vars
    BY <1>3, Others
  <1>4. CASE Crash
    BY <1>4, Dies
  <1> QED
    BY <1>1, <1>2, <1>3, <1>4 DEF Next

(* Through nightly archives, restores of any of them and crashes, an       *)
(* activity or job number is given once and a revoked key stays revoked.   *)
THEOREM NothingComesBack == Spec => NothingReturns
  <1>1. SwapInv => KeysStayRevoked
    BY DEF SwapInv, Keyless, KeysStayRevoked
  <1>2. SwapInv /\ [Next]_vars =>
          [live # None /\ ~torn' =>
             (live' # None => live'.seq >= live.seq /\ live'.jobs >= live.jobs)]_vars
    BY Steps DEF Grown
  <1> QED
    BY Initially, Steps, <1>1, <1>2, PTL DEF Spec, NothingReturns, NumbersGrow
-----------------------------------------------------------------------------
(* What else the steps of a restore keep.                                  *)
Job(j) == j = [id |-> j.id, state |-> j.state, base |-> j.base]

Worker(w) == w = [at |-> w.at, id |-> w.id, base |-> w.base, gen |-> w.gen, stop |-> w.stop]

(* A copy that can be told from: its day, its job, and a last good run     *)
(* that is among the runs there are.                                       *)
Sound(db, runs) ==
  /\ db.deleted \in Nat /\ Job(db.job)
  /\ db.lastOk = 0 \/ db.lastOk \in runs

Copies ==
  /\ live # None => Sound(live, Listed)
  /\ \A a \in bucket : Sound(a.db, Listed)
  /\ op.at \in Filing \/ op.at \in Moving => Sound(op.db, Listed)
  /\ op.at \in Staged => Sound(stage, Listed)

(* While a swap is on, what comes into place is not counted on.            *)
Held == IF op.at \in Moving THEN {} ELSE WorkIn(live)
Answered == acked \subseteq Held \cup UNION asides

(* The worker stops for a restore and begins again when it is through.     *)
Working ==
  /\ Worker(worker) /\ worker.at \in {"idle", "infers"}
  /\ worker.stop => op.at = "drain" /\ worker.at = "infers"
  /\ op.at \in Frozen => paused
  /\ op.at \in Frozen /\ op.at # "drain" => worker.at = "idle"
  /\ worker.at = "infers" => worker.gen = gen
  /\ up /\ op.at \notin Frozen /\ live.job.state = "running"
     => (worker.at = "infers" /\ worker.id = live.job.id) \/ live.job.id = left

(* What cleanup found stays so until it has deleted it.                    *)
Cleaning ==
  /\ ~up => busy = "free"
  /\ busy = "cleanup" => live.deleted # 0 /\ day >= live.deleted + Grace

(* What a restore has to say, at each of its steps.                        *)
Begun == {"prepare", "freeze", "drain", "swap", "moving", "opening"}
Words == {"nothing", "partly", "no"}

Telling ==
  /\ gen \in Nat /\ day \in Nat
  /\ op.at \in Begun => gen = op.gen /\ tree = op.tree
  /\ op.at = "after" => gen = op.gen + 1 /\ ~live.key
  /\ op.at \in Begun \/ op.at = "after" => op.fail = "no"
  /\ op.at \in {"resume", "finish"} =>
       /\ op.fail \in Words
       /\ op.fail = "nothing" => gen = op.gen /\ tree = op.tree
       /\ op.fail = "partly" => gen = op.gen + 1
       /\ op.fail = "no" => gen = op.gen + 1 /\ tree = gen /\ known = live.lastAt /\ ~live.key
       /\ op.fail = "no" /\ op.at = "finish" => mirror /\ left = 0

More == Copies /\ Answered /\ Working /\ Cleaning /\ Telling

SameWork(a, b) == b.work = a.work
SameRuns(a, b) == b.lastAt = a.lastAt /\ b.lastOk = a.lastOk
SameFile(a, b) == b.deleted = a.deleted /\ b.text = a.text
SameJob(a, b)  == b.job = a.job
Quiet(db)      == db.job.state # "running"
-----------------------------------------------------------------------------
LEMMA DbHas ==
  ASSUME NEW w, NEW s, NEW n, NEW o, NEW k, NEW d, NEW t, NEW j, NEW a, NEW l
  PROVE  LET db == Db(w, s, n, o, k, d, t, j, a, l)
         IN  /\ db.work = w /\ db.key = k /\ db.deleted = d /\ db.text = t /\ db.job = j
             /\ db.lastAt = a /\ db.lastOk = l
  BY DEF Db

(* A job in another state.                                                 *)
LEMMA JobGoes ==
  ASSUME NEW j, Job(j), NEW s, NEW i, i = [j EXCEPT !.state = s]
  PROVE  Job(i) /\ i.id = j.id /\ i.base = j.base /\ i.state = s
  <1>1. i = [id |-> j.id, state |-> s, base |-> j.base]
    BY DEF Job
  <1> QED
    BY <1>1 DEF Job

(* What is kept of a database in what a restore and a restart make of it.  *)
LEMMA Kept ==
  ASSUME NEW db, Database(db), Job(db.job)
  PROVE  /\ LET c == Cleaned(db)
            IN  SameWork(db, c) /\ SameRuns(db, c) /\ SameFile(db, c) /\ SameJob(db, c)
         /\ LET c == Recover(db)
            IN  SameWork(db, c) /\ SameRuns(db, c) /\ SameFile(db, c) /\ Job(c.job) /\ Quiet(c)
         /\ \A n, ok :
              LET c == Recorded(db, n, ok)
              IN  /\ SameWork(db, c) /\ SameFile(db, c) /\ SameJob(db, c)
                  /\ c.lastOk = IF ok THEN n ELSE db.lastOk
         /\ \A old :
              LET c == KeepSequences(db, old)
              IN  SameWork(db, c) /\ SameRuns(db, c) /\ SameFile(db, c) /\ SameJob(db, c)
  <1>1. LET c == Cleaned(db)
        IN  SameWork(db, c) /\ SameRuns(db, c) /\ SameFile(db, c) /\ SameJob(db, c)
    <2> DEFINE k == FALSE
    <2>1. Cleaned(db) = [db EXCEPT !.key = k]
      BY DEF Cleaned
    <2> HIDE DEF k
    <2>2. Cleaned(db) = Db(db.work, db.seq, db.jobs, db.owner, k, db.deleted, db.text,
                           db.job, db.lastAt, db.lastOk)
      BY <2>1 DEF Database, Db
    <2> QED
      BY <2>2, DbHas DEF SameWork, SameRuns, SameFile, SameJob
  <1>2. LET c == Recover(db)
        IN  SameWork(db, c) /\ SameRuns(db, c) /\ SameFile(db, c) /\ Job(c.job) /\ Quiet(c)
    <2>1. CASE db.job.state = "running"
      <3> DEFINE j == [db.job EXCEPT !.state = "failed"]
      <3>1. Recover(db) = [db EXCEPT !.job = j]
        BY <2>1 DEF Recover
      <3>2. Job(j) /\ j.state # "running"
        BY JobGoes
      <3> HIDE DEF j
      <3>3. Recover(db) = Db(db.work, db.seq, db.jobs, db.owner, db.key, db.deleted, db.text,
                             j, db.lastAt, db.lastOk)
        BY <3>1 DEF Database, Db
      <3> QED
        BY <3>2, <3>3, DbHas DEF SameWork, SameRuns, SameFile, Quiet
    <2>2. CASE db.job.state # "running"
      BY <2>2 DEF Recover, SameWork, SameRuns, SameFile, Quiet
    <2> QED
      BY <2>1, <2>2
  <1>3. ASSUME NEW n, NEW ok
        PROVE  LET c == Recorded(db, n, ok)
               IN  /\ SameWork(db, c) /\ SameFile(db, c) /\ SameJob(db, c)
                   /\ c.lastOk = IF ok THEN n ELSE db.lastOk
    <2> DEFINE l == IF ok THEN n ELSE db.lastOk
    <2>1. Recorded(db, n, ok) = [db EXCEPT !.lastAt = day, !.lastOk = l]
      BY DEF Recorded
    <2> HIDE DEF l
    <2>2. Recorded(db, n, ok) = Db(db.work, db.seq, db.jobs, db.owner, db.key, db.deleted,
                                   db.text, db.job, day, l)
      BY <2>1 DEF Database, Db
    <2>3. LET c == Recorded(db, n, ok)
          IN  SameWork(db, c) /\ SameFile(db, c) /\ SameJob(db, c) /\ c.lastOk = l
      BY <2>2, DbHas DEF SameWork, SameFile, SameJob
    <2> QED
      BY <2>3 DEF l
  <1>4. ASSUME NEW old
        PROVE  LET c == KeepSequences(db, old)
               IN  SameWork(db, c) /\ SameRuns(db, c) /\ SameFile(db, c) /\ SameJob(db, c)
    <2> DEFINE s == Max({db.seq, old.seq})
    <2> DEFINE n == Max({db.jobs, old.jobs})
    <2>1. KeepSequences(db, old) = [db EXCEPT !.seq = s, !.jobs = n]
      BY DEF KeepSequences
    <2> HIDE DEF s, n
    <2>2. KeepSequences(db, old) = Db(db.work, s, n, db.owner, db.key, db.deleted, db.text,
                                      db.job, db.lastAt, db.lastOk)
      BY <2>1 DEF Database, Db
    <2> QED
      BY <2>2, DbHas DEF SameWork, SameRuns, SameFile, SameJob
  <1> QED
    BY <1>1, <1>2, <1>3, <1>4

(* What is told from a copy is told from what is like it.                  *)
LEMMA SoundToo ==
  ASSUME NEW db, NEW c, NEW runs, NEW more, Sound(db, runs), runs \subseteq more,
         c.deleted \in Nat, Job(c.job), c.lastOk = db.lastOk \/ c.lastOk \in more
  PROVE  Sound(c, more)
  BY DEF Sound

LEMMA InitiallyMore == Init => More
  <1> SUFFICES ASSUME Init PROVE More
    OBVIOUS
  <1> DEFINE z == 0
  <1> DEFINE k == TRUE
  <1>1. live = Db({}, z, z, k, k, z, z, NoJob, z, z) /\ z = 0
    BY DEF Init, NewDatabase, Db
  <1> HIDE DEF z, k
  <1>2. live.work = {} /\ live.deleted = 0 /\ live.job = NoJob /\ live.lastOk = 0
    BY <1>1, DbHas
  <1>3. Job(NoJob) /\ NoJob.state = "none"
    BY DEF NoJob, Job
  <1>4. Worker(Idle) /\ Idle.at = "idle" /\ ~Idle.stop
    BY DEF Idle, Worker
  <1>5. /\ op.at = "none" /\ bucket = {} /\ acked = {} /\ worker = Idle /\ up
        /\ busy = "free" /\ gen = 0 /\ day = 1
    BY DEF Init, NoOp
  <1>6. Copies
    BY <1>2, <1>3, <1>5 DEF Copies, Sound, Filing, Moving, Staged
  <1> QED
    BY <1>2, <1>3, <1>4, <1>5, <1>6
      DEF More, Answered, Working, Cleaning, Telling, Frozen, Begun

-----------------------------------------------------------------------------
(* A step that leaves the databases and what runs as they are.             *)
LEMMA Stays ==
  ASSUME More, Working', Cleaning', day' \in Nat,
         UNCHANGED <<live, asides, stage, tree, bucket, op, gen, left, known, mirror, acked>>
  PROVE  More'
  <1>1. Listed' = Listed /\ Held' = Held
    BY DEF Listed, Held
  <1>2. Copies' /\ Answered'
    BY <1>1 DEF More, Copies, Answered
  <1>3. Telling'
    BY DEF More, Telling
  <1> QED
    BY <1>2, <1>3 DEF More

LEMMA WorksOn ==
  ASSUME Working, UNCHANGED <<worker, op, paused, gen, left, up>>,
         live'.job.state = "running" => live.job.state = "running" /\ live'.job.id = live.job.id
  PROVE  Working'
  BY DEF Working

(* A step outside of a swap that changes the database only.                *)
LEMMA LiveChanges ==
  ASSUME SwapInv, More, Working', op.at \notin Moving, Database(live), Database(live'),
         UNCHANGED <<asides, stage, tree, bucket, op, gen, left, busy, known, mirror, up, day>>,
         live'.deleted \in Nat, Job(live'.job), SameRuns(live, live'), live'.key => live.key,
         live.work \subseteq live'.work, acked' \subseteq acked \cup live'.work,
         busy = "cleanup" => live'.deleted = live.deleted
  PROVE  More'
  <1>1. live # None /\ live' # None
    BY DatabaseIsThere
  <1>2. Copies'
    <2>1. Sound(live', Listed) /\ Listed' = Listed
      BY <1>1 DEF More, Copies, Sound, SameRuns, Listed
    <2> QED
      BY <2>1 DEF More, Copies
  <1>3. Answered'
    BY <1>1 DEF More, Answered, Held, WorkIn
  <1>4. Cleaning' /\ Telling'
    BY DEF More, Cleaning, Telling, SameRuns
  <1> QED
    BY <1>2, <1>3, <1>4 DEF More

(* Who holds the reservation for something else, and whatever says nothing *)
(* of databases.                                                           *)
LEMMA OthersToo ==
  ASSUME SwapInv, More,
         \/ VerifyNow \/ VerifyEnds \/ BeginCleanup \/ EndCleanup
         \/ BeginWrite \/ StopJob \/ NextDay \/ UNCHANGED vars
  PROVE  More'
  <1>1. CASE VerifyNow \/ VerifyEnds \/ BeginCleanup \/ EndCleanup
    <2>1. /\ UNCHANGED <<live, asides, stage, tree, bucket, op, gen, left, known, mirror, acked>>
          /\ UNCHANGED <<worker, paused, up, day>>
      BY <1>1 DEF VerifyNow, VerifyEnds, BeginCleanup, EndCleanup, disk, ghosts, told, counts
    <2>2. Working'
      BY <2>1, WorksOn DEF More
    <2>3. up /\ Cleaning'
      BY <1>1, <2>1 DEF VerifyNow, VerifyEnds, BeginCleanup, EndCleanup, Reserve, More, Cleaning
    <2> QED
      BY <2>1, <2>2, <2>3, Stays DEF More, Telling
  <1>2. CASE BeginWrite \/ NextDay \/ UNCHANGED vars
    <2>1. /\ UNCHANGED <<live, asides, stage, tree, bucket, op, gen, left, known, mirror, acked>>
          /\ UNCHANGED <<worker, paused, up, busy>>
      BY <1>2 DEF BeginWrite, NextDay, vars, disk, process, ghosts, told, counts
    <2>2. day' = day \/ day' = day + 1
      BY <1>2 DEF BeginWrite, NextDay, vars, counts
    <2>3. Working'
      BY <2>1, WorksOn DEF More
    <2>4. day' \in Nat /\ (busy = "cleanup" => live.deleted \in Nat)
      BY <2>2, Reserved, DatabaseIsThere
        DEF More, Telling, Cleaning, Copies, Sound, SwapInv, Live, Moving
    <2>5. Cleaning'
      BY <2>1, <2>2, <2>4, MaintenanceAssumption DEF More, Cleaning, Telling
    <2> QED
      BY <2>1, <2>3, <2>4, <2>5, Stays
  <1>3. CASE StopJob
    <2>1. /\ UNCHANGED <<live, asides, stage, tree, bucket, op, gen, left, known, mirror, acked>>
          /\ UNCHANGED <<paused, up, busy, day>> /\ worker' = Idle /\ op.at = "drain"
      BY <1>3 DEF StopJob, disk, ghosts, told, counts, More, Working
    <2>2. Worker(Idle) /\ Idle.at = "idle" /\ ~Idle.stop
      BY DEF Idle, Worker
    <2>3. Working'
      BY <2>1, <2>2 DEF More, Working, Frozen
    <2> QED
      BY <2>1, <2>3, Stays DEF More, Cleaning, Telling
  <1> QED
    BY <1>1, <1>2, <1>3

LEMMA WritesToo ==
  ASSUME SwapInv, SwapInv', More, CommitWrite \/ RevokeKey
  PROVE  More'
  <1>1. /\ up /\ op.at \notin Moving /\ Database(live)
        /\ UNCHANGED <<asides, stage, tree, bucket, op, gen, left, busy, known, mirror, up, day>>
        /\ UNCHANGED <<worker, paused>>
    BY Reserved DEF CommitWrite, RevokeKey, Pool, Admitted, LiveOnly, SwapInv, Operation,
                    Moving, Frozen, counts
  <1>2. Database(live') /\ Sound(live, Listed)
    BY <1>1, DatabaseIsThere DEF SwapInv, Live, Moving, More, Copies
  <1>3. \E w, s, k : /\ live' = Db(w, s, live.jobs, live.owner, k, live.deleted, live.text,
                                    live.job, live.lastAt, live.lastOk)
                     /\ (k => live.key) /\ live.work \subseteq w /\ acked' \subseteq acked \cup w
    <2>1. CASE CommitWrite
      <3> DEFINE token == {Cardinality(acked) + 1}
      <3> DEFINE w == live.work \cup token
      <3> DEFINE s == live.seq + 1
      <3>1. live' = [live EXCEPT !.work = w, !.seq = s] /\ acked' = acked \cup token
        BY <2>1 DEF CommitWrite
      <3>2. live.work \subseteq w /\ acked' \subseteq acked \cup w
        BY <3>1
      <3> HIDE DEF w, s
      <3>3. live' = Db(w, s, live.jobs, live.owner, live.key, live.deleted, live.text, live.job,
                       live.lastAt, live.lastOk)
        BY <1>1, <3>1 DEF Database, Db
      <3> QED
        BY <3>2, <3>3
    <2>2. CASE RevokeKey
      <3> DEFINE k == FALSE
      <3>1. live' = [live EXCEPT !.key = k] /\ ~k /\ acked' = acked
        BY <2>2 DEF RevokeKey, LiveOnly
      <3> HIDE DEF k
      <3>2. live' = Db(live.work, live.seq, live.jobs, live.owner, k, live.deleted, live.text,
                       live.job, live.lastAt, live.lastOk)
        BY <1>1, <3>1 DEF Database, Db
      <3> QED
        BY <3>1, <3>2
    <2> QED
      BY <2>1, <2>2
  <1>4. /\ live'.job = live.job /\ SameRuns(live, live') /\ live'.deleted = live.deleted
        /\ (live'.key => live.key)
        /\ live.work \subseteq live'.work /\ acked' \subseteq acked \cup live'.work
    BY <1>3, DbHas DEF SameRuns
  <1>5. Working'
    BY <1>1, <1>4, WorksOn DEF More
  <1> QED
    BY <1>1, <1>2, <1>4, <1>5, LiveChanges DEF Sound

(* What is done to the recording, its transcript and its job by requests.  *)
LEMMA RequestsToo ==
  ASSUME SwapInv, SwapInv', More,
         DeleteFile \/ RestoreDeleted \/ QueueTranscription \/ EditTranscript
  PROVE  More'
  <1>1. /\ up /\ op.at \notin Moving /\ Database(live)
        /\ UNCHANGED <<asides, stage, tree, bucket, op, gen, left, busy, known, mirror, up, day>>
        /\ UNCHANGED <<worker, paused, acked>>
    BY Reserved DEF DeleteFile, RestoreDeleted, QueueTranscription, EditTranscript, Admitted,
                    LiveOnly, SwapInv, Operation, Moving, Frozen
  <1>2. Database(live') /\ Sound(live, Listed) /\ day \in Nat
    BY <1>1, DatabaseIsThere DEF SwapInv, Live, Moving, More, Copies, Telling
  <1>3. Job(NoJob) /\ NoJob.state # "running"
    BY DEF NoJob, Job
  <1>4. \E n, d, t, j :
          /\ live' = Db(live.work, live.seq, n, live.owner, live.key, d, t, j, live.lastAt,
                        live.lastOk)
          /\ d \in Nat /\ Job(j) /\ (busy = "cleanup" => d = live.deleted)
          /\ j = live.job \/ j.state # "running"
    <2>1. CASE QueueTranscription
      <3> DEFINE n == live.jobs + 1
      <3> DEFINE j == [id |-> live.jobs + 1, state |-> "queued", base |-> live.text]
      <3>1. live' = [live EXCEPT !.jobs = n, !.job = j] /\ Job(j) /\ j.state # "running"
        BY <2>1 DEF QueueTranscription, Job
      <3> HIDE DEF n, j
      <3>2. live' = Db(live.work, live.seq, n, live.owner, live.key, live.deleted, live.text, j,
                       live.lastAt, live.lastOk)
        BY <1>1, <3>1 DEF Database, Db
      <3> QED
        BY <1>2, <3>1, <3>2 DEF Sound
    <2>2. CASE DeleteFile
      <3>1. live' = [live EXCEPT !.deleted = day, !.job = NoJob] /\ live.deleted = 0
        BY <2>2 DEF DeleteFile
      <3>2. live' = Db(live.work, live.seq, live.jobs, live.owner, live.key, day, live.text,
                       NoJob, live.lastAt, live.lastOk)
        BY <1>1, <3>1 DEF Database, Db
      <3> QED
        BY <1>2, <1>3, <3>1, <3>2 DEF More, Cleaning
    <2>3. CASE RestoreDeleted
      <3> DEFINE z == 0
      <3> DEFINE t == IF live.text = 0 THEN 0 ELSE live.text + 1
      <3>1. live' = [live EXCEPT !.deleted = z, !.text = t] /\ z \in Nat /\ busy = "free"
        BY <2>3 DEF RestoreDeleted
      <3> HIDE DEF z, t
      <3>2. live' = Db(live.work, live.seq, live.jobs, live.owner, live.key, z, t, live.job,
                       live.lastAt, live.lastOk)
        BY <1>1, <3>1 DEF Database, Db
      <3> QED
        BY <1>2, <3>1, <3>2 DEF Sound
    <2>4. CASE EditTranscript
      <3> DEFINE t == live.text + 1
      <3>1. live' = [live EXCEPT !.text = t]
        BY <2>4 DEF EditTranscript
      <3> HIDE DEF t
      <3>2. live' = Db(live.work, live.seq, live.jobs, live.owner, live.key, live.deleted, t,
                       live.job, live.lastAt, live.lastOk)
        BY <1>1, <3>1 DEF Database, Db
      <3> QED
        BY <1>2, <3>2 DEF Sound
    <2> QED
      BY <2>1, <2>2, <2>3, <2>4
  <1>5. /\ live'.deleted \in Nat /\ Job(live'.job) /\ SameRuns(live, live')
        /\ (live'.key => live.key) /\ live'.work = live.work
        /\ (busy = "cleanup" => live'.deleted = live.deleted)
        /\ (live'.job = live.job \/ live'.job.state # "running")
    BY <1>4, DbHas DEF SameRuns
  <1>6. Working'
    BY <1>1, <1>5, WorksOn DEF More
  <1> QED
    BY <1>1, <1>2, <1>5, <1>6, LiveChanges

(* The worker, which is on the job it claimed in this database.            *)
LEMMA WorkerToo ==
  ASSUME SwapInv, SwapInv', More, Claim \/ SaveTranscript \/ FailJob
  PROVE  More'
  <1>1. /\ up /\ op.at \notin Moving /\ Database(live)
        /\ UNCHANGED <<asides, stage, tree, bucket, op, gen, left, busy, known, mirror, up, day>>
        /\ UNCHANGED <<paused, acked>>
    BY Reserved DEF Claim, SaveTranscript, FailJob, Pool, WorkerOnly, ghosts, told, counts, Moving
  <1>2. Database(live') /\ Sound(live, Listed) /\ Job(live.job)
    BY <1>1, DatabaseIsThere DEF SwapInv, Live, Moving, More, Copies, Sound
  <1>3. live = Db(live.work, live.seq, live.jobs, live.owner, live.key, live.deleted, live.text,
                  live.job, live.lastAt, live.lastOk)
    BY <1>1 DEF Database
  <1>4. Worker(Idle) /\ Idle.at = "idle" /\ ~Idle.stop
    BY DEF Idle, Worker
  <1>5. ASSUME NEW s, live' = [live EXCEPT !.job.state = s]
        PROVE  \E j : /\ live' = Db(live.work, live.seq, live.jobs, live.owner, live.key,
                                    live.deleted, live.text, j, live.lastAt, live.lastOk)
                      /\ Job(j) /\ j.id = live.job.id /\ j.state = s
    <2> DEFINE j == [live.job EXCEPT !.state = s]
    <2>1. Job(j) /\ j.id = live.job.id /\ j.state = s
      BY <1>2, JobGoes
    <2>2. live' = [live EXCEPT !.job = j]
      BY <1>5
    <2> HIDE DEF j
    <2>3. live' = Db(live.work, live.seq, live.jobs, live.owner, live.key, live.deleted,
                     live.text, j, live.lastAt, live.lastOk)
      BY <1>3, <2>2 DEF Db
    <2> QED
      BY <2>1, <2>3
  <1>6. ASSUME NEW t, NEW j, Job(j), Working',
               live' = Db(live.work, live.seq, live.jobs, live.owner, live.key, live.deleted, t, j,
                          live.lastAt, live.lastOk)
        PROVE  More'
    <2>1. /\ live'.work = live.work /\ live'.deleted = live.deleted /\ live'.job = j
          /\ SameRuns(live, live') /\ (live'.key => live.key)
      BY <1>6, DbHas DEF SameRuns
    <2> QED
      BY <1>1, <1>2, <1>6, <2>1, LiveChanges DEF Sound
  <1>7. CASE Claim
    <2>1. PICK j : /\ live' = Db(live.work, live.seq, live.jobs, live.owner, live.key,
                                 live.deleted, live.text, j, live.lastAt, live.lastOk)
                   /\ Job(j) /\ j.id = live.job.id /\ j.state = "running"
      BY <1>5, <1>7 DEF Claim
    <2>2. live'.job.id = live.job.id
      BY <2>1, DbHas
    <2>3. /\ worker' = [at |-> "infers", id |-> live.job.id, base |-> live.job.base,
                        gen |-> gen, stop |-> FALSE]
          /\ ~paused
      BY <1>7 DEF Claim
    <2>4. Worker(worker') /\ worker'.at = "infers" /\ worker'.id = live.job.id
          /\ worker'.gen = gen /\ ~worker'.stop
      BY <2>3 DEF Worker
    <2>5. Working'
      BY <1>1, <2>2, <2>3, <2>4 DEF More, Working
    <2> QED
      BY <1>6, <2>1, <2>5
  <1>8. CASE SaveTranscript
    <2> DEFINE t == live.text + 1
    <2> DEFINE j == [live.job EXCEPT !.state = "complete"]
    <2>1. Job(j) /\ j.state = "complete"
      BY <1>2, JobGoes
    <2>2. live' = [live EXCEPT !.text = t, !.job = j] /\ worker' = Idle
      BY <1>8 DEF SaveTranscript
    <2> HIDE DEF t, j
    <2>3. live' = Db(live.work, live.seq, live.jobs, live.owner, live.key, live.deleted, t, j,
                     live.lastAt, live.lastOk)
      BY <1>3, <2>2 DEF Db
    <2>4. live'.job.state # "running"
      BY <2>1, <2>3, DbHas
    <2>5. Working'
      BY <1>1, <1>4, <2>2, <2>4 DEF More, Working
    <2> QED
      BY <1>6, <2>1, <2>3, <2>5
  <1>9. CASE FailJob
    <2>1. worker.at = "infers" /\ worker' = Idle
      BY <1>9 DEF FailJob
    <2>2. CASE live' = [live EXCEPT !.job.state = "failed"]
      <3>1. PICK j : /\ live' = Db(live.work, live.seq, live.jobs, live.owner, live.key,
                                   live.deleted, live.text, j, live.lastAt, live.lastOk)
                     /\ Job(j) /\ j.id = live.job.id /\ j.state = "failed"
        BY <1>5, <2>2
      <3>2. live'.job.state # "running"
        BY <3>1, DbHas
      <3>3. Working'
        BY <1>1, <1>4, <2>1, <3>2 DEF More, Working
      <3> QED
        BY <1>6, <3>1, <3>3
    <2>3. CASE live' = live /\ ~(live.job.id = worker.id /\ live.job.state = "running")
      <3>1. Working'
        BY <1>1, <1>4, <2>1, <2>3 DEF More, Working
      <3> QED
        BY <1>2, <1>3, <1>6, <2>3, <3>1
    <2> QED
      BY <1>9, <2>2, <2>3 DEF FailJob
  <1> QED
    BY <1>7, <1>8, <1>9
-----------------------------------------------------------------------------
LEMMA ArchiveBeginsToo ==
  ASSUME SwapInv, More, Tick \/ Now
  PROVE  More'
  <1>1. /\ up /\ op.at = "none" /\ Database(live) /\ busy' = "archive"
        /\ UNCHANGED <<live, asides, stage, tree, bucket, acked, gen, left, day, up, worker,
                       paused>>
    BY Reserved DEF Tick, Now, Reserve, disk, ghosts, told, Moving
  <1>2. op'.at = "put" /\ op'.db = live
    BY DEF Tick, Now, BeginArchive, Counted, NoOp
  <1>3. Sound(live, Listed) /\ Listed' = Listed
    BY <1>1, DatabaseIsThere DEF More, Copies, Listed
  <1>4. Copies' /\ Answered'
    BY <1>1, <1>2, <1>3 DEF More, Copies, Answered, Held, Filing, Moving, Staged
  <1>5. Working' /\ Cleaning' /\ Telling'
    BY <1>1, <1>2 DEF More, Working, Cleaning, Telling, Frozen, Begun
  <1> QED
    BY <1>4, <1>5 DEF More

(* An archive's end; only one that is in the bucket is the last good one.  *)
LEMMA ArchiveEndsToo ==
  ASSUME SwapInv, More, up, op.at \in Filing, NEW ok \in BOOLEAN, EndArchive(ok),
         UNCHANGED <<asides, stage, tree, acked, gen, left, day, up, worker, paused>>,
         \/ bucket' = bucket /\ ~ok
         \/ bucket' = bucket \cup {[n |-> op.n, db |-> op.db]}
  PROVE  More'
  <1>1. /\ op.at \notin Moving /\ op.at \notin Frozen /\ Database(live)
        /\ live # None /\ Sound(live, Listed) /\ Sound(op.db, Listed)
    BY Reserved, DatabaseIsThere DEF SwapInv, More, Copies, Filing, Frozen
  <1>2. op'.at = "none" /\ busy' = "free" /\ live' = Recorded(live, op.n, ok)
    BY Over DEF EndArchive
  <1>3. /\ Database(live') /\ live'.work = live.work /\ live'.deleted = live.deleted
        /\ live'.job = live.job /\ live'.lastOk = IF ok THEN op.n ELSE live.lastOk
    <2> DEFINE c == Recorded(live, op.n, ok)
    <2>1. Database(c)
      BY <1>1, Made
    <2>2. /\ SameWork(live, c) /\ SameFile(live, c) /\ SameJob(live, c)
          /\ c.lastOk = IF ok THEN op.n ELSE live.lastOk
      BY <1>1, Kept DEF Sound
    <2> HIDE DEF c
    <2> QED
      BY <1>2, <2>1, <2>2 DEF SameWork, SameFile, SameJob, c
  <1>4. Listed \subseteq Listed' /\ (ok => op.n \in Listed')
    <2>1. bucket \subseteq bucket'
      OBVIOUS
    <2>2. CASE ok
      <3> DEFINE new == [n |-> op.n, db |-> op.db]
      <3>1. new \in bucket' /\ new.n = op.n
        BY <2>2
      <3> HIDE DEF new
      <3> QED
        BY <2>1, <3>1 DEF Listed
    <2> QED
      BY <2>1, <2>2 DEF Listed
  <1>5. Sound(live', Listed')
    BY <1>1, <1>3, <1>4 DEF Sound
  <1>6. \A a \in bucket' : Sound(a.db, Listed')
    <2>1. \A a \in bucket : Sound(a.db, Listed')
      BY <1>4 DEF More, Copies, Sound
    <2>2. Sound(op.db, Listed')
      BY <1>1, <1>4 DEF Sound
    <2> QED
      BY <2>1, <2>2
  <1>7. Copies'
    BY <1>2, <1>5, <1>6 DEF Copies, Filing, Moving, Staged
  <1>8. Answered'
    <2>1. live' # None
      BY <1>3, DatabaseIsThere
    <2> QED
      BY <1>1, <1>2, <1>3, <2>1 DEF More, Answered, Held, WorkIn, Moving
  <1>9. Working' /\ Cleaning' /\ Telling'
    <2>1. op.at # "drain"
      BY <1>1 DEF Frozen
    <2> QED
      BY <1>1, <1>2, <1>3, <2>1 DEF More, Working, Cleaning, Telling, Frozen, Begun
  <1> QED
    BY <1>7, <1>8, <1>9 DEF More

LEMMA ArchivingToo ==
  ASSUME SwapInv, More, PutArchive \/ PutManifest
  PROVE  More'
  <1>1. CASE PutArchive
    <2>1. /\ up /\ op.at = "put"
          /\ UNCHANGED <<asides, stage, tree, bucket, acked, gen, left, day, up, worker, paused>>
      BY <1>1 DEF PutArchive, ghosts, told, counts
    <2>2. CASE EndArchive(FALSE)
      <3> DEFINE ok == FALSE
      <3>1. ok \in BOOLEAN /\ ~ok /\ EndArchive(ok)
        BY <2>2
      <3> HIDE DEF ok
      <3> QED
        BY <2>1, <3>1, ArchiveEndsToo DEF Filing
    <2>3. CASE op' = [op EXCEPT !.at = "manifest"] /\ UNCHANGED <<live, known, busy>>
      <3>1. op'.at = "manifest" /\ op'.db = op.db
        BY <2>3, OpGoes DEF SwapInv, Operation
      <3>2. Copies' /\ Answered'
        BY <2>1, <2>3, <3>1 DEF More, Copies, Answered, Held, Filing, Moving, Staged, Listed
      <3>3. Working' /\ Cleaning' /\ Telling'
        BY <2>1, <2>3, <3>1 DEF More, Working, Cleaning, Telling, Frozen, Begun
      <3> QED
        BY <3>2, <3>3 DEF More
    <2> QED
      BY <1>1, <2>2, <2>3 DEF PutArchive
  <1>2. CASE PutManifest
    <2>1. /\ up /\ op.at = "manifest"
          /\ UNCHANGED <<asides, stage, tree, acked, gen, left, day, up, worker, paused>>
      BY <1>2 DEF PutManifest, ghosts, told, counts
    <2>2. PICK ok \in BOOLEAN :
            /\ EndArchive(ok)
            /\ \/ bucket' = bucket \cup {[n |-> op.n, db |-> op.db]}
               \/ bucket' = bucket /\ ~ok
      BY <1>2 DEF PutManifest
    <2> QED
      BY <2>1, <2>2, ArchiveEndsToo DEF Filing
  <1> QED
    BY <1>1, <1>2

-----------------------------------------------------------------------------
(* The restore, up to the swap.                                            *)
LEMMA RestoreBeginsToo ==
  ASSUME SwapInv, More, RestoreNow \/ Prepare
  PROVE  More'
  <1>1. CASE RestoreNow
    <2>1. /\ up /\ op.at = "none" /\ busy' = "restore"
          /\ UNCHANGED <<live, asides, stage, tree, bucket, acked, gen, left, day, up, worker,
                         paused>>
      BY <1>1, Reserved DEF RestoreNow, Reserve, disk, ghosts, told
    <2>2. op'.at = "prepare" /\ op'.gen = gen /\ op'.tree = tree /\ op'.fail = "no"
      BY <1>1 DEF RestoreNow, NoOp
    <2>3. Copies' /\ Answered'
      BY <2>1, <2>2 DEF More, Copies, Answered, Held, Filing, Moving, Staged, Listed
    <2>4. Working' /\ Cleaning' /\ Telling'
      BY <2>1, <2>2 DEF More, Working, Cleaning, Telling, Frozen, Begun
    <2> QED
      BY <2>3, <2>4 DEF More
  <1>2. CASE Prepare
    <2>1. /\ up /\ op.at = "prepare" /\ Op(op)
          /\ UNCHANGED <<live, asides, tree, bucket, acked, gen, left, day, up, worker, paused,
                         busy>>
      BY <1>2 DEF Prepare, ghosts, told, counts, SwapInv, Operation
    <2>2. gen = op.gen /\ tree = op.tree /\ op.fail = "no"
      BY <2>1 DEF More, Telling, Begun
    <2>3. /\ op'.gen = op.gen /\ op'.tree = op.tree
          /\ \/ op'.at = "finish" /\ op'.fail = "nothing"
             \/ op'.at = "freeze" /\ op'.fail = "no" /\ Sound(stage', Listed)
      <3>1. CASE Fails("nothing")
        <4>1. op' = Saying(op, "finish", "nothing")
          BY <3>1 DEF Fails, Saying
        <4> QED
          BY <2>1, <4>1, OpSays
      <3>2. CASE \E db \in Unpacked(op.n) :
                   stage' = Cleaned(db) /\ op' = [op EXCEPT !.at = "freeze"]
        <4>1. PICK a \in bucket : stage' = Cleaned(a.db) /\ op' = [op EXCEPT !.at = "freeze"]
          BY <3>2 DEF Unpacked
        <4>2. Database(a.db) /\ Sound(a.db, Listed)
          BY DEF SwapInv, Older, More, Copies
        <4>3. Sound(stage', Listed)
          BY <4>1, <4>2, Kept DEF Sound, SameWork, SameRuns, SameFile, SameJob
        <4> QED
          BY <2>1, <2>2, <4>1, <4>3, OpGoes
      <3> QED
        BY <1>2, <3>1, <3>2 DEF Prepare
    <2>4. Copies' /\ Answered'
      BY <2>1, <2>3 DEF More, Copies, Answered, Held, Filing, Moving, Staged, Listed
    <2>5. Working' /\ Cleaning'
      BY <2>1, <2>3 DEF More, Working, Cleaning, Frozen
    <2>6. Telling'
      BY <2>1, <2>2, <2>3 DEF More, Telling, Begun, Words
    <2> QED
      BY <2>4, <2>5, <2>6 DEF More
  <1> QED
    BY <1>1, <1>2

LEMMA RestoreWaitsToo ==
  ASSUME SwapInv, More, Freeze \/ Drain
  PROVE  More'
  <1>1. /\ up /\ op.at \in {"freeze", "drain"} /\ Op(op)
        /\ UNCHANGED <<live, asides, stage, tree, bucket, acked, gen, left, day, up, busy>>
    BY DEF Freeze, Drain, disk, ghosts, told, counts, SwapInv, Operation
  <1>2. gen = op.gen /\ tree = op.tree /\ op.fail = "no"
    BY <1>1 DEF More, Telling, Begun
  <1>3. CASE Freeze
    <2>1. /\ op.at = "freeze" /\ op' = [op EXCEPT !.at = "drain"] /\ paused'
          /\ worker' = [worker EXCEPT !.stop = worker.at # "idle"]
      BY <1>3 DEF Freeze
    <2>2. /\ op'.at = "drain" /\ op'.gen = op.gen /\ op'.tree = op.tree /\ op'.fail = op.fail
      BY <1>1, <2>1, OpGoes
    <2>3. /\ Worker(worker') /\ worker'.at = worker.at /\ worker'.gen = worker.gen
          /\ (worker'.stop => worker.at # "idle")
      <3>1. worker' = [at |-> worker.at, id |-> worker.id, base |-> worker.base,
                       gen |-> worker.gen, stop |-> worker.at # "idle"]
        BY <2>1 DEF More, Working, Worker
      <3> QED
        BY <3>1 DEF Worker
    <2>4. Copies' /\ Answered'
      BY <1>1, <2>1, <2>2 DEF More, Copies, Answered, Held, Filing, Moving, Staged, Listed
    <2>5. Working' /\ Cleaning' /\ Telling'
      BY <1>1, <1>2, <2>1, <2>2, <2>3 DEF More, Working, Cleaning, Telling, Frozen, Begun
    <2> QED
      BY <2>4, <2>5 DEF More
  <1>4. CASE Drain
    <2>1. /\ op.at = "drain" /\ worker.at = "idle" /\ UNCHANGED <<worker, paused>>
          /\ op' = [op EXCEPT !.at = "swap"] \/ op' = Saying(op, "resume", "nothing")
      BY <1>4 DEF Drain, Saying
    <2>2. /\ op'.gen = op.gen /\ op'.tree = op.tree
          /\ \/ op'.at = "swap" /\ op'.fail = "no"
             \/ op'.at = "resume" /\ op'.fail = "nothing"
      <3>1. CASE op' = [op EXCEPT !.at = "swap"]
        BY <1>1, <1>2, <3>1, OpGoes
      <3>2. CASE op' = Saying(op, "resume", "nothing")
        BY <1>1, <1>2, <3>2, OpSays
      <3> QED
        BY <2>1, <3>1, <3>2
    <2>3. Copies' /\ Answered'
      BY <1>1, <2>1, <2>2 DEF More, Copies, Answered, Held, Filing, Moving, Staged, Listed
    <2>4. Working' /\ Cleaning' /\ Telling'
      BY <1>1, <1>2, <2>1, <2>2
        DEF More, Working, Cleaning, Telling, Frozen, Begun, Words
    <2> QED
      BY <2>3, <2>4 DEF More
  <1> QED
    BY <1>3, <1>4

(* What was aside is back in place; what was in its place had no answers   *)
(* of its own.                                                             *)
LEMMA BackAgainToo ==
  ASSUME SwapInv, More, up, op.at \in Moving, PutBack,
         UNCHANGED <<tree, bucket, acked, gen, left, day, up, busy, worker, paused>>
  PROVE  More'
  <1>1. /\ Op(op) /\ Database(op.db) /\ Sound(op.db, Listed) /\ Listed' = Listed
        /\ gen = op.gen /\ tree = op.tree
    BY DEF SwapInv, Operation, More, Copies, Telling, Moving, Begun, Listed
  <1>2. /\ live' = op.db /\ asides' = asides \ {op.db.work}
        /\ op' = Saying(op, "resume", "nothing")
    BY DEF PutBack, Saying
  <1>3. /\ op'.at = "resume" /\ op'.fail = "nothing" /\ op'.gen = op.gen /\ op'.tree = op.tree
    BY <1>1, <1>2, OpSays
  <1>4. Copies'
    BY <1>1, <1>2, <1>3 DEF More, Copies, Filing, Moving, Staged
  <1>5. Answered'
    <2>1. acked \subseteq UNION asides
      BY DEF More, Answered, Held
    <2>2. UNION asides \subseteq op.db.work \cup UNION asides'
      BY <1>2
    <2>3. Held' = op.db.work
      BY <1>1, <1>2, <1>3, DatabaseIsThere DEF Held, WorkIn, Moving
    <2> QED
      BY <2>1, <2>2, <2>3 DEF Answered
  <1>6. Working' /\ Cleaning'
    BY <1>3 DEF More, Working, Cleaning, Frozen, Moving, SwapInv, Operation, Filing
  <1>7. Telling'
    BY <1>1, <1>3 DEF More, Telling, Begun, Words
  <1> QED
    BY <1>4, <1>5, <1>6, <1>7 DEF More

LEMMA SwapsToo ==
  ASSUME SwapInv, SwapInv', More, SwapOut \/ SwapIn \/ SwapOpen
  PROVE  More'
  <1>1. /\ up /\ op.at \in {"swap", "moving", "opening"} /\ Op(op) /\ busy = "restore"
        /\ UNCHANGED <<tree, bucket, acked, day, up, busy, worker, paused>>
        /\ op.fail = "no" /\ gen = op.gen /\ tree = op.tree /\ Listed' = Listed
    BY DEF SwapOut, SwapIn, SwapOpen, ghosts, told, counts, SwapInv, Operation, Filing,
           More, Telling, Begun, Listed
  <1>2. CASE PutBack /\ UNCHANGED <<gen, left>> /\ op.at # "swap"
    BY <1>1, <1>2, BackAgainToo DEF Moving
  <1>3. CASE /\ op.at = "swap" /\ UNCHANGED <<live, asides, stage, gen, left>>
             /\ op' = [op EXCEPT !.at = "resume", !.fail = "nothing"]
    <2>1. op' = Saying(op, "resume", "nothing")
      BY <1>3 DEF Saying
    <2>2. /\ op'.at = "resume" /\ op'.fail = "nothing" /\ op'.gen = op.gen /\ op'.tree = op.tree
      BY <1>1, <2>1, OpSays
    <2>3. Copies' /\ Answered'
      BY <1>1, <1>3, <2>2 DEF More, Copies, Answered, Held, Filing, Moving, Staged
    <2>4. Working' /\ Cleaning'
      BY <1>1, <1>3, <2>2 DEF More, Working, Cleaning, Frozen
    <2>5. Telling'
      BY <1>1, <1>3, <2>2 DEF More, Telling, Begun, Words
    <2> QED
      BY <2>3, <2>4, <2>5 DEF More
  <1>4. CASE /\ op.at = "swap" /\ op' = [op EXCEPT !.at = "moving", !.db = live]
             /\ asides' = asides \cup {live.work} /\ live' = None /\ UNCHANGED <<stage, gen, left>>
    <2>1. op' = Taking(op, "moving", live)
      BY <1>4 DEF Taking
    <2>2. /\ op'.at = "moving" /\ op'.db = live /\ op'.fail = "no"
          /\ op'.gen = op.gen /\ op'.tree = op.tree
      BY <1>1, <2>1, OpTakes
    <2>3. live # None /\ Sound(live, Listed)
      BY <1>1, <1>4, DatabaseIsThere DEF SwapInv, Live, More, Copies
    <2>4. Copies'
      BY <1>1, <1>4, <2>2, <2>3 DEF More, Copies, Filing, Moving, Staged
    <2>5. Answered'
      BY <1>1, <1>4, <2>2, <2>3 DEF More, Answered, Held, WorkIn, Moving
    <2>6. Working' /\ Cleaning'
      BY <1>1, <1>4, <2>2 DEF More, Working, Cleaning, Frozen
    <2>7. Telling'
      BY <1>1, <1>4, <2>2 DEF More, Telling, Begun
    <2> QED
      BY <2>4, <2>5, <2>6, <2>7 DEF More
  <1>5. CASE /\ op.at = "moving" /\ live' = stage /\ stage' = None
             /\ op' = [op EXCEPT !.at = "opening"] /\ UNCHANGED <<asides, gen, left>>
    <2>1. /\ op'.at = "opening" /\ op'.db = op.db /\ op'.fail = "no"
          /\ op'.gen = op.gen /\ op'.tree = op.tree
      BY <1>1, <1>5, OpGoes
    <2>2. Copies'
      BY <1>1, <1>5, <2>1 DEF More, Copies, Filing, Moving, Staged
    <2>3. Answered'
      BY <1>1, <1>5, <2>1 DEF More, Answered, Held, Moving
    <2>4. Working' /\ Cleaning'
      BY <1>1, <1>5, <2>1 DEF More, Working, Cleaning, Frozen
    <2>5. Telling'
      BY <1>1, <1>5, <2>1 DEF More, Telling, Begun
    <2> QED
      BY <2>2, <2>3, <2>4, <2>5 DEF More
  <1>6. CASE /\ op.at = "opening" /\ live' = KeepSequences(live, op.db) /\ gen' = gen + 1
             /\ op' = [op EXCEPT !.at = "after"] /\ UNCHANGED <<asides, stage, left>>
    <2>1. /\ op'.at = "after" /\ op'.fail = "no" /\ op'.gen = op.gen
      BY <1>1, <1>6, OpGoes
    <2>2. Database(live) /\ Sound(live, Listed) /\ ~live.key
      BY <1>1, <1>6, DatabaseIsThere DEF SwapInv, Live, Keyless, More, Copies
    <2>3. /\ SameRuns(live, live') /\ SameFile(live, live') /\ SameJob(live, live')
          /\ live'.key = live.key
      <3>1. live'.key = live.key
        BY <1>1, <1>6, <2>2, Made DEF SwapInv, Operation, Moving
      <3>2. Job(live.job)
        BY <2>2 DEF Sound
      <3> QED
        BY <1>6, <2>2, <3>1, <3>2, Kept
    <2>4. Copies'
      BY <1>1, <1>6, <2>1, <2>2, <2>3
        DEF More, Copies, Sound, SameRuns, SameFile, SameJob, Filing, Moving, Staged
    <2>5. Answered'
      BY <1>1, <1>6, <2>1 DEF More, Answered, Held, Moving
    <2>6. Working' /\ Cleaning'
      BY <1>1, <1>6, <2>1 DEF More, Working, Cleaning, Frozen
    <2>7. Telling'
      BY <1>1, <1>6, <2>1, <2>2, <2>3 DEF More, Telling, Begun
    <2> QED
      BY <2>4, <2>5, <2>6, <2>7 DEF More
  <1> QED
    BY <1>2, <1>3, <1>4, <1>5, <1>6 DEF SwapOut, SwapIn, SwapOpen, ghosts, told

(* The restore after the swap, until the page has been told.               *)
LEMMA RestoreEndsToo ==
  ASSUME SwapInv, SwapInv', More, AfterSwap \/ Resume \/ Finish
  PROVE  More'
  <1>1. /\ up /\ op.at \in {"after", "resume", "finish"} /\ Op(op) /\ busy = "restore"
        /\ UNCHANGED <<asides, bucket, acked, gen, day, up, worker>> /\ Listed' = Listed
    BY DEF AfterSwap, Resume, Finish, ghosts, told, counts, SwapInv, Operation, Filing, Listed
  <1>2. /\ Database(live) /\ live # None /\ Sound(live, Listed) /\ op.at \notin Moving
    BY <1>1, Reserved, DatabaseIsThere DEF More, Copies, Moving
  <1>3. CASE AfterSwap
    <2>1. PICK done \in {"nothing", "settings", "tree", "all"} :
            /\ known' = IF done = "nothing" THEN known ELSE live.lastAt
            /\ tree' = IF done \in {"tree", "all"} THEN gen ELSE tree
            /\ live' = IF done = "all" THEN [live EXCEPT !.seq = @ + 1] ELSE live
            /\ op' = Saying(op, "resume", IF done = "all" THEN "no" ELSE "partly")
      BY <1>3 DEF AfterSwap, Saying
    <2>2. op.at = "after" /\ UNCHANGED <<stage, busy, paused, mirror, left>>
      BY <1>3 DEF AfterSwap, ghosts, told
    <2>3. /\ op'.at = "resume" /\ op'.gen = op.gen
          /\ op'.fail = IF done = "all" THEN "no" ELSE "partly"
      BY <1>1, <2>1, OpSays
    <2>4. /\ SameWork(live, live') /\ SameRuns(live, live') /\ SameFile(live, live')
          /\ SameJob(live, live') /\ live'.key = live.key
      <3> DEFINE s == live.seq + 1
      <3>1. live' = live \/ live' = [live EXCEPT !.seq = s]
        BY <2>1
      <3> HIDE DEF s
      <3>2. \/ live' = live
            \/ live' = Db(live.work, s, live.jobs, live.owner, live.key, live.deleted,
                          live.text, live.job, live.lastAt, live.lastOk)
        BY <1>2, <3>1 DEF Database, Db
      <3> QED
        BY <3>2, DbHas DEF SameWork, SameRuns, SameFile, SameJob
    <2>5. live' # None
      BY <1>1, <2>3, DatabaseIsThere DEF SwapInv, Live
    <2>6. Sound(live', Listed)
      BY <1>2, <2>4 DEF Sound, SameRuns, SameFile, SameJob
    <2>7. Copies' /\ Answered'
      BY <1>1, <1>2, <2>3, <2>4, <2>5, <2>6
        DEF More, Copies, Answered, Held, WorkIn, SameWork, Filing, Moving, Staged
    <2>8. Working' /\ Cleaning'
      BY <1>1, <2>2, <2>3 DEF More, Working, Cleaning, Frozen
    <2>9. Telling'
      BY <1>1, <2>1, <2>2, <2>3, <2>4 DEF More, Telling, SameRuns, Begun, Words
    <2> QED
      BY <2>7, <2>8, <2>9 DEF More
  <1>4. CASE Resume
    <2>1. PICK watches \in BOOLEAN, verified \in Verified, recovered \in BOOLEAN :
            /\ mirror' = (mirror /\ watches)
            /\ live' = IF recovered THEN Recover(live) ELSE live
            /\ left' = IF ~recovered /\ live.job.state = "running" THEN live.job.id ELSE 0
            /\ op' = Saying(op, "finish", IF mirror' /\ verified /\ recovered THEN op.fail
                                          ELSE IF gen # op.gen THEN "partly" ELSE "nothing")
      BY <1>4 DEF Resume, Saying
    <2>2. op.at = "resume" /\ UNCHANGED <<stage, tree, busy, known>>
      BY <1>4 DEF Resume
    <2>3. /\ op'.at = "finish" /\ op'.gen = op.gen /\ op'.tree = op.tree
          /\ \/ op'.fail = op.fail /\ mirror' /\ left' = 0
             \/ op'.fail = "partly" /\ gen # op.gen
             \/ op'.fail = "nothing" /\ gen = op.gen
      BY <1>1, <2>1, OpSays
    <2>4. /\ SameWork(live, live') /\ SameRuns(live, live') /\ SameFile(live, live')
          /\ Job(live'.job) /\ (Quiet(live') \/ live'.job.id = left')
          /\ live'.key = live.key /\ live' # None
      <3>1. CASE live' = Recover(live)
        <4>1. live'.key = live.key /\ live' # None
          BY <1>2, <3>1, Made, DatabaseIsThere
        <4> QED
          BY <1>2, <3>1, <4>1, Kept DEF Sound
      <3>2. CASE live' = live /\ left' = IF live.job.state = "running" THEN live.job.id ELSE 0
        BY <1>2, <3>2 DEF Sound, SameWork, SameRuns, SameFile, Quiet
      <3> QED
        BY <2>1, <3>1, <3>2
    <2>5. Sound(live', Listed)
      BY <1>2, <2>4 DEF Sound, SameRuns, SameFile
    <2>6. Copies' /\ Answered'
      BY <1>1, <1>2, <2>3, <2>4, <2>5
        DEF More, Copies, Answered, Held, WorkIn, SameWork, Filing, Moving, Staged
    <2>7. Working' /\ Cleaning'
      BY <1>1, <2>2, <2>3, <2>4 DEF More, Working, Cleaning, Frozen, Quiet
    <2>8. Telling'
      <3>1. /\ op.fail \in Words /\ gen \in Nat
            /\ op.fail = "nothing" => gen = op.gen /\ tree = op.tree
            /\ op.fail = "partly" => gen = op.gen + 1
            /\ op.fail = "no" => gen = op.gen + 1 /\ tree = gen /\ known = live.lastAt /\ ~live.key
        BY <2>2 DEF More, Telling
      <3>2. op.gen = gen \/ (gen = op.gen + 1 /\ op.fail # "nothing")
        BY <3>1 DEF Words
      <3> QED
        BY <1>1, <2>2, <2>3, <2>4, <3>1, <3>2 DEF More, Telling, SameRuns, Begun, Words
    <2> QED
      BY <2>6, <2>7, <2>8 DEF More
  <1>5. CASE Finish
    <2>1. /\ op'.at = "none" /\ busy' = "free" /\ UNCHANGED <<live, tree, paused, left>>
          /\ op.at = "finish"
      BY <1>5, Over DEF Finish, ghosts, told
    <2>2. Copies' /\ Answered'
      BY <1>1, <1>2, <2>1 DEF More, Copies, Answered, Held, Filing, Moving, Staged
    <2>3. Working' /\ Cleaning' /\ Telling'
      BY <1>1, <2>1 DEF More, Working, Cleaning, Telling, Frozen, Begun
    <2> QED
      BY <2>2, <2>3 DEF More
  <1> QED
    BY <1>3, <1>4, <1>5

(* The process dies and comes back.                                        *)
LEMMA CrashesToo ==
  ASSUME SwapInv, SwapInv', More, Crash \/ Start
  PROVE  More'
  <1>1. Worker(Idle) /\ Idle.at = "idle" /\ ~Idle.stop
    BY DEF Idle, Worker
  <1>2. CASE Crash
    <2>1. /\ ~up' /\ busy' = "free" /\ op'.at = "none" /\ worker' = Idle
          /\ UNCHANGED <<live, asides, stage, bucket, acked, day>>
          /\ gen' = gen \/ gen' = gen + 1
      BY <1>2, Over DEF Crash, disk
    <2>2. Copies'
      BY <2>1 DEF More, Copies, Filing, Moving, Staged, Listed
    <2>3. Answered'
      BY <2>1 DEF More, Answered, Held, Moving
    <2>4. Working' /\ Cleaning' /\ Telling'
      BY <1>1, <2>1 DEF More, Working, Cleaning, Telling, Frozen, Begun
    <2> QED
      BY <2>2, <2>3, <2>4 DEF More
  <1>3. CASE Start
    <2>1. /\ ~up /\ up' /\ op.at = "none" /\ op' = op /\ busy = "free" /\ busy' = busy
          /\ UNCHANGED <<asides, bucket, acked, day, gen, worker, paused>>
          /\ live' = IF live = None THEN EmptyDatabase ELSE Recover(live)
      BY <1>3 DEF Start, Swept, ghosts, told, counts, SwapInv, Operation, More, Cleaning
    <2>2. /\ live' # None /\ WorkIn(live) \subseteq WorkIn(live')
          /\ Sound(live', Listed) /\ Quiet(live')
      <3>1. CASE live = None
        <4> DEFINE k == FALSE
        <4> DEFINE z == 0
        <4>1. /\ live' = [work |-> {}, seq |-> z, jobs |-> z, owner |-> k, key |-> k,
                          deleted |-> z, text |-> z, job |-> NoJob, lastAt |-> z, lastOk |-> z]
              /\ z \in Nat /\ z = 0
          BY <2>1, <3>1 DEF EmptyDatabase, NewDatabase
        <4> HIDE DEF k, z
        <4>2. live'.deleted = z /\ live'.job = NoJob /\ live'.lastOk = z
          BY <4>1
        <4>3. Job(NoJob) /\ NoJob.state # "running"
          BY DEF NoJob, Job
        <4>4. live' # None
          BY <2>1, DatabaseIsThere DEF SwapInv, Live
        <4> QED
          BY <3>1, <4>1, <4>2, <4>3, <4>4 DEF Sound, Quiet, WorkIn
      <3>2. CASE live # None
        <4>1. Database(live) /\ Sound(live, Listed) /\ live' = Recover(live)
          BY <2>1, <3>2 DEF SwapInv, Live, More, Copies
        <4>2. Job(live.job)
          BY <4>1 DEF Sound
        <4>3. /\ SameWork(live, live') /\ SameRuns(live, live') /\ SameFile(live, live')
              /\ Job(live'.job) /\ Quiet(live')
          BY <4>1, <4>2, Kept
        <4>4. live' # None
          BY <4>1, Made, DatabaseIsThere
        <4> QED
          BY <3>2, <4>1, <4>3, <4>4 DEF Sound, SameWork, SameRuns, SameFile, WorkIn
      <3> QED
        BY <3>1, <3>2
    <2>3. Copies'
      BY <2>1, <2>2 DEF More, Copies, Filing, Moving, Staged, Listed
    <2>4. Answered'
      BY <2>1, <2>2 DEF More, Answered, Held, Moving
    <2>5. Working' /\ Cleaning' /\ Telling'
      BY <2>1, <2>2 DEF More, Working, Cleaning, Telling, Frozen, Begun, Quiet
    <2> QED
      BY <2>3, <2>4, <2>5 DEF More
  <1> QED
    BY <1>2, <1>3
-----------------------------------------------------------------------------
LEMMA MoreSteps == SwapInv /\ More /\ [Next]_vars => More'
  <1> SUFFICES ASSUME SwapInv, More, [Next]_vars PROVE More'
    OBVIOUS
  <1>1. SwapInv'
    BY Steps
  <1>2. CASE Serve
    BY <1>1, <1>2, ArchiveBeginsToo, ArchivingToo, OthersToo, RestoreBeginsToo, RestoreWaitsToo,
       SwapsToo, RestoreEndsToo, WritesToo, WorkerToo, CrashesToo
      DEF Serve
  <1>3. CASE Ask
    BY <1>1, <1>3, ArchiveBeginsToo, OthersToo, RestoreBeginsToo, WritesToo, RequestsToo DEF Ask
  <1>4. CASE NextDay \/ UNCHANGED vars
    BY <1>4, OthersToo
  <1>5. CASE Crash
    BY <1>1, <1>5, CrashesToo
  <1> QED
    BY <1>2, <1>3, <1>4, <1>5 DEF Next

LEMMA Safe ==
  ASSUME SwapInv, More
  PROVE  RestoreSafe
  <1>1. WayBack
    BY DEF WayBack, More, Answered, Held
  <1>2. OkIsThere
    BY DEF OkIsThere, More, Copies, Sound, Listed
  <1>3. NoneStranded
    <2>1. busy # "restore" => op.at \notin Frozen
      BY DEF SwapInv, Operation, Frozen, Filing
    <2> QED
      BY <2>1 DEF NoneStranded, More, Working
  <1> QED
    BY <1>1, <1>2, <1>3 DEF RestoreSafe

(* Only cleanup deletes the object.                                        *)
LEMMA OneDeletes ==
  ASSUME [Next]_vars, object' # object
  PROVE  EndCleanup
  <1>1. CASE Serve
    BY <1>1 DEF Serve, Tick, PutArchive, PutManifest, VerifyEnds, Prepare, Freeze, Drain, SwapOut,
       SwapIn, SwapOpen, AfterSwap, Resume, Finish, CommitWrite, Claim, SaveTranscript, FailJob,
       StopJob, Start, WorkerOnly, disk
  <1>2. CASE Ask
    BY <1>2 DEF Ask, Now, VerifyNow, RestoreNow, BeginWrite, RevokeKey, DeleteFile, RestoreDeleted,
       BeginCleanup, QueueTranscription, EditTranscript, LiveOnly, disk
  <1>3. CASE NextDay \/ Crash \/ UNCHANGED vars
    BY <1>3 DEF NextDay, Crash, vars, disk
  <1> QED
    BY <1>1, <1>2, <1>3 DEF Next

(* Only Finish ends a restore of a server that goes on.                    *)
LEMMA OneTells ==
  ASSUME SwapInv, [Next]_vars, up', busy = "restore", busy' = "free"
  PROVE  Finish
  <1>1. CASE Serve
    BY <1>1 DEF Serve, Tick, PutArchive, PutManifest, VerifyEnds, Prepare, Freeze, Drain, SwapOut,
       SwapIn, SwapOpen, AfterSwap, Resume, CommitWrite, EndCleanup, Claim, SaveTranscript,
       FailJob, StopJob, Start, WorkerOnly, Reserve, SwapInv, Operation, Filing
  <1>2. CASE Ask
    BY <1>2 DEF Ask, Now, VerifyNow, RestoreNow, BeginWrite, RevokeKey, DeleteFile, RestoreDeleted,
       BeginCleanup, QueueTranscription, EditTranscript, LiveOnly, Reserve
  <1>3. CASE NextDay \/ Crash \/ UNCHANGED vars
    BY <1>3 DEF NextDay, Crash, vars, process
  <1> QED
    BY <1>1, <1>2, <1>3 DEF Next

(* Where the worker's run may end.                                         *)
LEMMA RunEnds ==
  ASSUME [Next]_vars, worker.at = "infers", worker'.at = "idle"
  PROVE  SaveTranscript \/ FailJob \/ StopJob \/ Crash \/ Freeze
  <1>1. CASE Serve
    BY <1>1 DEF Serve, Tick, PutArchive, PutManifest, VerifyEnds, Prepare, Drain, SwapOut, SwapIn,
       SwapOpen, AfterSwap, Resume, Finish, CommitWrite, EndCleanup, Claim, Start
  <1>2. CASE Ask
    BY <1>2 DEF Ask, Now, VerifyNow, RestoreNow, BeginWrite, RevokeKey, DeleteFile, RestoreDeleted,
       BeginCleanup, QueueTranscription, EditTranscript, LiveOnly
  <1>3. CASE NextDay \/ UNCHANGED vars
    BY <1>3 DEF NextDay, vars, process
  <1> QED
    BY <1>1, <1>2, <1>3 DEF Next

LEMMA Across ==
  ASSUME SwapInv, More, [Next]_vars
  PROVE  /\ object /\ ~object' => live # None /\ live.deleted # 0 /\ day >= live.deleted + Grace
         /\ worker.at = "infers" /\ worker'.at = "idle" /\ live # None /\ live' # None =>
              (live'.text # live.text => worker.gen = gen /\ live.text = worker.base)
         /\ up' /\ busy = "restore" /\ busy' = "free" =>
              CASE op.fail = "nothing" -> gen = op.gen /\ tree = op.tree
                [] op.fail = "partly"  -> gen = op.gen + 1
                [] op.fail = "no"      -> gen = op.gen + 1 /\ tree = gen /\ known = live.lastAt
                                          /\ mirror /\ ~live.key /\ left = 0
  <1>1. object /\ ~object' => live # None /\ live.deleted # 0 /\ day >= live.deleted + Grace
    <2> SUFFICES ASSUME object, ~object'
                 PROVE  live # None /\ live.deleted # 0 /\ day >= live.deleted + Grace
      OBVIOUS
    <2>1. up /\ busy = "cleanup"
      BY OneDeletes DEF EndCleanup
    <2>2. live # None
      BY <2>1, Reserved, DatabaseIsThere DEF Moving
    <2> QED
      BY <2>1, <2>2 DEF More, Cleaning
  <1>2. ASSUME worker.at = "infers", worker'.at = "idle", live # None, live'.text # live.text
        PROVE  worker.gen = gen /\ live.text = worker.base
    <2>1. CASE SaveTranscript
      BY <1>2, <2>1 DEF SaveTranscript, Saves, More, Working
    <2>2. CASE FailJob
      <3>1. Database(live)
        BY <1>2 DEF SwapInv, Live
      <3> DEFINE j == [live.job EXCEPT !.state = "failed"]
      <3>2. live' = live \/ live' = [live EXCEPT !.job = j]
        BY <2>2 DEF FailJob
      <3> HIDE DEF j
      <3>3. \/ live' = live
            \/ live' = Db(live.work, live.seq, live.jobs, live.owner, live.key, live.deleted,
                          live.text, j, live.lastAt, live.lastOk)
        BY <3>1, <3>2 DEF Database, Db
      <3> QED
        BY <1>2, <3>3, DbHas
    <2>3. CASE StopJob \/ Crash \/ Freeze
      BY <1>2, <2>3 DEF StopJob, Crash, Freeze, disk
    <2> QED
      BY <1>2, <2>1, <2>2, <2>3, RunEnds
  <1>3. ASSUME up', busy = "restore", busy' = "free"
        PROVE  CASE op.fail = "nothing" -> gen = op.gen /\ tree = op.tree
                 [] op.fail = "partly"  -> gen = op.gen + 1
                 [] op.fail = "no"      -> gen = op.gen + 1 /\ tree = gen /\ known = live.lastAt
                                           /\ mirror /\ ~live.key /\ left = 0
    <2>1. op.at = "finish"
      BY <1>3, OneTells DEF Finish
    <2>2. /\ op.fail \in Words
          /\ op.fail = "nothing" => gen = op.gen /\ tree = op.tree
          /\ op.fail = "partly" => gen = op.gen + 1
          /\ op.fail = "no" => gen = op.gen + 1 /\ tree = gen /\ known = live.lastAt
                               /\ mirror /\ ~live.key /\ left = 0
      BY <2>1 DEF More, Telling
    <2> QED
      BY <2>2 DEF Words
  <1> QED
    BY <1>1, <1>2, <1>3

(* Whatever fails or stops, and at whichever step of an archive or of a    *)
(* restore: every answered write is in the database or in a copy a restore *)
(* set aside, the run the settings call good is in the bucket, and no job  *)
(* is running with nobody on it but the one a restore could not recover.   *)
THEOREM RestoreSafeHolds == Spec => []RestoreSafe
  <1>1. SwapInv /\ More => RestoreSafe
    BY Safe
  <1> QED
    BY Initially, InitiallyMore, Steps, MoreSteps, <1>1, PTL DEF Spec

(* A restore under running work: cleanup deletes only what the trash has   *)
(* let go of, a transcript goes into the database its job was claimed in   *)
(* and over no version the job had not seen, and what the restore says of  *)
(* itself is so.                                                           *)
THEOREM AcrossTheSwapHolds == Spec => AcrossTheSwap
  <1>1. SwapInv /\ More /\ [Next]_vars =>
          [object /\ ~object' => live # None /\ live.deleted # 0
                                 /\ day >= live.deleted + Grace]_vars
    BY Across
  <1>2. SwapInv /\ More /\ [Next]_vars =>
          [worker.at = "infers" /\ worker'.at = "idle" /\ live # None /\ live' # None =>
             (live'.text # live.text => worker.gen = gen /\ live.text = worker.base)]_vars
    BY Across
  <1>3. SwapInv /\ More /\ [Next]_vars =>
          [up' /\ busy = "restore" /\ busy' = "free" =>
             CASE op.fail = "nothing" -> gen = op.gen /\ tree = op.tree
               [] op.fail = "partly"  -> gen = op.gen + 1
               [] op.fail = "no"      -> gen = op.gen + 1 /\ tree = gen /\ known = live.lastAt
                                         /\ mirror /\ ~live.key /\ left = 0]_vars
    BY Across
  <1> QED
    BY Initially, InitiallyMore, Steps, MoreSteps, <1>1, <1>2, <1>3, PTL
      DEF Spec, AcrossTheSwap, PurgeSpares, SavedHere, ToldTruly
=============================================================================
