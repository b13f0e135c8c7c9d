---------------------------- MODULE Maintenance ----------------------------
(***************************************************************************)
(* Backup, restore and what they exclude: the nightly archive and its      *)
(* manifest, the restore that swaps the database under a running server,   *)
(* the write gate, the transcription worker the restore has to stop, and   *)
(* the object cleanup and trash recovery that share its reservation        *)
(* (internal/backup, store.DB.Swap, internal/workflow/transcribe.go,       *)
(* internal/files/cleanup.go).                                             *)
(*                                                                         *)
(* A database is a record of what the properties tell apart.  One          *)
(* recording stands for the files.  The process may stop between any two   *)
(* steps; what is on disk and in the buckets stays.                        *)
(***************************************************************************)
EXTENDS Naturals, FiniteSets, FiniteSetsExt

CONSTANTS
  Grace,             \* days a deleted file stays recoverable
  MaxDay, MaxArchives, MaxAsked, MaxCrash   \* bounds

ASSUME MaintenanceAssumption ==
  {Grace, MaxDay, MaxArchives, MaxAsked, MaxCrash} \subseteq Nat

VARIABLES
  live,       \* the database at the live path
  asides,     \* of the databases restores moved aside, the writes each holds
  stage,      \* the database a restore has unpacked and cleaned
  tree,       \* the restore that installed the docs tree in place, 0 none yet
  bucket,     \* the archives stored with their manifests: [n, db]
  object,     \* the recording's object is in its bucket
  up, busy, frozen,
  op,         \* the archive or the restore that is running
  worker,     \* the transcription worker
  paused,     \* the worker is told to stop and not to begin
  mirror,     \* the mirror's goroutine runs
  writer,     \* a request that has passed the write gate
  known,      \* backups.last_at as the settings in memory have it
  day, asked, crashes,
  gen,        \* restores installed
  acked,      \* writes answered
  revoked,    \* the API key was revoked
  torn,       \* the process died while a restore was changing places
  left,       \* the running job that the last restore could not recover
  night       \* whether today a run has begun, or only one of yesterday ended

disk == <<live, asides, stage, tree, bucket, object>>
process == <<up, busy, frozen, op, worker, paused, mirror, writer, known>>
told == <<gen, acked, revoked, torn, left>>
ghosts == <<told, night>>
counts == <<day, asked, crashes>>
vars == <<disk, process, ghosts, counts>>

(* No database at this path.                                               *)
None == [nothing |-> TRUE]

NoJob == [id |-> 0, state |-> "none", base |-> 0]
NoOp == [at |-> "none", n |-> 0, gen |-> 0, tree |-> 0, fail |-> "no", db |-> None]
Idle == [at |-> "idle", id |-> 0, base |-> 0, gen |-> 0, stop |-> FALSE]

(* work: the writes it holds; seq: the highest activity number it has      *)
(* given; jobs: the highest job number; key: the API key works; deleted:   *)
(* the day the recording was deleted, 0 while it is there; text: the       *)
(* transcript's version; lastAt, lastOk: the day of the last run and the   *)
(* run that last succeeded.                                                *)
NewDatabase ==
  [work |-> {}, seq |-> 0, jobs |-> 0, owner |-> TRUE, key |-> TRUE, deleted |-> 0,
   text |-> 0, job |-> NoJob, lastAt |-> 0, lastOk |-> 0]

(* What store.Open makes at a path with nothing at it.                     *)
EmptyDatabase == [NewDatabase EXCEPT !.owner = FALSE, !.key = FALSE]

Init ==
  /\ live = NewDatabase /\ asides = {} /\ stage = None
  /\ tree = 0 /\ bucket = {} /\ object = TRUE
  /\ up = TRUE /\ busy = "free" /\ frozen = FALSE /\ op = NoOp
  /\ worker = Idle /\ paused = FALSE /\ mirror = TRUE /\ writer = FALSE /\ known = 0
  /\ day = 1 /\ asked = 0 /\ crashes = 0
  /\ gen = 0 /\ acked = {} /\ revoked = FALSE /\ torn = FALSE
  /\ left = 0 /\ night = "none"

-----------------------------------------------------------------------------
(* The pool answers: the server runs and Swap does not hold its lock.      *)
Pool == up /\ op.at \notin {"moving", "opening"}

(* CompareAndSwap on busy.                                                 *)
Reserve(what) == up /\ busy = "free" /\ busy' = what

(* The write gate, as a request that goes through in one go sees it.       *)
Admitted == up /\ ~frozen /\ live.owner

(* due: the moment of today's run has passed and no run was recorded since. *)
(* What is recorded is the moment a run ended: see night.                  *)
Due == up /\ live # None /\ live.owner /\ known < day

(* inventory: of a database that answers, what the manifest says of it.    *)
Counted(db) == [n |-> Cardinality(bucket) + 1, db |-> db]

(* The copy the archive is made of.                                        *)
BeginArchive ==
  /\ Cardinality(bucket) < MaxArchives
  /\ op' = [NoOp EXCEPT !.at = "put", !.n = Counted(live).n, !.db = Counted(live).db]
  /\ night' = "begun"

Tick ==
  /\ Due
  /\ Reserve("archive")
  /\ BeginArchive
  /\ UNCHANGED <<disk, frozen, up, worker, paused, mirror, writer, known,
                 told, day, crashes, asked>>

Now ==
  /\ Reserve("archive")
  /\ live.owner
  /\ BeginArchive
  /\ UNCHANGED <<disk, frozen, up, worker, paused, mirror, writer, known,
                 told, day, crashes>>

(* record: the outcome goes into the settings, and so into the database,   *)
(* under the day on which the run ends.                                    *)
Recorded(db, n, ok) ==
  [db EXCEPT !.lastAt = day, !.lastOk = IF ok THEN n ELSE @]

\* Slip: the outcome is recorded without a look at the error.
EndArchiveWell(ok) ==
  /\ live' = Recorded(live, op.n, TRUE)
  /\ known' = day
  /\ night' = IF night = "none" THEN "carried" ELSE night
  /\ op' = NoOp
  /\ busy' = "free"

\* Slip: the reservation is let go on the way out of a run that succeeds.
EndArchiveHolds(ok) ==
  /\ live' = Recorded(live, op.n, ok)
  /\ known' = day
  /\ night' = IF night = "none" THEN "carried" ELSE night
  /\ op' = NoOp
  /\ busy' = IF ok THEN "free" ELSE busy

EndArchive(ok) ==
  /\ live' = Recorded(live, op.n, ok)
  /\ known' = day
  /\ night' = IF night = "none" THEN "carried" ELSE night
  /\ op' = NoOp
  /\ busy' = "free"

(* archive: the archive goes up and its manifest after it, and only an     *)
(* archive with its manifest can be opened again.  Either call may fail,   *)
(* and a call that failed may have stored its object all the same.         *)
PutArchive ==
  /\ up /\ op.at = "put"
  /\ \/ /\ EndArchive(FALSE)
     \/ /\ op' = [op EXCEPT !.at = "manifest"]
        /\ UNCHANGED <<live, known, busy, night>>
  /\ UNCHANGED <<asides, stage, tree, bucket, object, up, frozen, worker, paused, mirror, writer,
                 told, counts>>

PutManifest ==
  /\ up /\ op.at = "manifest"
  /\ \/ /\ bucket' = bucket \cup {[n |-> op.n, db |-> op.db]}
        /\ \E ok \in BOOLEAN : EndArchive(ok)
     \/ /\ EndArchive(FALSE)
        /\ UNCHANGED bucket
  /\ UNCHANGED <<asides, stage, tree, object, up, frozen, worker, paused, mirror, writer,
                 told, counts>>

(* VerifyNow prepares an archive beside the live files and records what it *)
(* found; it keeps the reservation meanwhile.                              *)
VerifyNow ==
  /\ Reserve("verify")
  /\ live.owner
  /\ UNCHANGED <<disk, up, frozen, op, worker, paused, mirror, writer, known,
                 ghosts, day, crashes>>

VerifyEnds ==
  /\ up /\ busy = "verify"
  /\ busy' = "free"
  /\ UNCHANGED <<disk, up, frozen, op, worker, paused, mirror, writer, known, ghosts, counts>>

-----------------------------------------------------------------------------
(* List: the archives the page offers, whose manifest is beside them.      *)
Listed == {a.n : a \in bucket}

(* RestoreNow, of an archive the page lists.                               *)
RestoreNow ==
  /\ Reserve("restore")
  /\ live.owner
  /\ \E n \in Listed : op' = [NoOp EXCEPT !.at = "prepare", !.n = n, !.gen = gen, !.tree = tree]
  /\ UNCHANGED <<disk, up, frozen, worker, paused, mirror, writer, known,
                 ghosts, day, crashes>>

\* Slip: the copy is put in place as the archive has it.
CleanedNot(db) == db

(* Credentials do not come back: keys, sessions and links are deleted from *)
(* the copy before it is anybody's database.                               *)
Cleaned(db) == [db EXCEPT !.key = FALSE]

(* fetch and unpack: the database an archive was made of, which its         *)
(* manifest's hash vouches for.                                            *)
Unpacked(n) == {a.db : a \in {b \in bucket : b.n = n}}

(* validateRestore: what nobody could sign in to is refused.               *)
Valid(db) == db.owner

(* Said: the restore ends here with this to say.                           *)
Fails(how) == op' = [op EXCEPT !.at = "finish", !.fail = how]

(* prepare: everything that can be refused is refused before anything      *)
(* changes.  An archive without its manifest is not opened.                *)
Prepare ==
  /\ up /\ op.at = "prepare"
  /\ \/ /\ Fails("nothing")
        /\ UNCHANGED stage
     \/ \E db \in Unpacked(op.n) :
          /\ Valid(db)
          /\ stage' = Cleaned(db)
          /\ op' = [op EXCEPT !.at = "freeze"]
  /\ UNCHANGED <<live, asides, tree, bucket, object, up, busy, frozen, worker, paused,
                 mirror, writer, known, ghosts, counts>>

(* Freeze and the first half of WithPaused: the worker's run is canceled   *)
(* and another does not begin.                                             *)
Freeze ==
  /\ up /\ op.at = "freeze"
  /\ frozen' = TRUE
  /\ paused' = TRUE
  /\ worker' = [worker EXCEPT !.stop = worker.at # "idle"]
  /\ op' = [op EXCEPT !.at = "drain"]
  /\ UNCHANGED <<disk, up, busy, mirror, writer, known, ghosts, counts>>

(* WithMirrorPaused: a mirror that has stopped refuses to pause.           *)
Pauses == mirror

\* Slip: the run is canceled and not waited for.
DrainNot ==
  /\ up /\ op.at = "drain"
  /\ op' = IF Pauses THEN [op EXCEPT !.at = "swap"]
                     ELSE [op EXCEPT !.at = "resume", !.fail = "nothing"]
  /\ UNCHANGED <<disk, up, busy, frozen, worker, paused, mirror, writer, known, ghosts, counts>>

(* The worker's mutex is taken once its run has ended.                     *)
Drain ==
  /\ up /\ op.at = "drain"
  /\ worker.at = "idle"
  /\ op' = IF Pauses THEN [op EXCEPT !.at = "swap"]
                     ELSE [op EXCEPT !.at = "resume", !.fail = "nothing"]
  /\ UNCHANGED <<disk, up, busy, frozen, worker, paused, mirror, writer, known, ghosts, counts>>

(* Swap, as far as the live file's move aside.  A connection that does not *)
(* come back, or the rename, may fail it; nothing has moved then.          *)
SwapOut ==
  /\ up /\ op.at = "swap"
  /\ \/ /\ op' = [op EXCEPT !.at = "resume", !.fail = "nothing"]
        /\ UNCHANGED <<live, asides>>
     \/ /\ op' = [op EXCEPT !.at = "moving", !.db = live]
        /\ asides' = asides \cup {live.work}
        /\ live' = None
  /\ UNCHANGED <<stage, tree, bucket, object, up, busy, frozen, worker, paused, mirror, writer,
                 known, ghosts, counts>>

(* What was moved aside is put back.                                       *)
PutBack ==
  /\ live' = op.db
  /\ asides' = asides \ {op.db.work}
  /\ op' = [op EXCEPT !.at = "resume", !.fail = "nothing"]

SwapIn ==
  /\ up /\ op.at = "moving"
  /\ \/ /\ PutBack
        /\ UNCHANGED stage
     \/ /\ live' = stage
        /\ stage' = None
        /\ op' = [op EXCEPT !.at = "opening"]
        /\ UNCHANGED asides
  /\ UNCHANGED <<tree, bucket, object, up, busy, frozen, worker, paused, mirror, writer, known,
                 ghosts, counts>>

\* Slip: the restored database counts on from where its archive was.
KeepNone(db, old) == db

(* keepSequences: no number is given twice across a restore.               *)
KeepSequences(db, old) ==
  [db EXCEPT !.seq = Max({@, old.seq}), !.jobs = Max({@, old.jobs})]

(* The restored file is opened and migrated and takes over the counters,   *)
(* or it goes and what was aside is put back.                              *)
SwapOpen ==
  /\ up /\ op.at = "opening"
  /\ \/ /\ PutBack
        /\ UNCHANGED gen
     \/ /\ live' = KeepSequences(live, op.db)
        /\ gen' = gen + 1
        /\ op' = [op EXCEPT !.at = "after"]
        /\ UNCHANGED asides
  /\ UNCHANGED <<stage, tree, bucket, object, up, busy, frozen, worker, paused, mirror, writer,
                 known, acked, revoked, torn, left, night, counts>>

\* Slip: what fails after the swap is told like what fails before it.
AfterSwapBare ==
  /\ up /\ op.at = "after"
  /\ \E done \in {"nothing", "settings", "tree", "all"} :
       /\ known' = IF done = "nothing" THEN known ELSE live.lastAt
       /\ tree' = IF done \in {"tree", "all"} THEN gen ELSE tree
       /\ live' = IF done = "all" THEN [live EXCEPT !.seq = @ + 1] ELSE live
       /\ op' = [op EXCEPT !.at = "resume", !.fail = IF done = "all" THEN "no" ELSE "nothing"]
  /\ UNCHANGED <<asides, stage, bucket, object, up, busy, frozen, worker, paused, mirror, writer,
                 ghosts, counts>>

(* afterSwap: the settings are read again, the docs trees change places,   *)
(* and the activity row is written; a failure leaves the rest undone.      *)
AfterSwap ==
  /\ up /\ op.at = "after"
  /\ \E done \in {"nothing", "settings", "tree", "all"} :
       /\ known' = IF done = "nothing" THEN known ELSE live.lastAt
       /\ tree' = IF done \in {"tree", "all"} THEN gen ELSE tree
       /\ live' = IF done = "all" THEN [live EXCEPT !.seq = @ + 1] ELSE live
       /\ op' = [op EXCEPT !.at = "resume", !.fail = IF done = "all" THEN "no" ELSE "partly"]
  /\ UNCHANGED <<asides, stage, bucket, object, up, busy, frozen, worker, paused, mirror, writer,
                 ghosts, counts>>

\* Slip: what was running is left for the worker, which looks for queued jobs only.
RecoverNone(db) == db

(* Recover: a job that was running when the process or the database went   *)
(* has failed, for somebody to ask for again.                              *)
Recover(db) == IF db.job.state = "running" THEN [db EXCEPT !.job.state = "failed"] ELSE db

(* verifyMirrors: every document of the new database has its file, or one  *)
(* could not be written.                                                   *)
Verified == BOOLEAN

(* The mirror watches the new tree, or cannot and stops; then the second   *)
(* half of WithPaused, whose Recover has ten seconds and may not make it.  *)
Resume ==
  /\ up /\ op.at = "resume"
  /\ \E watches \in BOOLEAN, verified \in Verified, recovered \in BOOLEAN :
       /\ mirror' = (mirror /\ watches)
       /\ live' = IF recovered THEN Recover(live) ELSE live
       /\ left' = IF ~recovered /\ live.job.state = "running" THEN live.job.id ELSE 0
       /\ op' = [op EXCEPT !.at = "finish",
                           !.fail = IF mirror' /\ verified /\ recovered THEN @
                                    ELSE IF gen # op.gen THEN "partly" ELSE "nothing"]
  /\ paused' = FALSE
  /\ UNCHANGED <<asides, stage, tree, bucket, object, up, busy, frozen, worker, writer, known,
                 gen, acked, revoked, torn, night, counts>>

(* Writes resume and the page learns op.fail: "no" says restored.          *)
Finish ==
  /\ up /\ op.at = "finish"
  /\ frozen' = FALSE
  /\ stage' = None
  /\ op' = NoOp
  /\ busy' = "free"
  /\ UNCHANGED <<live, asides, tree, bucket, object, up, worker, paused, mirror, writer, known,
                 ghosts, counts>>

-----------------------------------------------------------------------------
(* A write that passes the gate and commits later, perhaps into another    *)
(* database than the one it looked at.                                     *)
BeginWrite ==
  /\ Admitted /\ ~writer
  /\ writer' = TRUE
  /\ UNCHANGED <<disk, up, busy, frozen, op, worker, paused, mirror, known, ghosts,
                 day, crashes>>

CommitWrite ==
  /\ Pool /\ writer
  /\ writer' = FALSE
  /\ LET token == Cardinality(acked) + 1
     IN  /\ acked' = acked \cup {token}
         /\ live' = [live EXCEPT !.work = @ \cup {token}, !.seq = @ + 1]
  /\ UNCHANGED <<asides, stage, tree, bucket, object, up, busy, frozen, op, worker, paused, mirror,
                 known, gen, revoked, torn, left, night, counts>>

(* What the requests below leave alone.                                    *)
LiveOnly == UNCHANGED <<asides, stage, tree, bucket, object, up, busy, frozen, op, worker, paused,
                        mirror, writer, known, gen, acked, torn, left, night,
                        day, crashes>>

RevokeKey ==
  /\ Admitted /\ live.key
  /\ live' = [live EXCEPT !.key = FALSE]
  /\ revoked' = TRUE
  /\ LiveOnly

(* The row and what cascades from it go; the trash has the rest.           *)
DeleteFile ==
  /\ Admitted /\ live.deleted = 0
  /\ live' = [live EXCEPT !.deleted = day, !.job = NoJob]
  /\ LiveOnly /\ UNCHANGED revoked

(* RestoreDeleted, within the days there are for it; it reserves for the   *)
(* length of the call.                                                     *)
RestoreDeleted ==
  /\ Admitted /\ busy = "free"
  /\ live.deleted # 0 /\ day < live.deleted + Grace
  /\ live' = [live EXCEPT !.deleted = 0, !.text = IF @ = 0 THEN 0 ELSE @ + 1]
  /\ LiveOnly /\ UNCHANGED revoked

\* Slip: the reservation is made whether or not somebody has it.
BeginCleanupAnyway ==
  /\ Admitted /\ object
  /\ live.deleted # 0 /\ day >= live.deleted + Grace
  /\ busy' = "cleanup"
  /\ UNCHANGED <<disk, up, frozen, op, worker, paused, mirror, writer, known, ghosts,
                 day, crashes>>

(* CleanupObject: what nothing refers to and the trash has let go of is    *)
(* found, and then deleted from the bucket, under one reservation.         *)
BeginCleanup ==
  /\ Admitted /\ object
  /\ live.deleted # 0 /\ day >= live.deleted + Grace
  /\ Reserve("cleanup")
  /\ UNCHANGED <<disk, up, frozen, op, worker, paused, mirror, writer, known, ghosts,
                 day, crashes>>

EndCleanup ==
  /\ up /\ busy = "cleanup"
  /\ object' \in {object, FALSE}
  /\ busy' = "free"
  /\ UNCHANGED <<live, asides, stage, tree, bucket, up, frozen, op, worker, paused, mirror, writer,
                 known, ghosts, counts>>

-----------------------------------------------------------------------------
(* QueueTranscription: one active job for a recording.                     *)
QueueTranscription ==
  /\ Admitted /\ live.deleted = 0
  /\ live.job.state \notin {"queued", "running"}
  /\ live' = [live EXCEPT !.jobs = @ + 1,
                          !.job = [id |-> live.jobs + 1, state |-> "queued", base |-> live.text]]
  /\ LiveOnly /\ UNCHANGED revoked

(* SaveTranscript by a person: somebody corrects the text.                 *)
EditTranscript ==
  /\ Admitted /\ live.deleted = 0
  /\ live.text = 1
  /\ live' = [live EXCEPT !.text = @ + 1]
  /\ LiveOnly /\ UNCHANGED revoked

WorkerOnly == UNCHANGED <<asides, stage, tree, bucket, object, up, busy, frozen, op, paused, mirror,
                          writer, known, ghosts, counts>>

(* runNext: the oldest queued job becomes the worker's.                    *)
Claim ==
  /\ Pool /\ ~paused
  /\ worker.at = "idle"
  /\ live.job.state = "queued"
  /\ live' = [live EXCEPT !.job.state = "running"]
  /\ worker' = [at |-> "infers", id |-> live.job.id, base |-> live.job.base, gen |-> gen,
                stop |-> FALSE]
  /\ WorkerOnly

(* saveTranscript by the worker, which also finishes its job or nothing.   *)
Saves(db) ==
  /\ db.deleted = 0
  /\ db.text = worker.base
  /\ db.job = [id |-> worker.id, state |-> "running", base |-> worker.base]

(* transcribe ends with a transcript and the save goes through, which a    *)
(* cancellation that comes as it commits does not prevent.                 *)
SaveTranscript ==
  /\ Pool /\ worker.at = "infers"
  /\ Saves(live)
  /\ live' = [live EXCEPT !.text = @ + 1, !.job.state = "complete"]
  /\ worker' = Idle
  /\ WorkerOnly

(* It ends without one, or the save is refused, and the row says so.       *)
FailJob ==
  /\ Pool /\ worker.at = "infers" /\ ~worker.stop
  /\ live' = IF live.job.id = worker.id /\ live.job.state = "running"
             THEN [live EXCEPT !.job.state = "failed"] ELSE live
  /\ worker' = Idle
  /\ WorkerOnly

(* A canceled run ends and leaves its row to Recover.                      *)
StopJob ==
  /\ up /\ worker.at = "infers" /\ worker.stop
  /\ worker' = Idle
  /\ UNCHANGED <<disk, up, busy, frozen, op, paused, mirror, writer, known, ghosts, counts>>

-----------------------------------------------------------------------------
NextDay ==
  /\ day < MaxDay
  /\ day' = day + 1
  /\ night' = "none"
  /\ UNCHANGED <<disk, process, told, asked, crashes>>

Crash ==
  /\ up /\ crashes < MaxCrash
  /\ crashes' = crashes + 1
  /\ up' = FALSE
  /\ torn' = (torn \/ op.at \in {"moving", "opening", "after"} \/ op.fail = "partly")
  /\ gen' = IF op.at = "opening" THEN gen + 1 ELSE gen
  /\ busy' = "free" /\ frozen' = FALSE /\ op' = NoOp
  /\ worker' = Idle /\ paused' = FALSE /\ writer' = FALSE
  /\ UNCHANGED <<disk, mirror, known, acked, revoked, left, night, day, asked>>

\* Slip: the copies restores set aside count as leftovers.
SweptAll(copies) == {}

(* What Sweep leaves of the copies beside the database: all of them.       *)
Swept(copies) == copies

(* main: Sweep, store.Open, the settings, Recover and the workers.         *)
Start ==
  /\ ~up
  /\ up' = TRUE
  /\ stage' = None
  /\ asides' = Swept(asides)
  /\ live' = IF live = None THEN EmptyDatabase ELSE Recover(live)
  /\ known' = live'.lastAt
  /\ mirror' = TRUE
  /\ left' = 0
  /\ UNCHANGED <<tree, bucket, object, busy, frozen, op, worker, paused, writer,
                 gen, acked, revoked, torn, night, counts>>

Serve ==
  \/ Tick \/ PutArchive \/ PutManifest \/ VerifyEnds
  \/ Prepare \/ Freeze \/ Drain \/ SwapOut \/ SwapIn \/ SwapOpen \/ AfterSwap \/ Resume \/ Finish
  \/ CommitWrite \/ EndCleanup
  \/ Claim \/ SaveTranscript \/ FailJob \/ StopJob
  \/ Start

Ask ==
  /\ asked < MaxAsked
  /\ asked' = asked + 1
  /\ \/ Now \/ VerifyNow \/ RestoreNow \/ BeginWrite \/ RevokeKey
     \/ DeleteFile \/ RestoreDeleted \/ BeginCleanup \/ QueueTranscription \/ EditTranscript

Next == Serve \/ Ask \/ NextDay \/ Crash

(* The server's goroutines are not starved and a call they make ends,      *)
(* well or badly: a call of a restore has a timeout, and one of the        *)
(* nightly run, which has none of its own, is ended by the bucket's client *)
(* when the other side is silent for 30 seconds, so what is assumed of     *)
(* that one is that an endpoint does not trickle an answer for ever.       *)
(* Nobody has to ask for anything.                                         *)
Spec == Init /\ [][Next]_vars /\ WF_vars(Serve)
-----------------------------------------------------------------------------
TypeOK ==
  /\ live = None \/ live.seq \in Nat
  /\ busy \in {"free", "archive", "verify", "restore", "cleanup"}
  /\ {up, frozen, paused, mirror, writer, object, revoked, torn} \subseteq BOOLEAN
  /\ gen \in Nat /\ day \in 1..MaxDay

(* Whatever fails or stops, and at whichever step, every write that was    *)
(* answered is in the database or in a copy a restore set aside.           *)
WorkIn(db) == IF db = None THEN {} ELSE db.work

WayBack ==
  acked \subseteq WorkIn(live) \cup UNION asides

(* A key that was revoked does not work again, though archives from before *)
(* still hold it.                                                          *)
KeysStayRevoked == revoked /\ live # None => ~live.key

(* No activity or job number is given twice, whatever archive comes back,  *)
(* unless the process dies between the swap's two renames and its end.     *)
NumbersGrow ==
  [][live # None /\ ~torn' => 
       (live' # None => live'.seq >= live.seq /\ live'.jobs >= live.jobs)]_vars

(* The object of a recording that is there, or that the trash may still    *)
(* give back, is never the one cleanup deletes.                            *)
PurgeSpares ==
  [][object /\ ~object' => live # None /\ live.deleted # 0 /\ day >= live.deleted + Grace]_vars

(* The worker's transcript goes into the database its job was claimed in,  *)
(* and never over a version its job had not seen.                          *)
SavedHere ==
  [][worker.at = "infers" /\ worker'.at = "idle" /\ live # None /\ live' # None =>
       (live'.text # live.text => worker.gen = gen /\ live.text = worker.base)]_vars

(* A job is running only while the worker is on it, so that it can be      *)
(* asked for again as soon as it is not: after a restart and a restore     *)
(* too, but for the job a restore could not recover: it is left running,   *)
(* with nobody on it, until the next restart or restore.                   *)
NoneStranded ==
  up /\ busy # "restore" /\ live # None /\ live.job.state = "running"
  => (worker.at = "infers" /\ worker.id = live.job.id) \/ live.job.id = left

(* That there is no such job: refuted.                                     *)
NeverLeft == left = 0

(* What a restore says of itself is so.                                    *)
ToldTruly ==
  [][up' /\ busy = "restore" /\ busy' = "free" =>
       CASE op.fail = "nothing" -> gen = op.gen /\ tree = op.tree
         [] op.fail = "partly"  -> gen = op.gen + 1
         [] op.fail = "no"      -> gen = op.gen + 1 /\ tree = gen /\ known = live.lastAt
                                   /\ mirror /\ ~live.key /\ left = 0]_vars

(* A run the settings call the last good one is in the bucket, whole.      *)
OkIsThere ==
  live # None /\ live.lastOk # 0 => live.lastOk \in {a.n : a \in bucket}

(* Today's run is behind it: one started today, or one that had started    *)
(* the day before ended today and was recorded as today's.                 *)
RunToday == known = day /\ night # "none"

(* Maintenance ends: the server comes back to taking writes with the run   *)
(* of the day behind it, on every day it is up for.                        *)
NightsRun ==
  []<>(/\ up /\ ~frozen
       /\ live # None /\ live.owner => RunToday \/ Cardinality(bucket) = MaxArchives)

(* What due's comment says, that no night is lost: refuted, because what   *)
(* is recorded is the end of a run and not its start.                      *)
NoneCarried == night # "carried"

(* What was given out or taken away does not come back with an archive:    *)
(* neither a number nor a revoked key.                                     *)
NothingReturns == NumbersGrow /\ []KeysStayRevoked

(* Through failures and crashes anywhere the work, the archives and the    *)
(* jobs the settings speak of are there.                                   *)
RestoreSafe == WayBack /\ OkIsThere /\ NoneStranded

(* A restore under running work: nothing is deleted or saved on what the   *)
(* other database said, and what the restore says of itself is so.         *)
AcrossTheSwap == PurgeSpares /\ SavedHere /\ ToldTruly
=============================================================================
