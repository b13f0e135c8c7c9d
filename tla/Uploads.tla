------------------------------- MODULE Uploads -------------------------------
(***************************************************************************)
(* A file's way into the bucket and out of it (internal/files): its row is *)
(* recorded at uploading, the client sends the object or its parts to URLs *)
(* the server signs, Complete checks what arrived and makes the row ready, *)
(* the hourly sweep abandons what nobody finished, Delete keeps a ready    *)
(* file for the recovery window, and Cleanup removes what nothing names.   *)
(*                                                                         *)
(* The database and the bucket have no transaction in common: each action  *)
(* below is one database transaction or one call on the bucket, and the    *)
(* requests, the sweep and a crash interleave between them.                *)
(* An object is named by its file and a number: 0 is the key the row is    *)
(* recorded with, n > 0 the fresh key of the n-th completion.              *)
(***************************************************************************)
EXTENDS Naturals, FiniteSets

CONSTANTS
  Files,               \* files
  Workers, None,       \* requests being served
  UrlLife, KeyLife, AbandonAt, Grace,  \* uploadTTL, core.KeyLife, abandonAt, cleanupGrace
  MaxNow, MaxNew, MaxAsk, MaxOps, MaxCrashes, MaxFailures  \* bounds

ASSUME UploadsAssumption ==
  /\ None \notin Workers
  /\ {UrlLife, KeyLife, AbandonAt, Grace} \subseteq Nat
  /\ KeyLife < AbandonAt
  /\ Grace > 0
  /\ {MaxNow, MaxNew, MaxAsk, MaxOps, MaxCrashes, MaxFailures} \subseteq Nat

VARIABLES
  now,
  row,        \* the files table; small: of a size sent with one PUT
  uploads,    \* the uploads table: [file, mp, expires]
  cleanup,    \* the file_cleanup table: [file, n, at]
  trash,      \* what may still be restored: [file, n, at]
  objects,    \* the bucket: [file, n, ok, at], ok: it has the declared size
  multiparts, \* multipart uploads in the bucket: [mp, file, parts]
  urls,       \* until when a PUT URL for the file's first key works
  creating,   \* the worker holding createMu
  maint,      \* the worker holding the maintenance reservation
  work,       \* what each request is doing
  sweep,      \* what the sweep is doing
  fresh,      \* keys and multipart ids drawn so far; none comes twice
  ops, crashes, failures

vars == <<now, row, uploads, cleanup, trash, objects, multiparts, urls, creating,
          maint, work, sweep, fresh, ops, crashes, failures>>

tables == <<row, uploads, cleanup, trash>>
bucket == <<objects, multiparts, urls>>
counts == <<ops, crashes, failures>>

Idle   == [pc |-> "idle", file |-> None, mp |-> 0, n |-> 0, since |-> 0]
Asleep == [pc |-> "idle", cutoff |-> 0, found |-> {}, one |-> [file |-> None, mp |-> 0]]

Init ==
  /\ now = 0
  /\ \E small \in SUBSET Files :
       row = [f \in Files |-> [state |-> "none", n |-> 0, created |-> 0, small |-> f \in small]]
  /\ uploads = {} /\ cleanup = {} /\ trash = {}
  /\ objects = {} /\ multiparts = {}
  /\ urls = [f \in Files |-> 0]
  /\ creating = None /\ maint = None
  /\ work = [w \in Workers |-> Idle]
  /\ sweep = Asleep
  /\ fresh = 0 /\ ops = 0 /\ crashes = 0 /\ failures = 0

-----------------------------------------------------------------------------
Live(f) == row[f].state \in {"uploading", "ready"}

Of(f) == {u \in uploads : u.file = f}

Stored(f, n) == {o \in objects : o.file = f /\ o.n = n}

Put(f, n, ok) ==
  (objects \ Stored(f, n)) \cup {[file |-> f, n |-> n, ok |-> ok, at |-> now]}

(* upload: the multipart id recorded for the file, 0 when there is none.   *)
Multipart(f) == IF Of(f) = {} THEN {0} ELSE {u.mp : u \in Of(f)}

Goes(w, pc) == work' = [work EXCEPT ![w].pc = pc]
Done(w) == work' = [work EXCEPT ![w] = Idle]

Starts(w, r) ==
  /\ work[w].pc = "idle"
  /\ work' = [work EXCEPT ![w] = [r EXCEPT !.since = now]]

(* MaxOps bounds the completions and the deletes; the rest is bounded by   *)
(* what there is to create and to clean.                                   *)
Counted == ops < MaxOps /\ ops' = ops + 1

(* The row goes: its uploads cascade, the delete trigger records its key.  *)
Remove(f) ==
  /\ row' = [row EXCEPT ![f].state = "deleted"]
  /\ uploads' = uploads \ Of(f)
  /\ cleanup' = cleanup \cup {[file |-> f, n |-> row[f].n, at |-> now]}

(* forget: the multipart upload is aborted and the object deleted.         *)
Forgotten(f, n, mp) ==
  /\ objects' = objects \ Stored(f, n)
  /\ multiparts' = {m \in multiparts : m.mp # mp}
-----------------------------------------------------------------------------
(* Create of a small file, or Create or Parts of it again: the row is      *)
(* recorded if it is not there, and a PUT URL is signed.                   *)
CreateSmall(f) ==
  /\ row[f].small
  /\ now <= MaxNew
  /\ \/ row[f].state = "none" /\ creating = None
     \/ row[f].state = "uploading"
  /\ row' = IF row[f].state = "none"
            THEN [row EXCEPT ![f].state = "uploading", ![f].created = now]
            ELSE row
  /\ urls' = [urls EXCEPT ![f] = now + UrlLife]
  /\ UNCHANGED <<now, uploads, cleanup, trash, objects, multiparts, creating, maint,
                 work, sweep, fresh, counts>>

\* Slip: a create sent again starts another upload.
CreateAnew(w, f) ==
  /\ ~row[f].small
  /\ creating = None
  /\ \/ row[f].state = "none" /\ now <= MaxNew
     \/ row[f].state = "uploading" /\ now <= row[f].created + KeyLife
  /\ Starts(w, [Idle EXCEPT !.pc = "start", !.file = f])
  /\ creating' = w
  /\ row' = IF row[f].state = "none"
            THEN [row EXCEPT ![f].state = "uploading", ![f].created = now]
            ELSE row
  /\ UNCHANGED <<now, uploads, cleanup, trash, bucket, maint, sweep, fresh, counts>>

(* Create of a larger file, under createMu: a multipart upload is started  *)
(* unless the create was made before, under the client key it comes with   *)
(* again, and left one, which Parts resumes.  A key is forgotten long      *)
(* before the sweep's time; a create without one makes another file.       *)
CreateLarge(w, f) ==
  /\ Of(f) = {}
  /\ CreateAnew(w, f)

StartMultipart(w) ==
  /\ work[w].pc = "start"
  /\ fresh' = fresh + 1
  /\ multiparts' = multiparts \cup {[mp |-> fresh', file |-> work[w].file, parts |-> "some"]}
  /\ work' = [work EXCEPT ![w].pc = "insert", ![w].mp = fresh']
  /\ UNCHANGED <<now, tables, objects, urls, creating, maint, sweep, counts>>

(* The uploads row; its foreign key refuses a file deleted meanwhile, and  *)
(* then the multipart upload is aborted.                                   *)
InsertUpload(w) ==
  /\ work[w].pc = "insert"
  /\ IF Live(work[w].file)
     THEN /\ uploads' = uploads \cup {[file |-> work[w].file, mp |-> work[w].mp,
                                       expires |-> now + AbandonAt]}
          /\ UNCHANGED multiparts
     ELSE /\ multiparts' = {m \in multiparts : m.mp # work[w].mp}
          /\ UNCHANGED uploads
  /\ creating' = None
  /\ Done(w)
  /\ UNCHANGED <<now, row, cleanup, trash, objects, urls, maint, sweep, fresh, counts>>

(* Parts of a larger file: the sign somebody is still uploading, so the    *)
(* deadline moves, whether or not it has passed.                           *)
Parts(f) ==
  /\ row[f].state = "uploading" /\ now <= MaxAsk
  /\ Of(f) # {}
  /\ uploads' = (uploads \ Of(f)) \cup {[u EXCEPT !.expires = now + AbandonAt] : u \in Of(f)}
  /\ UNCHANGED <<now, row, cleanup, trash, bucket, creating, maint, work, sweep, fresh, counts>>

(* The client, or whoever else holds the credentials, writes the object.   *)
PutObject(f, ok) ==
  /\ row[f].small /\ row[f].state # "none"
  /\ now <= urls[f]
  /\ objects' = Put(f, 0, ok)
  /\ UNCHANGED <<now, tables, multiparts, urls, creating, maint, work, sweep, fresh, counts>>

PutParts(m, parts) ==
  /\ m.parts = "some"
  /\ multiparts' = (multiparts \ {m}) \cup {[m EXCEPT !.parts = parts]}
  /\ UNCHANGED <<now, tables, objects, urls, creating, maint, work, sweep, fresh, counts>>
-----------------------------------------------------------------------------
\* Slip: the object is left at the key whose URL is still good.
FinalizeInPlace(f) == FALSE

(* A PUT URL stays writable, so a small file is finalized to a fresh key.  *)
Finalize(f) == row[f].small

(* Complete: the row, its bucket and its upload are read.                  *)
CompleteRead(w, f) ==
  /\ row[f].state = "uploading"
  /\ Counted
  /\ \E mp \in Multipart(f) :
       Starts(w, [Idle EXCEPT
                    !.pc = IF mp # 0 THEN "claim" ELSE IF Finalize(f) THEN "fresh" ELSE "head",
                    !.file = f, !.mp = mp])
  /\ UNCHANGED <<now, tables, bucket, creating, maint, sweep, fresh, crashes, failures>>

(* The claim moves the deadline, unless the sweep's time has come.         *)
Claim(w) ==
  /\ work[w].pc = "claim"
  /\ LET mine == {u \in uploads : u.mp = work[w].mp /\ u.expires > now}
     IN  IF mine = {} THEN Done(w) /\ UNCHANGED uploads
         ELSE /\ uploads' = (uploads \ mine) \cup {[u EXCEPT !.expires = now + AbandonAt] : u \in mine}
              /\ Goes(w, "assemble")
  /\ UNCHANGED <<now, row, cleanup, trash, bucket, creating, maint, sweep, fresh, counts>>

(* An object that is there already was assembled by an earlier attempt;    *)
(* otherwise all the parts must be there, and become the object.           *)
Assemble(w) ==
  LET f    == work[w].file
      held == {m \in multiparts : m.mp = work[w].mp /\ m.parts # "some"}
  IN  /\ work[w].pc = "assemble"
      /\ CASE Stored(f, 0) # {} -> Goes(w, "head") /\ UNCHANGED <<objects, multiparts>>
           [] Stored(f, 0) = {} /\ held # {} ->
                /\ objects' = Put(f, 0, \A m \in held : m.parts = "all")
                /\ multiparts' = multiparts \ held
                /\ Goes(w, "head")
           [] OTHER -> Done(w) /\ UNCHANGED <<objects, multiparts>>
      /\ UNCHANGED <<now, tables, urls, creating, maint, sweep, fresh, counts>>

\* Slip: the fresh key is not recorded.
FreshUnrecorded(w) ==
  /\ work[w].pc = "fresh"
  /\ fresh' = fresh + 1
  /\ work' = [work EXCEPT ![w].pc = "copy", ![w].n = fresh']
  /\ UNCHANGED <<now, tables, bucket, creating, maint, sweep, counts>>

(* The fresh key is recorded for cleanup before anything is written to it. *)
Fresh(w) ==
  /\ work[w].pc = "fresh"
  /\ fresh' = fresh + 1
  /\ cleanup' = cleanup \cup {[file |-> work[w].file, n |-> fresh', at |-> now]}
  /\ work' = [work EXCEPT ![w].pc = "copy", ![w].n = fresh']
  /\ UNCHANGED <<now, row, uploads, trash, bucket, creating, maint, sweep, counts>>

Copy(w) ==
  LET f == work[w].file
  IN  /\ work[w].pc = "copy"
      /\ IF Stored(f, 0) = {} THEN Goes(w, "drop") /\ UNCHANGED objects
         ELSE /\ \E o \in Stored(f, 0) : objects' = Put(f, work[w].n, o.ok)
              /\ Goes(w, "head")
      /\ UNCHANGED <<now, tables, multiparts, urls, creating, maint, sweep, fresh, counts>>

(* What a failed completion does: it drops its fresh key's object.         *)
GivesUp(w) == IF work[w].n # 0 THEN Goes(w, "drop") ELSE Done(w)

(* The object must be there and have the declared size; one of another     *)
(* size is abandoned, with the upload it came from.                        *)
Head(w) ==
  LET f == work[w].file
      o == Stored(f, work[w].n)
  IN  /\ work[w].pc = "head"
      /\ CASE o = {} -> GivesUp(w)
           [] o # {} /\ \A x \in o : x.ok -> Goes(w, "finish")
           [] OTHER -> \E mp \in Multipart(f) :
                         work' = [work EXCEPT ![w].pc = "abandon", ![w].mp = mp]
      /\ UNCHANGED <<now, tables, bucket, creating, maint, sweep, fresh, counts>>

\* Slip: the uploads row stays.
ReadyBeside(f, n) ==
  /\ row' = [row EXCEPT ![f].state = "ready", ![f].n = n]
  /\ cleanup' = {c \in cleanup : c.file # f \/ c.n # n} \cup
                (IF n # 0 THEN {[file |-> f, n |-> 0, at |-> now]} ELSE {})
  /\ uploads' = uploads

(* The row becomes ready: the trigger records the key it had, the record   *)
(* of the key it has now goes, and so does its uploads row.                *)
Ready(f, n) ==
  /\ row' = [row EXCEPT ![f].state = "ready", ![f].n = n]
  /\ cleanup' = {c \in cleanup : c.file # f \/ c.n # n} \cup
                (IF n # 0 THEN {[file |-> f, n |-> 0, at |-> now]} ELSE {})
  /\ uploads' = uploads \ Of(f)

(* The transaction that ends a completion, if the file is still uploading. *)
Finish(w) ==
  LET f == work[w].file
      n == work[w].n
  IN  /\ work[w].pc = "finish"
      /\ IF row[f].state # "uploading" THEN GivesUp(w) /\ UNCHANGED tables
         ELSE /\ Ready(f, n)
              /\ UNCHANGED trash
              /\ IF n # 0 THEN work' = [work EXCEPT ![w] = [@ EXCEPT !.pc = "wipe", !.n = 0]]
                 ELSE Done(w)
      /\ UNCHANGED <<now, bucket, creating, maint, sweep, fresh, counts>>

\* Slip: the row is deleted whatever has become of it.
AbandonAnyway(w) ==
  /\ work[w].pc = "abandon"
  /\ Live(work[w].file)
  /\ Remove(work[w].file)
  /\ Goes(w, "wipe")
  /\ UNCHANGED <<now, trash, bucket, creating, maint, sweep, fresh, counts>>

(* abandon: the row goes if it is still the one that could not be finished.*)
Abandon(w) ==
  /\ work[w].pc = "abandon"
  /\ IF row[work[w].file].state = "uploading"
     THEN Remove(work[w].file) /\ Goes(w, "wipe")
     ELSE GivesUp(w) /\ UNCHANGED <<row, uploads, cleanup>>
  /\ UNCHANGED <<now, trash, bucket, creating, maint, sweep, fresh, counts>>

(* forget of the first key, after a finish, an abandonment or a delete;    *)
(* an abandoned completion drops its fresh key next.                       *)
Wipe(w) ==
  /\ work[w].pc = "wipe"
  /\ Forgotten(work[w].file, 0, work[w].mp)
  /\ GivesUp(w)
  /\ UNCHANGED <<now, tables, urls, creating, maint, sweep, fresh, counts>>

Drop(w) ==
  /\ work[w].pc = "drop"
  /\ Forgotten(work[w].file, work[w].n, 0)
  /\ Done(w)
  /\ UNCHANGED <<now, tables, urls, creating, maint, sweep, fresh, counts>>
-----------------------------------------------------------------------------
(* Delete reads the row and its upload, and then deletes in a transaction: *)
(* what is ready by then is kept, object and all, for the recovery window. *)
DeleteRead(w, f) ==
  /\ Live(f)
  /\ Counted
  /\ \E mp \in Multipart(f) : Starts(w, [Idle EXCEPT !.pc = "delete", !.file = f, !.mp = mp])
  /\ UNCHANGED <<now, tables, bucket, creating, maint, sweep, fresh, crashes, failures>>

Restorable(t) == t.at + Grace > now

DeleteTx(w) ==
  LET f == work[w].file
  IN  /\ work[w].pc = "delete"
      /\ CASE row[f].state = "ready" ->
                /\ Remove(f)
                /\ trash' = {t \in trash : Restorable(t)} \cup
                            {[file |-> f, n |-> row[f].n, at |-> now]}
                /\ Done(w)
           [] row[f].state = "uploading" ->
                Remove(f) /\ Goes(w, "wipe") /\ UNCHANGED trash
           [] OTHER -> Done(w) /\ UNCHANGED tables
      /\ UNCHANGED <<now, bucket, creating, maint, sweep, fresh, counts>>

(* RestoreDeleted, under the maintenance reservation: the row comes back   *)
(* as it was, naming the object it named.                                  *)
Restore(t) ==
  /\ t \in trash
  /\ maint = None
  /\ Restorable(t)
  /\ row' = [row EXCEPT ![t.file].state = "ready", ![t.file].n = t.n]
  /\ trash' = trash \ {t}
  /\ UNCHANGED <<now, uploads, cleanup, bucket, creating, maint, work, sweep, fresh, counts>>

\* Slip: what the trash may restore is forgotten.
OrphanUnlessLive(c) ==
  /\ c.at + Grace < now
  /\ ~(Live(c.file) /\ row[c.file].n = c.n)
  /\ \E o \in Stored(c.file, c.n) : o.at + Grace < now

(* orphanPage: a recorded key is an orphan when the recovery window is     *)
(* over, no trash of its file can be restored, no row names it, and its    *)
(* object has not been written since.                                      *)
Orphan(c) ==
  /\ c.at + Grace < now
  /\ \A t \in trash : t.file = c.file => ~Restorable(t)
  /\ ~(Live(c.file) /\ row[c.file].n = c.n)
  /\ \E o \in Stored(c.file, c.n) : o.at + Grace < now

(* CleanupObject: the reservation is taken and the orphan looked up again. *)
CleanupReserve(w, c) ==
  /\ c \in cleanup
  /\ maint = None
  /\ Orphan(c)
  /\ Starts(w, [Idle EXCEPT !.pc = "clean", !.file = c.file, !.n = c.n])
  /\ maint' = w
  /\ UNCHANGED <<now, tables, bucket, creating, sweep, fresh, counts>>

CleanupDelete(w) ==
  /\ work[w].pc = "clean"
  /\ Forgotten(work[w].file, work[w].n, 0)
  /\ maint' = None
  /\ Done(w)
  /\ UNCHANGED <<now, tables, urls, creating, sweep, fresh, counts>>
-----------------------------------------------------------------------------
\* Slip: only files that have an uploads row are looked for.
AbandonedJoined == {[file |-> u.file, mp |-> u.mp] :
                      u \in {x \in uploads : row[x.file].state = "uploading" /\ x.expires < now}}

(* The uploads nobody finished: past their deadline, or without an uploads *)
(* row and recorded longer ago than the deadline would have been.          *)
Abandoned ==
  {[file |-> u.file, mp |-> u.mp] :
     u \in {x \in uploads : row[x.file].state = "uploading" /\ x.expires < now}}
  \cup {[file |-> f, mp |-> 0] :
     f \in {x \in Files : row[x].state = "uploading" /\ Of(x) = {} /\ row[x].created + AbandonAt < now}}

SweepList ==
  /\ sweep.pc = "idle"
  /\ Abandoned # {}
  /\ sweep' = [Asleep EXCEPT !.pc = "next", !.cutoff = now, !.found = Abandoned]
  /\ UNCHANGED <<now, tables, bucket, creating, maint, work, fresh, counts>>

\* Slip: the deadline is not looked at again.
ClaimableAnyhow(one) == TRUE

(* A completion that started a moment ago has moved the deadline.          *)
Claimable(one) == one.mp = 0 \/ \E u \in Of(one.file) : u.expires < sweep.cutoff

(* One transaction claims the upload and deletes the row, if it is still   *)
(* uploading; what the sweep may not abandon it leaves.                    *)
SweepTx(one) ==
  /\ sweep.pc = "next" /\ one \in sweep.found
  /\ IF row[one.file].state = "uploading" /\ Claimable(one)
     THEN /\ Remove(one.file)
          /\ sweep' = [sweep EXCEPT !.pc = "forget", !.found = @ \ {one}, !.one = one]
     ELSE /\ sweep' = [sweep EXCEPT !.found = @ \ {one}]
          /\ UNCHANGED <<row, uploads, cleanup>>
  /\ UNCHANGED <<now, trash, bucket, creating, maint, work, fresh, counts>>

SweepForget ==
  /\ sweep.pc = "forget"
  /\ Forgotten(sweep.one.file, 0, sweep.one.mp)
  /\ sweep' = [sweep EXCEPT !.pc = "next", !.one = Asleep.one]
  /\ UNCHANGED <<now, tables, urls, creating, maint, work, fresh, counts>>

SweepEnd ==
  /\ sweep.pc = "next" /\ sweep.found = {}
  /\ sweep' = Asleep
  /\ UNCHANGED <<now, tables, bucket, creating, maint, work, fresh, counts>>
-----------------------------------------------------------------------------
(* A call on the bucket fails, a transaction is refused or the client goes *)
(* away: the request takes its error path.                                 *)
Fails(w) ==
  /\ work[w].pc # "idle"
  /\ failures < MaxFailures
  /\ failures' = failures + 1
  /\ IF work[w].pc \in {"copy", "head", "finish", "abandon", "wipe"} THEN GivesUp(w) ELSE Done(w)
  /\ multiparts' = IF work[w].pc = "insert" THEN {m \in multiparts : m.mp # work[w].mp}
                   ELSE multiparts
  /\ creating' = IF creating = w THEN None ELSE creating
  /\ maint' = IF maint = w THEN None ELSE maint
  /\ UNCHANGED <<now, tables, objects, urls, sweep, fresh, ops, crashes>>

(* The process dies between any two steps and starts again.                *)
Crash ==
  /\ crashes < MaxCrashes
  /\ crashes' = crashes + 1
  /\ work' = [w \in Workers |-> Idle]
  /\ sweep' = Asleep
  /\ creating' = None /\ maint' = None
  /\ UNCHANGED <<now, tables, bucket, fresh, ops, failures>>

(* Ticks are days: a request or a pass of the sweep may run into the next, *)
(* none runs on into a third.                                              *)
Tick ==
  /\ now < MaxNow
  /\ \A w \in Workers : work[w].pc # "idle" => work[w].since = now
  /\ sweep.pc # "idle" => sweep.cutoff = now
  /\ now' = now + 1
  /\ UNCHANGED <<tables, bucket, creating, maint, work, sweep, fresh, counts>>

Begins(w) ==
  \/ \E f \in Files : CreateLarge(w, f) \/ CompleteRead(w, f) \/ DeleteRead(w, f)
  \/ \E c \in cleanup : CleanupReserve(w, c)

Continues(w) ==
  \/ StartMultipart(w) \/ InsertUpload(w)
  \/ Claim(w) \/ Assemble(w) \/ Fresh(w) \/ Copy(w) \/ Head(w) \/ Finish(w)
  \/ Abandon(w) \/ Wipe(w) \/ Drop(w)
  \/ DeleteTx(w) \/ CleanupDelete(w)

Client ==
  \/ \E f \in Files : CreateSmall(f) \/ Parts(f)
  \/ \E f \in Files, ok \in BOOLEAN : PutObject(f, ok)
  \/ \E m \in multiparts, parts \in {"all", "short"} : PutParts(m, parts)

Sweeping == SweepList \/ SweepForget \/ SweepEnd \/ \E one \in sweep.found : SweepTx(one)

Next ==
  \/ \E w \in Workers : Begins(w) \/ Continues(w) \/ Fails(w)
  \/ Client \/ Sweeping
  \/ \E t \in trash : Restore(t)
  \/ Crash \/ Tick

(* The clock runs, the hourly sweep takes its steps and a request that has *)
(* begun goes on, if only to fail; nothing is assumed of clients.          *)
Fairness ==
  WF_vars(Tick) /\ WF_vars(Sweeping) /\ \A w \in Workers : WF_vars(Continues(w))

Spec == Init /\ [][Next]_vars /\ Fairness
-----------------------------------------------------------------------------
(* Types, and that only a file still uploading has an uploads row.         *)
Keys == [file : Files, n : Nat, at : Nat]

TypeOK ==
  /\ now \in 0..MaxNow
  /\ row \in [Files -> [state : {"none", "uploading", "ready", "deleted"}, n : Nat, created : Nat,
                       small : BOOLEAN]]
  /\ uploads \subseteq [file : {f \in Files : row[f].state = "uploading"}, mp : Nat, expires : Nat]
  /\ cleanup \subseteq Keys /\ trash \subseteq Keys
  /\ objects \subseteq [file : Files, n : Nat, ok : BOOLEAN, at : Nat]
  /\ multiparts \subseteq [mp : Nat, file : Files, parts : {"some", "all", "short"}]
  /\ urls \in [Files -> Nat]
  /\ creating \in Workers \cup {None} /\ maint \in Workers \cup {None}
  /\ work \in [Workers -> [pc : {"idle", "start", "insert", "claim", "assemble", "fresh",
                                 "copy", "head", "finish", "abandon", "wipe", "drop",
                                 "delete", "clean"},
                           file : Files \cup {None}, mp : Nat, n : Nat,
                           since : 0..MaxNow]]
  /\ sweep \in [pc : {"idle", "next", "forget"}, cutoff : 0..MaxNow,
               found : SUBSET [file : Files, mp : Nat],
               one : [file : Files \cup {None}, mp : Nat]]
  /\ fresh \in Nat /\ {ops, crashes, failures} \subseteq Nat

(* A file somebody can open is whole (upload.go Complete, Delete, Sweep,   *)
(* cleanup.go, trash.go): the object a ready row names is in the bucket,   *)
(* at the declared size, whatever raced with its completion and through    *)
(* deletion, restoration, cleanup and crashes; and so is the object of     *)
(* whatever the trash can still restore.                                   *)
ReadyIsWhole ==
  /\ \A f \in Files : row[f].state = "ready" => \E o \in Stored(f, row[f].n) : o.ok
  /\ \A t \in trash : Restorable(t) => \E o \in Stored(t.file, t.n) : o.ok

(* Nothing in the bucket is lost sight of (012_file_cleanup.sql): every    *)
(* object is named by a live row or by a record the cleanup can find it    *)
(* by, also after a crash or a bucket that refused a delete.               *)
EveryObjectFindable ==
  \A o \in objects :
    \/ Live(o.file) /\ row[o.file].n = o.n
    \/ \E c \in cleanup : c.file = o.file /\ c.n = o.n

(* One file, one upload (upload.go Create): a create sent twice, by two    *)
(* connections at once or after a crash, leaves one uploads row, so that   *)
(* the parts and the completion speak of the same multipart upload.        *)
OneUpload == \A u, v \in uploads : u.file = v.file => u = v

(* What is ready does not change underneath its readers (upload.go         *)
(* Complete, "a PUT URL remains writable until expiry"; Delete): no step   *)
(* changes or removes the object of a row that is ready, and the row goes  *)
(* only into the trash, never as an upload that failed or was given up.    *)
ReadyUntouched ==
  [][\A f \in Files : row[f].state = "ready" =>
       /\ \A o \in Stored(f, row[f].n) : o \in objects'
       /\ \/ row'[f].state = "ready" /\ row'[f].n = row[f].n
          \/ row'[f].state = "deleted" /\ [file |-> f, n |-> row[f].n, at |-> now] \in trash']_vars

(* The sweep spares whoever is still uploading (upload.go Sweep): it takes *)
(* no upload whose deadline a completion or a request for parts has moved  *)
(* past the sweep's time since it listed them.                             *)
SweepSparesTheLiving ==
  [][\A u \in uploads :
       u \notin uploads' /\ sweep.pc = "next" /\ sweep'.pc = "forget"
         => u.expires < sweep.cutoff]_vars

(* Nothing sits at uploading for ever (upload.go Sweep): every file is     *)
(* finished, deleted or swept, whatever its client, its requests and the   *)
(* bucket do.                                                              *)
UploadsSettle ==
  \A f \in Files : row[f].state = "uploading" ~> row[f].state # "uploading"

(* The database and the bucket agree through every race: what can be       *)
(* opened is whole, what is stored can be found, and one file is one       *)
(* upload.                                                                 *)
ObjectsKept == ReadyIsWhole /\ EveryObjectFindable /\ OneUpload

(* No step takes what somebody is using: neither the object of a ready     *)
(* file nor the upload of whoever still sends parts.                       *)
NothingUnderUse == ReadyUntouched /\ SweepSparesTheLiving
=============================================================================
