--------------------------- MODULE UploadsProofs ---------------------------
(***************************************************************************)
(* Proofs about Uploads, for every number of files, requests, crashes and  *)
(* failures: through every race of requests, sweep and cleanup what can be *)
(* opened is whole and stays as it is, what is stored can be found, and    *)
(* one file is one upload.                                                 *)
(***************************************************************************)
EXTENDS Uploads, TLAPS

(* A cleanup record of the object n of f.                                  *)
Recorded(f, n) == \E c \in cleanup : c.file = f /\ c.n = n

Busy(w) == work[w].pc # "idle"
Completing == {"copy", "head", "finish", "abandon", "wipe", "drop"}

(* A request that still holds the fresh key it drew.                       *)
Owns(w) == work[w].pc \in Completing /\ work[w].n # 0

(* f is deleted for good: nothing makes it a file again.                   *)
Gone(f) == row[f].state = "deleted" /\ \A t \in trash : t.file # f

(* A row names its first key until it is ready, and a small file that is   *)
(* ready never does: its first key's URL may still be good.                *)
Rows ==
  \A f \in Files :
    /\ row[f].state \in {"none", "uploading"} => row[f].n = 0
    /\ row[f].state = "ready" /\ row[f].small => row[f].n # 0
    /\ row[f].n <= fresh

(* The trash holds a deleted file once, with the key its row still has.    *)
Kept ==
  /\ \A t \in trash : /\ row[t.file].state = "deleted" /\ row[t.file].n = t.n
                      /\ row[t.file].small => t.n # 0
  /\ \A s, t \in trash : s.file = t.file => s = t

(* What a file has left, or is about to leave, is recorded.                *)
Records ==
  /\ \A c \in cleanup : row[c.file].state # "none" /\ c.n <= fresh
  /\ \A f \in Files :
       /\ row[f].state = "deleted" => Recorded(f, row[f].n) /\ Recorded(f, 0)
       /\ row[f].state = "ready" /\ row[f].n # 0 => Recorded(f, 0)

(* A request is about a file there is or was, and ends within the day      *)
(* after the one it began in.                                              *)
Requests ==
  \A w \in Workers : Busy(w) =>
    /\ work[w].file \in Files
    /\ row[work[w].file].state # "none"
    /\ work[w].since <= now /\ now <= work[w].since + 1
    /\ work[w].n <= fresh
    /\ work[w].pc \in {"copy", "drop"} => work[w].n # 0
    /\ work[w].pc \in {"start", "insert", "claim", "assemble"}
         => work[w].n = 0 /\ ~row[work[w].file].small
    /\ work[w].pc = "delete" => work[w].n = 0
    /\ work[w].pc = "fresh" => row[work[w].file].small
    /\ work[w].pc \in {"head", "finish"} /\ row[work[w].file].small => work[w].n # 0

(* A fresh key has one owner, is no row's yet, and is recorded since its   *)
(* owner began.                                                            *)
Owners ==
  /\ \A w \in Workers : Owns(w) =>
       /\ row[work[w].file].small
       /\ row[work[w].file].n # work[w].n
       /\ Recorded(work[w].file, work[w].n)
       /\ \A c \in cleanup :
            c.file = work[w].file /\ c.n = work[w].n => c.at >= work[w].since
  /\ \A v, w \in Workers : Owns(v) /\ Owns(w) /\ v # w => work[v].n # work[w].n

(* What the cleanup has taken on is nobody's and cannot become anybody's   *)
(* while it holds the reservation.                                         *)
Cleaning ==
  \A w \in Workers : work[w].pc = "clean" =>
    /\ maint = w
    /\ ~(Live(work[w].file) /\ row[work[w].file].n = work[w].n)
    /\ \A t \in trash : t.file = work[w].file /\ t.n = work[w].n => ~Restorable(t)
    /\ \A v \in Workers :
         Owns(v) /\ work[v].file = work[w].file => work[v].n # work[w].n

(* A first key is wiped when nothing names it or will again.               *)
Wiping ==
  \A w \in Workers :
    work[w].pc = "wipe" => row[work[w].file].small \/ Gone(work[w].file)

Forgetting == sweep.pc = "forget" => sweep.one.file \in Files /\ Gone(sweep.one.file)

(* What has been measured is there until the transaction that names it.    *)
Measured ==
  \A w \in Workers :
    work[w].pc = "finish" /\ row[work[w].file].state = "uploading"
      => \E o \in Stored(work[w].file, work[w].n) : o.ok

(* createMu: one multipart upload is started at a time, for a file that    *)
(* has none, before the key of its create is forgotten.                    *)
Creating ==
  /\ \A w \in Workers : work[w].pc \in {"start", "insert"} =>
       /\ creating = w
       /\ Of(work[w].file) = {}
       /\ row[work[w].file].state = "uploading" \/ Gone(work[w].file)
       /\ work[w].since <= row[work[w].file].created + KeyLife
       /\ work[w].pc = "insert" => work[w].mp # 0
  /\ \A u \in uploads : u.mp # 0 /\ ~row[u.file].small

(* A larger file has no object before it has an upload, nor a completion    *)
(* that could make one.                                                     *)
Unstarted ==
  \A f \in Files :
    ~row[f].small /\ row[f].state = "uploading" /\ Of(f) = {} =>
      /\ Stored(f, 0) = {}
      /\ \A w \in Workers : work[w].file = f => work[w].pc \notin {"claim", "assemble"}

(* What the sweep lists without an uploads row will not have one again.    *)
Listed ==
  /\ sweep.cutoff <= now
  /\ \A one \in sweep.found : one.mp = 0 =>
       /\ row[one.file].state # "none"
       /\ Of(one.file) = {}
       /\ row[one.file].created + AbandonAt < sweep.cutoff

IInv ==
  /\ Rows /\ Kept /\ Records /\ Requests /\ Owners /\ Cleaning /\ Wiping /\ Forgetting
  /\ Measured /\ Creating /\ Unstarted /\ Listed /\ ObjectsKept
-----------------------------------------------------------------------------
States == {"none", "uploading", "ready", "deleted"}
Row    == [state : States, n : Nat, created : Nat, small : BOOLEAN]
Upload == [file : Files, mp : Nat, expires : Nat]
Steps  == {"idle", "start", "insert", "claim", "assemble", "fresh", "copy", "head", "finish",
           "abandon", "wipe", "drop", "delete", "clean"}
Job    == [pc : Steps, file : Files \cup {None}, mp : Nat, n : Nat, since : 0..MaxNow]

(* What a step does to one request, and to no other.                       *)
Others(w) == \A v \in Workers : v # w => work'[v] = work[v]
Ends(w) == work'[w] = Idle /\ Others(w)
Becomes(w, pc, mp, n) ==
  /\ work'[w].pc = pc /\ work'[w].mp = mp /\ work'[w].n = n
  /\ work'[w].file = work[w].file /\ work'[w].since = work[w].since
  /\ Others(w)
Begun(w, pc, f, mp, n) ==
  /\ work[w].pc = "idle"
  /\ work'[w] = [pc |-> pc, file |-> f, mp |-> mp, n |-> n, since |-> now]
  /\ Others(w)
GaveUp(w) == Ends(w) \/ (work[w].n # 0 /\ Becomes(w, "drop", work[w].mp, work[w].n))

(* What a step does to one row, and to no other.                           *)
RowBecomes(f, state, n) ==
  /\ row'[f].state = state /\ row'[f].n = n
  /\ row'[f].small = row[f].small /\ row'[f].created = row[f].created
  /\ \A g \in Files : g # f => row'[g] = row[g]

(* What a step writes to file_cleanup: a key, or what finishing writes.     *)
Noted(f, n) == cleanup' = cleanup \cup {[file |-> f, n |-> n, at |-> now]}
Settled(f, n) ==
  cleanup' = {c \in cleanup : c.file # f \/ c.n # n} \cup
             (IF n # 0 THEN {[file |-> f, n |-> 0, at |-> now]} ELSE {})

LEMMA InitTypes == Init => TypeOK
  <1> SUFFICES ASSUME Init PROVE TypeOK
    OBVIOUS
  <1>1. row \in [Files -> [state : {"none", "uploading", "ready", "deleted"}, n : Nat,
                           created : Nat, small : BOOLEAN]]
    BY DEF Init
  <1> QED
    BY <1>1, UploadsAssumption DEF Init, TypeOK, Idle, Asleep

LEMMA InitInv == Init => IInv
  BY UploadsAssumption DEF Init, IInv, Rows, Kept, Records, Requests, Owners, Cleaning, Wiping,
     Forgetting, Measured, Creating, Unstarted, Listed, ObjectsKept, ReadyIsWhole, EveryObjectFindable, OneUpload,
     Idle, Asleep, Busy, Owns, Recorded, Of, Stored, Gone

(* TypeOK, part by part.                                                   *)
LEMMA Types ==
  /\ TypeOK =>
       /\ now \in 0..MaxNow /\ now \in Nat /\ fresh \in Nat
       /\ row \in [Files -> Row] /\ work \in [Workers -> Job]
       /\ uploads \subseteq Upload
       /\ \A u \in uploads : row[u.file].state = "uploading"
       /\ cleanup \subseteq Keys /\ trash \subseteq Keys
       /\ objects \subseteq [file : Files, n : Nat, ok : BOOLEAN, at : Nat]
       /\ sweep.cutoff \in 0..MaxNow /\ sweep.cutoff \in Nat
       /\ sweep.found \subseteq [file : Files, mp : Nat]
  /\ row \in [Files -> Row] /\ uploads \subseteq Upload
     /\ (\A u \in uploads : row[u.file].state = "uploading")
     => uploads \subseteq [file : {f \in Files : row[f].state = "uploading"}, mp : Nat,
                           expires : Nat]
  BY UploadsAssumption DEF TypeOK, Row, States, Upload, Job, Steps

LEMMA WorkSet ==
  ASSUME work \in [Workers -> Job], NEW w \in Workers, NEW r \in Job,
         work' = [work EXCEPT ![w] = r]
  PROVE  work' \in [Workers -> Job] /\ work'[w] = r /\ Others(w)
  BY DEF Others

LEMMA Ended ==
  ASSUME TypeOK, NEW w \in Workers, Done(w)
  PROVE  work' \in [Workers -> Job] /\ Ends(w)
  <1>1. Idle \in Job
    BY UploadsAssumption, 0 \in 0..MaxNow DEF Idle, Job, Steps
  <1> QED
    BY <1>1, Types, WorkSet DEF Done, Ends

LEMMA Went ==
  ASSUME TypeOK, NEW w \in Workers, NEW pc \in Steps, Goes(w, pc)
  PROVE  work' \in [Workers -> Job] /\ Becomes(w, pc, work[w].mp, work[w].n)
  BY Types DEF Goes, Job, Becomes, Others

LEMMA GivenUp ==
  ASSUME TypeOK, NEW w \in Workers, GivesUp(w)
  PROVE  work' \in [Workers -> Job] /\ GaveUp(w)
  <1>1. CASE work[w].n = 0
    <2>1. Done(w)
      BY <1>1 DEF GivesUp
    <2>2. work' \in [Workers -> Job] /\ Ends(w)
      BY <2>1, Ended
    <2> QED
      BY <2>2 DEF GaveUp
  <1>2. CASE work[w].n # 0
    <2>1. Goes(w, "drop") /\ "drop" \in Steps
      BY <1>2 DEF GivesUp, Steps
    <2> QED
      BY <1>2, <2>1, Went DEF GaveUp
  <1> QED
    BY <1>1, <1>2

LEMMA Started ==
  ASSUME TypeOK, NEW w \in Workers, NEW pc \in Steps, NEW f \in Files, NEW mp \in Nat, NEW n \in Nat,
         Starts(w, [pc |-> pc, file |-> f, mp |-> mp, n |-> n, since |-> 0])
  PROVE  work' \in [Workers -> Job] /\ Begun(w, pc, f, mp, n)
  <1> DEFINE r == [pc |-> pc, file |-> f, mp |-> mp, n |-> n, since |-> now]
  <1>1. r \in Job
    BY Types DEF Job
  <1>2. work' = [work EXCEPT ![w] = r] /\ work[w].pc = "idle"
    <2>1. [[pc |-> pc, file |-> f, mp |-> mp, n |-> n, since |-> 0] EXCEPT !.since = now] = r
      OBVIOUS
    <2> QED
      BY <2>1 DEF Starts
  <1> HIDE DEF r
  <1>3. work' \in [Workers -> Job] /\ work'[w] = r /\ Others(w)
    BY <1>1, <1>2, Types, WorkSet
  <1> QED
    BY <1>2, <1>3 DEF Begun, r

(* The records requests start with, one field at a time.                   *)
LEMMA IdleAt ==
  ASSUME NEW pc, NEW f
  PROVE  [Idle EXCEPT !.pc = pc, !.file = f]
         = [pc |-> pc, file |-> f, mp |-> 0, n |-> 0, since |-> 0]
  <1> DEFINE a == [Idle EXCEPT !.pc = pc]
             b == [a EXCEPT !.file = f]
  <1>1. a = [pc |-> pc, file |-> None, mp |-> 0, n |-> 0, since |-> 0]
    BY DEF Idle
  <1> HIDE DEF a
  <1>2. b = [pc |-> pc, file |-> f, mp |-> 0, n |-> 0, since |-> 0]
    BY <1>1
  <1> QED
    BY <1>2 DEF b, a

LEMMA IdleWith ==
  ASSUME NEW pc, NEW f, NEW mp
  PROVE  [Idle EXCEPT !.pc = pc, !.file = f, !.mp = mp]
         = [pc |-> pc, file |-> f, mp |-> mp, n |-> 0, since |-> 0]
  <1> DEFINE b == [Idle EXCEPT !.pc = pc, !.file = f]
             c == [b EXCEPT !.mp = mp]
  <1>1. b = [pc |-> pc, file |-> f, mp |-> 0, n |-> 0, since |-> 0]
    BY IdleAt
  <1> HIDE DEF b
  <1>2. c = [pc |-> pc, file |-> f, mp |-> mp, n |-> 0, since |-> 0]
    BY <1>1
  <1> QED
    BY <1>2 DEF c, b

LEMMA IdleHolding ==
  ASSUME NEW pc, NEW f, NEW n
  PROVE  [Idle EXCEPT !.pc = pc, !.file = f, !.n = n]
         = [pc |-> pc, file |-> f, mp |-> 0, n |-> n, since |-> 0]
  <1> DEFINE b == [Idle EXCEPT !.pc = pc, !.file = f]
             c == [b EXCEPT !.n = n]
  <1>1. b = [pc |-> pc, file |-> f, mp |-> 0, n |-> 0, since |-> 0]
    BY IdleAt
  <1> HIDE DEF b
  <1>2. c = [pc |-> pc, file |-> f, mp |-> 0, n |-> n, since |-> 0]
    BY <1>1
  <1> QED
    BY <1>2 DEF c, b

LEMMA RowSet ==
  ASSUME TypeOK, NEW f \in Files, NEW state \in States, NEW n \in Nat,
         row' = [row EXCEPT ![f].state = state, ![f].n = n]
  PROVE  row' \in [Files -> Row] /\ RowBecomes(f, state, n)
  BY Types DEF Row, RowBecomes

LEMMA Removed ==
  ASSUME TypeOK, NEW f \in Files, Remove(f)
  PROVE  /\ row' \in [Files -> Row] /\ RowBecomes(f, "deleted", row[f].n)
         /\ uploads' = uploads \ Of(f)
         /\ Noted(f, row[f].n)
  BY Types DEF Remove, Row, States, RowBecomes, Noted

LEMMA Readied ==
  ASSUME TypeOK, NEW f \in Files, NEW n \in Nat, Ready(f, n)
  PROVE  /\ row' \in [Files -> Row] /\ RowBecomes(f, "ready", n)
         /\ uploads' = uploads \ Of(f)
         /\ Settled(f, n)
  BY Types, RowSet DEF Ready, States, Settled
(* A step that leaves the tables alone.                                     *)
LEMMA TablesStay ==
  ASSUME TypeOK, IInv, UNCHANGED <<now, tables, sweep>>, fresh' \in Nat, fresh <= fresh'
  PROVE  Rows' /\ Kept' /\ Records' /\ Listed' /\ OneUpload' /\ Forgetting'
  BY Types DEF tables, IInv, Rows, Kept, Records, Recorded, Listed, Of, ObjectsKept, OneUpload,
     Forgetting, Gone, Keys, Row

(* A step that leaves the objects and what names them alone.                *)
LEMMA ObjectsStay ==
  ASSUME IInv, UNCHANGED <<now, row, cleanup, trash, objects>>
  PROVE  ReadyIsWhole' /\ EveryObjectFindable'
  BY DEF IInv, ObjectsKept, ReadyIsWhole, EveryObjectFindable, Stored, Live, Restorable

(* A larger file does not come by an object, or a completion, before it    *)
(* has an upload.                                                          *)
LEMMA UnstartedStays ==
  ASSUME TypeOK, IInv,
         \A f \in Files :
           /\ row'[f].small = row[f].small
           /\ row'[f].state = "uploading" => row[f].state = "uploading" \/ row[f].small,
         \A f \in Files : row'[f].state = "uploading" /\ Of(f)' = {} => Of(f) = {},
         \A o \in objects' : o \in objects \/ o.n # 0 \/ row[o.file].small,
         \A v \in Workers : work'[v].pc \in {"claim", "assemble"} =>
           work[v].pc \in {"claim", "assemble"} /\ work'[v].file = work[v].file
  PROVE  Unstarted'
  <1> SUFFICES ASSUME NEW f \in Files, ~row'[f].small, row'[f].state = "uploading", Of(f)' = {}
               PROVE  /\ Stored(f, 0)' = {}
                      /\ \A v \in Workers :
                           work'[v].file = f => work'[v].pc \notin {"claim", "assemble"}
    BY DEF Unstarted
  <1>1. /\ ~row[f].small
        /\ Stored(f, 0) = {}
        /\ \A v \in Workers : work[v].file = f => work[v].pc \notin {"claim", "assemble"}
    BY DEF IInv, Unstarted
  <1>2. \A o \in objects' : ~(o.file = f /\ o.n = 0)
    BY <1>1 DEF Stored
  <1> QED
    BY <1>1, <1>2 DEF Stored

(* Whoever starts an upload goes on when rows and uploads go.              *)
LEMMA CreatingStays ==
  ASSUME TypeOK, IInv, creating' = creating, uploads' \subseteq uploads,
         \A g \in Files : row'[g].small = row[g].small /\ row'[g].created = row[g].created,
         \A v \in Workers : work'[v].pc \in {"start", "insert"} => work'[v] = work[v],
         \A v \in Workers, g \in Files : work[v].pc \in {"start", "insert"} /\ work[v].file = g =>
           row'[g].state = "uploading" \/ Gone(g)'
  PROVE  Creating'
  <1>1. \A v \in Workers : work[v].pc \in {"start", "insert"} => work[v].file \in Files
    BY DEF IInv, Requests, Busy
  <1>2. \A u \in uploads : u.file \in Files
    BY Types DEF Upload
  <1> QED
    BY <1>1, <1>2 DEF IInv, Creating, Of

LEMMA StartMultipartKeeps ==
  ASSUME TypeOK, IInv, TypeOK', NEW w \in Workers, StartMultipart(w)
  PROVE  IInv'
  <1>1. /\ work[w].pc = "start" /\ Becomes(w, "insert", fresh', work[w].n)
        /\ fresh' = fresh + 1
        /\ UNCHANGED <<now, tables, objects, creating, maint, sweep>>
    BY Types DEF StartMultipart, Becomes, Others, Job, Steps, tables
  <1>2. Rows' /\ Kept' /\ Records' /\ Listed' /\ OneUpload' /\ Forgetting'
    BY <1>1, Types, TablesStay
  <1>3. ReadyIsWhole' /\ EveryObjectFindable'
    BY <1>1, ObjectsStay DEF tables
  <1>4. Requests'
    BY <1>1, Types DEF IInv, Requests, Busy, Job, GaveUp, Ends, Becomes, Begun, Others, Idle,
      tables
  <1>5. Owners'
    BY <1>1, Types DEF IInv, Owners, Owns, Completing, Recorded, GaveUp, Ends, Becomes, Begun,
      Others, Idle, tables
  <1>6. Cleaning'
    BY <1>1, Types DEF IInv, Cleaning, Owns, Completing, Live, Restorable, GaveUp, Ends,
      Becomes, Begun, Others, Idle, tables
  <1>7. Wiping'
    BY <1>1, Types DEF IInv, Wiping, Gone, GaveUp, Ends, Becomes, Begun, Others, Idle, tables
  <1>8. Measured'
    BY <1>1, Types DEF IInv, Measured, Stored, GaveUp, Ends, Becomes, Begun, Others, Idle,
      tables
  <1>9. Creating'
    BY <1>1, Types DEF IInv, Creating, Of, Gone, GaveUp, Ends, Becomes, Begun, Others, Idle,
      tables
  <1>10. Unstarted'
    BY <1>1, Types DEF IInv, Unstarted, Stored, Of, GaveUp, Ends, Becomes, Begun, Others,
      Idle, tables
  <1> QED
    BY <1>2, <1>3, <1>4, <1>5, <1>6, <1>7, <1>8, <1>9, <1>10 DEF IInv, ObjectsKept

LEMMA Multiparts ==
  ASSUME TypeOK, NEW f \in Files, NEW mp \in Multipart(f)
  PROVE  mp \in Nat /\ (mp # 0 => Of(f) # {})
  BY Types DEF Multipart, Upload, Of

LEMMA HeadDoes ==
  ASSUME TypeOK, IInv, NEW w \in Workers, Head(w)
  PROVE  \/ GaveUp(w)
         \/ \E mp \in Nat : Becomes(w, "abandon", mp, work[w].n)
         \/ /\ Becomes(w, "finish", work[w].mp, work[w].n)
            /\ \E o \in Stored(work[w].file, work[w].n) : o.ok
  <1> DEFINE f == work[w].file
             o == Stored(f, work[w].n)
  <1>1. work[w].pc = "head" /\ f \in Files
    BY DEF Head, IInv, Requests, Busy
  <1>2. CASE o = {}
    <2>1. GivesUp(w)
      BY <1>2 DEF Head
    <2> QED
      BY <2>1, GivenUp
  <1>3. CASE o # {} /\ \A x \in o : x.ok
    <2>1. Goes(w, "finish")
      BY <1>3 DEF Head
    <2>2. Becomes(w, "finish", work[w].mp, work[w].n)
      BY <2>1, Went DEF Steps
    <2> QED
      BY <1>3, <2>2
  <1>4. CASE o # {} /\ ~\A x \in o : x.ok
    <2>1. PICK mp \in Multipart(f) :
            work' = [work EXCEPT ![w].pc = "abandon", ![w].mp = mp]
      BY <1>4 DEF Head
    <2>2. mp \in Nat
      BY <1>1, <2>1, Multiparts
    <2>3. Becomes(w, "abandon", mp, work[w].n)
      BY <2>1, Types DEF Becomes, Others, Job
    <2> QED
      BY <2>2, <2>3
  <1> QED
    BY <1>2, <1>3, <1>4

LEMMA HeadKeeps ==
  ASSUME TypeOK, IInv, TypeOK', NEW w \in Workers, Head(w)
  PROVE  IInv'
  <1>1. /\ work[w].pc = "head"
        /\ UNCHANGED <<now, tables, objects, creating, maint, sweep, fresh>>
    BY DEF Head, bucket
  <1>2. \/ GaveUp(w)
        \/ \E mp \in Nat : Becomes(w, "abandon", mp, work[w].n)
        \/ /\ Becomes(w, "finish", work[w].mp, work[w].n)
           /\ \E o \in Stored(work[w].file, work[w].n) : o.ok
    BY HeadDoes
  <1>3. Rows' /\ Kept' /\ Records' /\ Listed' /\ OneUpload' /\ Forgetting'
    BY <1>1, <1>2, Types, TablesStay
  <1>4. ReadyIsWhole' /\ EveryObjectFindable'
    BY <1>1, <1>2, ObjectsStay DEF tables
  <1>5. Requests'
    BY <1>1, <1>2, Types DEF IInv, Requests, Busy, Job, GaveUp, Ends, Becomes, Begun, Others,
      Idle, tables
  <1>6. Owners'
    BY <1>1, <1>2, Types DEF IInv, Owners, Owns, Completing, Recorded, GaveUp, Ends, Becomes,
      Begun, Others, Idle, tables
  <1>7. Cleaning'
    BY <1>1, <1>2, Types DEF IInv, Cleaning, Owns, Completing, Live, Restorable, GaveUp, Ends,
      Becomes, Begun, Others, Idle, tables
  <1>8. Wiping'
    BY <1>1, <1>2, Types DEF IInv, Wiping, Gone, GaveUp, Ends, Becomes, Begun, Others, Idle,
      tables
  <1>9. Measured'
    BY <1>1, <1>2, Types DEF IInv, Measured, Stored, GaveUp, Ends, Becomes, Begun, Others,
      Idle, tables
  <1>10. Creating'
    BY <1>1, <1>2, Types DEF IInv, Creating, Of, Gone, GaveUp, Ends, Becomes, Begun, Others,
      Idle, tables
  <1>11. Unstarted'
    BY <1>1, <1>2, Types DEF IInv, Unstarted, Stored, Of, GaveUp, Ends, Becomes, Begun,
      Others, Idle, tables
  <1> QED
    BY <1>3, <1>4, <1>5, <1>6, <1>7, <1>8, <1>9, <1>10, <1>11 DEF IInv, ObjectsKept

LEMMA FailsDoes ==
  ASSUME TypeOK, NEW w \in Workers, Fails(w)
  PROVE  Ends(w) \/ (work[w].pc \in Completing /\ GaveUp(w))
  BY GivenUp, Ended DEF Fails, Completing

LEMMA FailsKeeps ==
  ASSUME TypeOK, IInv, TypeOK', NEW w \in Workers, Fails(w)
  PROVE  IInv'
  <1>1. /\ Busy(w)
        /\ Ends(w) \/ (work[w].pc \in Completing /\ GaveUp(w))
        /\ creating' = IF creating = w THEN None ELSE creating
        /\ maint' = IF maint = w THEN None ELSE maint
        /\ UNCHANGED <<now, tables, objects, sweep, fresh>>
    BY FailsDoes DEF Fails, Busy
  <1>2. Rows' /\ Kept' /\ Records' /\ Listed' /\ OneUpload' /\ Forgetting'
    BY <1>1, Types, TablesStay
  <1>3. ReadyIsWhole' /\ EveryObjectFindable'
    BY <1>1, ObjectsStay DEF tables
  <1>4. Requests'
    BY <1>1, Types DEF IInv, Requests, Busy, Job, GaveUp, Ends, Becomes, Begun, Others, Idle,
      tables
  <1>5. Owners'
    BY <1>1, Types DEF IInv, Owners, Owns, Completing, Recorded, GaveUp, Ends, Becomes, Begun,
      Others, Idle, tables
  <1>6. Cleaning'
    BY <1>1, Types DEF IInv, Cleaning, Owns, Completing, Live, Restorable, GaveUp, Ends,
      Becomes, Begun, Others, Idle, tables
  <1>7. Wiping'
    BY <1>1, Types DEF IInv, Wiping, Gone, GaveUp, Ends, Becomes, Begun, Others, Idle, tables
  <1>8. Measured'
    BY <1>1, Types DEF IInv, Measured, Stored, GaveUp, Ends, Becomes, Begun, Others, Idle,
      tables
  <1>9. Creating'
    BY <1>1, Types DEF IInv, Creating, Of, Gone, GaveUp, Ends, Becomes, Begun, Others, Idle,
      tables
  <1>10. Unstarted'
    BY <1>1, Types DEF IInv, Unstarted, Stored, Of, GaveUp, Ends, Becomes, Begun, Others,
      Idle, tables
  <1> QED
    BY <1>2, <1>3, <1>4, <1>5, <1>6, <1>7, <1>8, <1>9, <1>10 DEF IInv, ObjectsKept

LEMMA CompleteReadDoes ==
  ASSUME TypeOK, IInv, NEW w \in Workers, NEW f \in Files, CompleteRead(w, f)
  PROVE  \E pc \in {"claim", "fresh", "head"}, mp \in Nat :
           Begun(w, pc, f, mp, 0) /\ (pc = "fresh" <=> row[f].small)
           /\ (pc = "claim" => Of(f) # {})
  <1>1. PICK mp \in Multipart(f) :
          Starts(w, [Idle EXCEPT
                       !.pc = IF mp # 0 THEN "claim" ELSE IF Finalize(f) THEN "fresh" ELSE "head",
                       !.file = f, !.mp = mp])
    BY DEF CompleteRead
  <1>2. mp \in Nat /\ (mp # 0 => Of(f) # {})
    BY <1>1, Multiparts
  <1> DEFINE pc == IF mp # 0 THEN "claim" ELSE IF Finalize(f) THEN "fresh" ELSE "head"
  <1>3. Starts(w, [pc |-> pc, file |-> f, mp |-> mp, n |-> 0, since |-> 0])
    <2>1. [Idle EXCEPT !.pc = pc, !.file = f, !.mp = mp]
          = [pc |-> pc, file |-> f, mp |-> mp, n |-> 0, since |-> 0]
      BY IdleWith
    <2> QED
      BY <1>1, <2>1
  <1>4. pc \in Steps
    BY DEF Steps
  <1> HIDE DEF pc
  <1>5. Begun(w, pc, f, mp, 0)
    BY <1>2, <1>3, <1>4, Started
  <1>6. mp # 0 => ~row[f].small
    BY <1>2 DEF Of, IInv, Creating
  <1> QED
    BY <1>2, <1>5, <1>6 DEF pc, Finalize

LEMMA CompleteReadKeeps ==
  ASSUME TypeOK, IInv, TypeOK', NEW w \in Workers, NEW f \in Files, CompleteRead(w, f)
  PROVE  IInv'
  <1>1. /\ row[f].state = "uploading"
        /\ UNCHANGED <<now, tables, objects, creating, maint, sweep, fresh>>
    BY DEF CompleteRead, bucket
  <1>2. PICK pc \in {"claim", "fresh", "head"}, mp \in Nat :
          Begun(w, pc, f, mp, 0) /\ (pc = "fresh" <=> row[f].small)
            /\ (pc = "claim" => Of(f) # {})
    BY CompleteReadDoes
  <1>3. Rows' /\ Kept' /\ Records' /\ Listed' /\ OneUpload' /\ Forgetting'
    BY <1>1, <1>2, Types, TablesStay
  <1>4. ReadyIsWhole' /\ EveryObjectFindable'
    BY <1>1, <1>2, ObjectsStay DEF tables
  <1>5. Requests'
    BY <1>1, <1>2, Types DEF IInv, Requests, Busy, Job, GaveUp, Ends, Becomes, Begun, Others,
      Idle, tables
  <1>6. Owners'
    BY <1>1, <1>2, Types DEF IInv, Owners, Owns, Completing, Recorded, GaveUp, Ends, Becomes,
      Begun, Others, Idle, tables
  <1>7. Cleaning'
    BY <1>1, <1>2, Types DEF IInv, Cleaning, Owns, Completing, Live, Restorable, GaveUp, Ends,
      Becomes, Begun, Others, Idle, tables
  <1>8. Wiping'
    BY <1>1, <1>2, Types DEF IInv, Wiping, Gone, GaveUp, Ends, Becomes, Begun, Others, Idle,
      tables
  <1>9. Measured'
    BY <1>1, <1>2, Types DEF IInv, Measured, Stored, GaveUp, Ends, Becomes, Begun, Others,
      Idle, tables
  <1>10. Creating'
    BY <1>1, <1>2, Types DEF IInv, Creating, Of, Gone, GaveUp, Ends, Becomes, Begun, Others,
      Idle, tables
  <1>11. Unstarted'
    BY <1>1, <1>2, Types DEF IInv, Unstarted, Stored, Of, GaveUp, Ends, Becomes, Begun,
      Others, Idle, tables
  <1> QED
    BY <1>3, <1>4, <1>5, <1>6, <1>7, <1>8, <1>9, <1>10, <1>11 DEF IInv, ObjectsKept

LEMMA DeleteReadDoes ==
  ASSUME TypeOK, NEW w \in Workers, NEW f \in Files, DeleteRead(w, f)
  PROVE  \E mp \in Nat : Begun(w, "delete", f, mp, 0)
  <1>1. PICK mp \in Multipart(f) :
          Starts(w, [Idle EXCEPT !.pc = "delete", !.file = f, !.mp = mp])
    BY DEF DeleteRead
  <1>2. mp \in Nat
    BY <1>1, Multiparts
  <1>3. [Idle EXCEPT !.pc = "delete", !.file = f, !.mp = mp]
        = [pc |-> "delete", file |-> f, mp |-> mp, n |-> 0, since |-> 0]
    BY IdleWith
  <1> QED
    BY <1>1, <1>2, <1>3, Started DEF Steps

LEMMA DeleteReadKeeps ==
  ASSUME TypeOK, IInv, TypeOK', NEW w \in Workers, NEW f \in Files, DeleteRead(w, f)
  PROVE  IInv'
  <1>1. /\ row[f].state \in {"uploading", "ready"}
        /\ UNCHANGED <<now, tables, objects, creating, maint, sweep, fresh>>
    BY DEF DeleteRead, bucket, Live
  <1>2. PICK mp \in Nat : Begun(w, "delete", f, mp, 0)
    BY DeleteReadDoes
  <1>3. Rows' /\ Kept' /\ Records' /\ Listed' /\ OneUpload' /\ Forgetting'
    BY <1>1, <1>2, Types, TablesStay
  <1>4. ReadyIsWhole' /\ EveryObjectFindable'
    BY <1>1, <1>2, ObjectsStay DEF tables
  <1>5. Requests'
    BY <1>1, <1>2, Types DEF IInv, Requests, Busy, Job, GaveUp, Ends, Becomes, Begun, Others,
      Idle, tables
  <1>6. Owners'
    BY <1>1, <1>2, Types DEF IInv, Owners, Owns, Completing, Recorded, GaveUp, Ends, Becomes,
      Begun, Others, Idle, tables
  <1>7. Cleaning'
    BY <1>1, <1>2, Types DEF IInv, Cleaning, Owns, Completing, Live, Restorable, GaveUp, Ends,
      Becomes, Begun, Others, Idle, tables
  <1>8. Wiping'
    BY <1>1, <1>2, Types DEF IInv, Wiping, Gone, GaveUp, Ends, Becomes, Begun, Others, Idle,
      tables
  <1>9. Measured'
    BY <1>1, <1>2, Types DEF IInv, Measured, Stored, GaveUp, Ends, Becomes, Begun, Others,
      Idle, tables
  <1>10. Creating'
    BY <1>1, <1>2, Types DEF IInv, Creating, Of, Gone, GaveUp, Ends, Becomes, Begun, Others,
      Idle, tables
  <1>11. Unstarted'
    BY <1>1, <1>2, Types DEF IInv, Unstarted, Stored, Of, GaveUp, Ends, Becomes, Begun,
      Others, Idle, tables
  <1> QED
    BY <1>3, <1>4, <1>5, <1>6, <1>7, <1>8, <1>9, <1>10, <1>11 DEF IInv, ObjectsKept
LEMMA WipeKeeps ==
  ASSUME TypeOK, IInv, TypeOK', NEW w \in Workers, Wipe(w)
  PROVE  IInv'
  <1>1. /\ work[w].pc = "wipe" /\ work[w].file \in Files
        /\ objects' = objects \ Stored(work[w].file, 0)
        /\ row[work[w].file].small \/ Gone(work[w].file)
        /\ UNCHANGED <<now, tables, creating, maint, sweep, fresh>>
    BY DEF Wipe, Forgotten, IInv, Requests, Busy, Wiping
  <1>2. GaveUp(w)
    BY GivenUp DEF Wipe
  <1>3. Rows' /\ Kept' /\ Records' /\ Listed' /\ OneUpload' /\ Forgetting'
    BY <1>1, <1>2, Types, TablesStay
  <1>4. Requests'
    BY <1>1, <1>2, Types DEF IInv, Requests, Busy, Job, GaveUp, Ends, Becomes, Begun, Others,
      Idle, tables
  <1>5. Owners'
    BY <1>1, <1>2, Types DEF IInv, Owners, Owns, Completing, Recorded, GaveUp, Ends, Becomes,
      Begun, Others, Idle, tables
  <1>6. Cleaning'
    BY <1>1, <1>2, Types DEF IInv, Cleaning, Owns, Completing, Live, Restorable, GaveUp, Ends,
      Becomes, Begun, Others, Idle, tables
  <1>7. Wiping'
    BY <1>1, <1>2, Types DEF IInv, Wiping, Gone, GaveUp, Ends, Becomes, Begun, Others, Idle,
      tables
  <1>8. Measured'
    BY <1>1, <1>2, Types DEF IInv, Measured, Stored, Requests, Busy, Gone, GaveUp, Ends,
      Becomes, Begun, Others, Idle, tables
  <1>9. Creating'
    BY <1>1, <1>2, Types DEF IInv, Creating, Of, Gone, GaveUp, Ends, Becomes, Begun, Others,
      Idle, tables
  <1>10. Unstarted'
    BY <1>1, <1>2, Types DEF IInv, Unstarted, Stored, Of, GaveUp, Ends, Becomes, Begun,
      Others, Idle, tables
  <1>11. ReadyIsWhole'
    BY <1>1, <1>2, Types DEF IInv, ObjectsKept, ReadyIsWhole, Stored, Restorable, Keys, Rows,
      Kept, Gone, tables
  <1>12. EveryObjectFindable'
    BY <1>1, <1>2, Types DEF IInv, ObjectsKept, EveryObjectFindable, Live, Stored, Recorded,
      tables
  <1> QED
    BY <1>3, <1>4, <1>5, <1>6, <1>7, <1>8, <1>9, <1>10, <1>11, <1>12 DEF IInv, ObjectsKept

LEMMA DropKeeps ==
  ASSUME TypeOK, IInv, TypeOK', NEW w \in Workers, Drop(w)
  PROVE  IInv'
  <1>1. /\ work[w].pc = "drop" /\ work[w].file \in Files /\ Owns(w)
        /\ objects' = objects \ Stored(work[w].file, work[w].n)
        /\ UNCHANGED <<now, tables, creating, maint, sweep, fresh>>
    BY DEF Drop, Forgotten, IInv, Requests, Busy, Owns, Completing
  <1>2. Ends(w)
    BY Ended DEF Drop
  <1>3. Rows' /\ Kept' /\ Records' /\ Listed' /\ OneUpload' /\ Forgetting'
    BY <1>1, <1>2, Types, TablesStay
  <1>4. Requests'
    BY <1>1, <1>2, Types DEF IInv, Requests, Busy, Job, GaveUp, Ends, Becomes, Begun, Others,
      Idle, tables
  <1>5. Owners'
    BY <1>1, <1>2, Types DEF IInv, Owners, Owns, Completing, Recorded, GaveUp, Ends, Becomes,
      Begun, Others, Idle, tables
  <1>6. Cleaning'
    BY <1>1, <1>2, Types DEF IInv, Cleaning, Owns, Completing, Live, Restorable, GaveUp, Ends,
      Becomes, Begun, Others, Idle, tables
  <1>7. Wiping'
    BY <1>1, <1>2, Types DEF IInv, Wiping, Gone, GaveUp, Ends, Becomes, Begun, Others, Idle,
      tables
  <1>8. Measured'
    BY <1>1, <1>2, Types DEF IInv, Measured, Stored, Requests, Busy, Owners, Owns, Completing,
      GaveUp, Ends, Becomes, Begun, Others, Idle, tables
  <1>9. Creating'
    BY <1>1, <1>2, Types DEF IInv, Creating, Of, Gone, GaveUp, Ends, Becomes, Begun, Others,
      Idle, tables
  <1>10. Unstarted'
    BY <1>1, <1>2, Types DEF IInv, Unstarted, Stored, Of, GaveUp, Ends, Becomes, Begun,
      Others, Idle, tables
  <1>11. ReadyIsWhole'
    BY <1>1, <1>2, Types DEF IInv, ObjectsKept, ReadyIsWhole, Stored, Restorable, Keys, Rows,
      Kept, Owners, tables
  <1>12. EveryObjectFindable'
    BY <1>1, <1>2, Types DEF IInv, ObjectsKept, EveryObjectFindable, Live, Stored, Recorded,
      tables
  <1> QED
    BY <1>3, <1>4, <1>5, <1>6, <1>7, <1>8, <1>9, <1>10, <1>11, <1>12 DEF IInv, ObjectsKept

LEMMA CleanupDeleteKeeps ==
  ASSUME TypeOK, IInv, TypeOK', NEW w \in Workers, CleanupDelete(w)
  PROVE  IInv'
  <1>1. /\ work[w].pc = "clean" /\ work[w].file \in Files
        /\ objects' = objects \ Stored(work[w].file, work[w].n)
        /\ maint = w /\ maint' = None
        /\ UNCHANGED <<now, tables, creating, sweep, fresh>>
    BY DEF CleanupDelete, Forgotten, IInv, Requests, Busy, Cleaning
  <1>2. Ends(w)
    BY Ended DEF CleanupDelete
  <1>3. Rows' /\ Kept' /\ Records' /\ Listed' /\ OneUpload' /\ Forgetting'
    BY <1>1, <1>2, Types, TablesStay
  <1>4. Requests'
    BY <1>1, <1>2, Types DEF IInv, Requests, Busy, Job, GaveUp, Ends, Becomes, Begun, Others,
      Idle, tables
  <1>5. Owners'
    BY <1>1, <1>2, Types DEF IInv, Owners, Owns, Completing, Recorded, GaveUp, Ends, Becomes,
      Begun, Others, Idle, tables
  <1>6. Cleaning'
    BY <1>1, <1>2, Types DEF IInv, Cleaning, Owns, Completing, Live, Restorable, GaveUp, Ends,
      Becomes, Begun, Others, Idle, tables
  <1>7. Wiping'
    BY <1>1, <1>2, Types DEF IInv, Wiping, Gone, GaveUp, Ends, Becomes, Begun, Others, Idle,
      tables
  <1>8. Measured'
    BY <1>1, <1>2, Types DEF IInv, Measured, Stored, Requests, Busy, Rows, Cleaning, Live,
      Owns, Completing, GaveUp, Ends, Becomes, Begun, Others, Idle, tables
  <1>9. Creating'
    BY <1>1, <1>2, Types DEF IInv, Creating, Of, Gone, GaveUp, Ends, Becomes, Begun, Others,
      Idle, tables
  <1>10. Unstarted'
    BY <1>1, <1>2, Types DEF IInv, Unstarted, Stored, Of, GaveUp, Ends, Becomes, Begun,
      Others, Idle, tables
  <1>11. ReadyIsWhole'
    BY <1>1, <1>2, Types DEF IInv, ObjectsKept, ReadyIsWhole, Stored, Restorable, Keys,
      Cleaning, Live, tables
  <1>12. EveryObjectFindable'
    BY <1>1, <1>2, Types DEF IInv, ObjectsKept, EveryObjectFindable, Live, Stored, Recorded,
      tables
  <1> QED
    BY <1>3, <1>4, <1>5, <1>6, <1>7, <1>8, <1>9, <1>10, <1>11, <1>12 DEF IInv, ObjectsKept

LEMMA CopyDoes ==
  ASSUME TypeOK, NEW w \in Workers, Copy(w)
  PROVE  \/ Becomes(w, "drop", work[w].mp, work[w].n) /\ objects' = objects
         \/ /\ Becomes(w, "head", work[w].mp, work[w].n)
            /\ \E ok \in BOOLEAN : objects' = Put(work[w].file, work[w].n, ok)
  <1>1. Goes(w, "drop") => Becomes(w, "drop", work[w].mp, work[w].n)
    BY Went DEF Steps
  <1>2. Goes(w, "head") => Becomes(w, "head", work[w].mp, work[w].n)
    BY Went DEF Steps
  <1>3. \A o \in Stored(work[w].file, 0) : o.ok \in BOOLEAN
    BY Types DEF Stored
  <1> QED
    BY <1>1, <1>2, <1>3 DEF Copy

LEMMA CopyKeeps ==
  ASSUME TypeOK, IInv, TypeOK', NEW w \in Workers, Copy(w)
  PROVE  IInv'
  <1>1. /\ work[w].pc = "copy" /\ work[w].file \in Files /\ Owns(w)
        /\ UNCHANGED <<now, tables, creating, maint, sweep, fresh>>
    BY DEF Copy, IInv, Requests, Busy, Owns, Completing
  <1>2. \/ Becomes(w, "drop", work[w].mp, work[w].n) /\ objects' = objects
        \/ /\ Becomes(w, "head", work[w].mp, work[w].n)
           /\ \E ok \in BOOLEAN : objects' = Put(work[w].file, work[w].n, ok)
    BY CopyDoes
  <1>3. Rows' /\ Kept' /\ Records' /\ Listed' /\ OneUpload' /\ Forgetting'
    BY <1>1, <1>2, Types, TablesStay
  <1>4. Requests'
    BY <1>1, <1>2, Types DEF IInv, Requests, Busy, Job, GaveUp, Ends, Becomes, Begun, Others,
      Idle, tables
  <1>5. Owners'
    BY <1>1, <1>2, Types DEF IInv, Owners, Owns, Completing, Recorded, GaveUp, Ends, Becomes,
      Begun, Others, Idle, tables
  <1>6. Cleaning'
    BY <1>1, <1>2, Types DEF IInv, Cleaning, Owns, Completing, Live, Restorable, GaveUp, Ends,
      Becomes, Begun, Others, Idle, tables
  <1>7. Wiping'
    BY <1>1, <1>2, Types DEF IInv, Wiping, Gone, GaveUp, Ends, Becomes, Begun, Others, Idle,
      tables
  <1>8. Measured'
    BY <1>1, <1>2, Types DEF IInv, Measured, Stored, Requests, Busy, Owners, Owns, Completing,
      Put, GaveUp, Ends, Becomes, Begun, Others, Idle, tables
  <1>9. Creating'
    BY <1>1, <1>2, Types DEF IInv, Creating, Of, Gone, GaveUp, Ends, Becomes, Begun, Others,
      Idle, tables
  <1>10. Unstarted'
    <2>1. \A g \in Files :
            /\ row'[g].small = row[g].small
            /\ row'[g].state = "uploading" => row[g].state = "uploading" \/ row[g].small
      BY <1>1, <1>2, Types DEF tables
    <2>2. \A g \in Files : row'[g].state = "uploading" /\ Of(g)' = {} => Of(g) = {}
      BY <1>1, <1>2, Types DEF tables, Of
    <2>3. \A o \in objects' : o \in objects \/ o.n # 0 \/ row[o.file].small
      BY <1>1, <1>2, Types DEF Put, Owns
    <2>4. \A v \in Workers : work'[v].pc \in {"claim", "assemble"} =>
            work[v].pc \in {"claim", "assemble"} /\ work'[v].file = work[v].file
      BY <1>1, <1>2, Types DEF GaveUp, Ends, Becomes, Begun, Others, Idle
    <2> QED
      BY <2>1, <2>2, <2>3, <2>4, UnstartedStays
  <1>11. ReadyIsWhole'
    BY <1>1, <1>2, Types DEF IInv, ObjectsKept, ReadyIsWhole, Stored, Restorable, Keys, Rows,
      Kept, Owners, Put, tables
  <1>12. EveryObjectFindable'
    BY <1>1, <1>2, Types DEF IInv, ObjectsKept, EveryObjectFindable, Live, Stored, Recorded,
      Put, Owners, tables
  <1> QED
    BY <1>3, <1>4, <1>5, <1>6, <1>7, <1>8, <1>9, <1>10, <1>11, <1>12 DEF IInv, ObjectsKept

LEMMA AssembleDoes ==
  ASSUME TypeOK, NEW w \in Workers, Assemble(w)
  PROVE  /\ Becomes(w, "head", work[w].mp, work[w].n) \/ Ends(w)
         /\ \/ objects' = objects
            \/ /\ Stored(work[w].file, 0) = {}
               /\ \E ok \in BOOLEAN : objects' = Put(work[w].file, 0, ok)
  <1> DEFINE f == work[w].file
             held == {m \in multiparts : m.mp = work[w].mp /\ m.parts # "some"}
  <1>1. Goes(w, "head") => Becomes(w, "head", work[w].mp, work[w].n)
    BY Went DEF Steps
  <1>2. Done(w) => Ends(w)
    BY Ended
  <1>3. CASE Stored(f, 0) # {}
    BY <1>1, <1>3 DEF Assemble
  <1>4. CASE Stored(f, 0) = {} /\ held # {}
    <2>1. Goes(w, "head") /\ objects' = Put(f, 0, \A m \in held : m.parts = "all")
      BY <1>4 DEF Assemble
    <2> QED
      BY <1>1, <1>4, <2>1
  <1>5. CASE Stored(f, 0) = {} /\ held = {}
    BY <1>2, <1>5 DEF Assemble
  <1> QED
    BY <1>3, <1>4, <1>5

LEMMA AssembleKeeps ==
  ASSUME TypeOK, IInv, TypeOK', NEW w \in Workers, Assemble(w)
  PROVE  IInv'
  <1>1. /\ work[w].pc = "assemble" /\ work[w].file \in Files
        /\ row[work[w].file].state # "none" /\ ~row[work[w].file].small /\ work[w].n = 0
        /\ UNCHANGED <<now, tables, creating, maint, sweep, fresh>>
    BY DEF Assemble, IInv, Requests, Busy
  <1>2. /\ Becomes(w, "head", work[w].mp, work[w].n) \/ Ends(w)
        /\ \/ objects' = objects
           \/ /\ Stored(work[w].file, 0) = {}
              /\ \E ok \in BOOLEAN : objects' = Put(work[w].file, 0, ok)
    BY AssembleDoes
  <1>3. Rows' /\ Kept' /\ Records' /\ Listed' /\ OneUpload' /\ Forgetting'
    BY <1>1, <1>2, Types, TablesStay
  <1>4. Requests'
    BY <1>1, <1>2, Types DEF IInv, Requests, Busy, Job, GaveUp, Ends, Becomes, Begun, Others,
      Idle, tables
  <1>5. Owners'
    BY <1>1, <1>2, Types DEF IInv, Owners, Owns, Completing, Recorded, GaveUp, Ends, Becomes,
      Begun, Others, Idle, tables
  <1>6. Cleaning'
    BY <1>1, <1>2, Types DEF IInv, Cleaning, Owns, Completing, Live, Restorable, GaveUp, Ends,
      Becomes, Begun, Others, Idle, tables
  <1>7. Wiping'
    BY <1>1, <1>2, Types DEF IInv, Wiping, Gone, GaveUp, Ends, Becomes, Begun, Others, Idle,
      tables
  <1>8. Measured'
    BY <1>1, <1>2, Types DEF IInv, Measured, Stored, Requests, Busy, Put, GaveUp, Ends,
      Becomes, Begun, Others, Idle, tables
  <1>9. Creating'
    BY <1>1, <1>2, Types DEF IInv, Creating, Of, Gone, GaveUp, Ends, Becomes, Begun, Others,
      Idle, tables
  <1>10. Unstarted'
    <2> SUFFICES ASSUME NEW g \in Files, ~row'[g].small, row'[g].state = "uploading", Of(g)' = {}
                 PROVE  /\ Stored(g, 0)' = {}
                        /\ \A v \in Workers :
                             work'[v].file = g => work'[v].pc \notin {"claim", "assemble"}
      BY DEF Unstarted
    <2>1. /\ Stored(g, 0) = {}
          /\ \A v \in Workers : work[v].file = g => work[v].pc \notin {"claim", "assemble"}
      BY <1>1 DEF IInv, Unstarted, Of, tables
    <2>2. work[w].file # g
      BY <1>1, <2>1
    <2>3. Stored(g, 0)' = {}
      BY <1>2, <2>1, <2>2 DEF Stored, Put
    <2> QED
      BY <1>2, <2>1, <2>3 DEF Ends, Becomes, Others, Idle
  <1>11. ReadyIsWhole'
    BY <1>1, <1>2, Types DEF IInv, ObjectsKept, ReadyIsWhole, Stored, Restorable, Keys, Put,
      tables
  <1>12. EveryObjectFindable'
    BY <1>1, <1>2, Types DEF IInv, ObjectsKept, EveryObjectFindable, Live, Stored, Recorded,
      Put, Rows, Records, Row, States, tables
  <1> QED
    BY <1>3, <1>4, <1>5, <1>6, <1>7, <1>8, <1>9, <1>10, <1>11, <1>12 DEF IInv, ObjectsKept

LEMMA PutObjectKeeps ==
  ASSUME TypeOK, IInv, TypeOK', NEW f \in Files, NEW ok \in BOOLEAN, PutObject(f, ok)
  PROVE  IInv'
  <1>1. /\ row[f].small /\ row[f].state # "none"
        /\ objects' = Put(f, 0, ok)
        /\ UNCHANGED <<now, tables, creating, maint, work, sweep, fresh>>
    BY DEF PutObject
  <1>2. Rows' /\ Kept' /\ Records' /\ Listed' /\ OneUpload' /\ Forgetting'
    BY <1>1, Types, TablesStay
  <1>3. Requests'
    BY <1>1, Types DEF IInv, Requests, Busy, Job, tables
  <1>4. Owners'
    BY <1>1, Types DEF IInv, Owners, Owns, Completing, Recorded, tables
  <1>5. Cleaning'
    BY <1>1, Types DEF IInv, Cleaning, Owns, Completing, Live, Restorable, tables
  <1>6. Wiping'
    BY <1>1, Types DEF IInv, Wiping, Gone, tables
  <1>7. Measured'
    BY <1>1, Types DEF IInv, Measured, Stored, Requests, Busy, Put, tables
  <1>8. Creating'
    BY <1>1, Types DEF IInv, Creating, Of, Gone, tables
  <1>9. Unstarted'
    <2>1. \A g \in Files :
            /\ row'[g].small = row[g].small
            /\ row'[g].state = "uploading" => row[g].state = "uploading" \/ row[g].small
      BY <1>1, Types DEF tables
    <2>2. \A g \in Files : row'[g].state = "uploading" /\ Of(g)' = {} => Of(g) = {}
      BY <1>1, Types DEF tables, Of
    <2>3. \A o \in objects' : o \in objects \/ o.n # 0 \/ row[o.file].small
      BY <1>1, Types DEF Put
    <2>4. \A v \in Workers : work'[v].pc \in {"claim", "assemble"} =>
            work[v].pc \in {"claim", "assemble"} /\ work'[v].file = work[v].file
      BY <1>1, Types
    <2> QED
      BY <2>1, <2>2, <2>3, <2>4, UnstartedStays
  <1>10. ReadyIsWhole'
    BY <1>1, Types DEF IInv, ObjectsKept, ReadyIsWhole, Stored, Restorable, Keys, Put, Rows,
      Kept, tables
  <1>11. EveryObjectFindable'
    BY <1>1, Types DEF IInv, ObjectsKept, EveryObjectFindable, Live, Stored, Recorded, Put,
      Rows, Records, Row, States, tables
  <1> QED
    BY <1>2, <1>3, <1>4, <1>5, <1>6, <1>7, <1>8, <1>9, <1>10, <1>11 DEF IInv, ObjectsKept

LEMMA PutPartsKeeps ==
  ASSUME TypeOK, IInv, TypeOK', NEW m \in multiparts, NEW parts \in {"all", "short"}, PutParts(m, parts)
  PROVE  IInv'
  <1>1. /\ UNCHANGED <<now, tables, objects, creating, maint, work, sweep, fresh>>
    BY DEF PutParts
  <1>2. Rows' /\ Kept' /\ Records' /\ Listed' /\ OneUpload' /\ Forgetting'
    BY <1>1, Types, TablesStay
  <1>3. ReadyIsWhole' /\ EveryObjectFindable'
    BY <1>1, ObjectsStay DEF tables
  <1>4. Requests'
    BY <1>1, Types DEF IInv, Requests, Busy, Job, tables
  <1>5. Owners'
    BY <1>1, Types DEF IInv, Owners, Owns, Completing, Recorded, tables
  <1>6. Cleaning'
    BY <1>1, Types DEF IInv, Cleaning, Owns, Completing, Live, Restorable, tables
  <1>7. Wiping'
    BY <1>1, Types DEF IInv, Wiping, Gone, tables
  <1>8. Measured'
    BY <1>1, Types DEF IInv, Measured, Stored, tables
  <1>9. Creating'
    BY <1>1, Types DEF IInv, Creating, Of, Gone, tables
  <1>10. Unstarted'
    BY <1>1, Types DEF IInv, Unstarted, Stored, Of, tables
  <1> QED
    BY <1>2, <1>3, <1>4, <1>5, <1>6, <1>7, <1>8, <1>9, <1>10 DEF IInv, ObjectsKept

LEMMA CleanupReserveDoes ==
  ASSUME TypeOK, NEW w \in Workers, NEW c \in cleanup, CleanupReserve(w, c)
  PROVE  Begun(w, "clean", c.file, 0, c.n)
  <1>1. [Idle EXCEPT !.pc = "clean", !.file = c.file, !.n = c.n]
        = [pc |-> "clean", file |-> c.file, mp |-> 0, n |-> c.n, since |-> 0]
    BY IdleHolding
  <1>2. c.file \in Files /\ c.n \in Nat
    BY Types DEF Keys
  <1>3. Starts(w, [Idle EXCEPT !.pc = "clean", !.file = c.file, !.n = c.n])
    BY DEF CleanupReserve
  <1> QED
    BY <1>1, <1>2, <1>3, Started DEF Steps

LEMMA CleanupReserveKeeps ==
  ASSUME TypeOK, IInv, TypeOK', NEW w \in Workers, NEW c \in cleanup, CleanupReserve(w, c)
  PROVE  IInv'
  <1>1. /\ Orphan(c)
        /\ c.file \in Files /\ c.n \in Nat /\ c.at \in Nat
        /\ maint = None /\ maint' = w
        /\ UNCHANGED <<now, tables, objects, creating, sweep, fresh>>
    BY Types DEF CleanupReserve, bucket, Keys
  <1>2. Begun(w, "clean", c.file, 0, c.n)
    BY CleanupReserveDoes
  <1>3. c.at + Grace < now
    BY <1>1, <1>2 DEF Orphan
  <1>4. \A v \in Workers : Owns(v) /\ work[v].file = c.file => work[v].n # c.n
    BY <1>1, <1>2, <1>3, Types, UploadsAssumption DEF IInv, Owners, Owns, Completing,
      Requests, Busy, Job
  <1>5. Rows' /\ Kept' /\ Records' /\ Listed' /\ OneUpload' /\ Forgetting'
    BY <1>1, <1>2, Types, TablesStay
  <1>6. ReadyIsWhole' /\ EveryObjectFindable'
    BY <1>1, <1>2, ObjectsStay DEF tables
  <1>7. Requests'
    BY <1>1, <1>2, Types DEF IInv, Requests, Busy, Job, Records, GaveUp, Ends, Becomes, Begun,
      Others, Idle, tables
  <1>8. Owners'
    BY <1>1, <1>2, Types DEF IInv, Owners, Owns, Completing, Recorded, GaveUp, Ends, Becomes,
      Begun, Others, Idle, tables
  <1>9. Cleaning'
    BY <1>1, <1>2, <1>4, Types, UploadsAssumption DEF IInv, Cleaning, Owns, Completing, Live,
      Restorable, Orphan, Records, GaveUp, Ends, Becomes, Begun, Others, Idle, tables
  <1>10. Wiping'
    BY <1>1, <1>2, Types DEF IInv, Wiping, Gone, GaveUp, Ends, Becomes, Begun, Others, Idle,
      tables
  <1>11. Measured'
    BY <1>1, <1>2, Types DEF IInv, Measured, Stored, GaveUp, Ends, Becomes, Begun, Others,
      Idle, tables
  <1>12. Creating'
    BY <1>1, <1>2, Types DEF IInv, Creating, Of, Gone, GaveUp, Ends, Becomes, Begun, Others,
      Idle, tables
  <1>13. Unstarted'
    BY <1>1, <1>2, Types DEF IInv, Unstarted, Stored, Of, GaveUp, Ends, Becomes, Begun,
      Others, Idle, tables
  <1> QED
    BY <1>5, <1>6, <1>7, <1>8, <1>9, <1>10, <1>11, <1>12, <1>13 DEF IInv, ObjectsKept
LEMMA FreshKeeps ==
  ASSUME TypeOK, IInv, TypeOK', NEW w \in Workers, Fresh(w)
  PROVE  IInv'
  <1>1. /\ work[w].pc = "fresh" /\ work[w].file \in Files
        /\ fresh' = fresh + 1
        /\ cleanup' = cleanup \cup {[file |-> work[w].file, n |-> fresh', at |-> now]}
        /\ Becomes(w, "copy", work[w].mp, fresh')
        /\ UNCHANGED <<now, row, uploads, trash, objects, creating, maint, sweep>>
    BY Types DEF Fresh, bucket, Becomes, Others, Job, Steps, IInv, Requests, Busy
  <1>2. \A v \in Workers : Busy(v) => work[v].n < fresh'
    BY <1>1, Types DEF IInv, Requests, Job
  <1>3. \A g \in Files : row[g].n < fresh'
    BY <1>1, Types DEF IInv, Rows, Row
  <1>4. \A c \in cleanup : c.n < fresh'
    BY <1>1, Types DEF IInv, Records, Keys
  <1>5. /\ row[work[w].file].small /\ work[w].since <= now /\ now \in Nat /\ fresh' \in Nat
    BY <1>1, Types DEF IInv, Requests, Busy
  <1>6. Rows'
    BY <1>1, Types DEF IInv, Rows, Row, States, RowBecomes, tables
  <1>7. Kept'
    BY <1>1, Types DEF IInv, Kept, RowBecomes, Restorable, Keys, tables
  <1>8. Records'
    BY <1>1, Types DEF IInv, Records, Recorded, RowBecomes, Keys, Row, Requests, Busy, tables
  <1>9. Requests'
    BY <1>1, Types DEF IInv, Requests, Busy, Job, GaveUp, Ends, Becomes, Begun, Others, Idle,
      tables
  <1>10. Owners'
    <2>1. work'[w].n = fresh' /\ work'[w].file = work[w].file /\ work'[w].since = work[w].since
      BY <1>1 DEF Becomes
    <2>2. \A v \in Workers : v # w /\ Owns(v)' => Owns(v) /\ work'[v] = work[v]
      BY <1>1 DEF Owns, Becomes, Others
    <2>3. /\ row[work[w].file].n # fresh'
          /\ \E c \in cleanup' : c.file = work[w].file /\ c.n = fresh'
          /\ \A c \in cleanup' : c.n = fresh' => c.at = now
      <3>1. row[work[w].file].n # fresh'
        BY <1>1, <1>3, <1>5, Types DEF Row
      <3>2. \E c \in cleanup' : c.file = work[w].file /\ c.n = fresh'
        <4> DEFINE d == [file |-> work[w].file, n |-> fresh', at |-> now]
        <4>1. d \in cleanup'
          BY <1>1
        <4>2. d.file = work[w].file /\ d.n = fresh'
          OBVIOUS
        <4> QED
          BY <4>1, <4>2
      <3>3. \A c \in cleanup : c.n # fresh'
        BY <1>4, <1>5, Types DEF Keys
      <3> QED
        BY <1>1, <3>1, <3>2, <3>3
    <2>4. \A v \in Workers : v # w /\ Owns(v)' =>
            /\ row'[work'[v].file].small
            /\ row'[work'[v].file].n # work'[v].n
            /\ \E c \in cleanup' : c.file = work'[v].file /\ c.n = work'[v].n
            /\ \A c \in cleanup' :
                 c.file = work'[v].file /\ c.n = work'[v].n => c.at >= work'[v].since
      <3>1. \A v \in Workers : Owns(v) => work[v].n < fresh' /\ work[v].n \in Nat
        BY <1>2, Types DEF Owns, Busy, Completing, Job
      <3> QED
        BY <1>1, <2>2, <3>1 DEF IInv, Owners, Recorded
    <2>5. \A u, v \in Workers : Owns(u)' /\ Owns(v)' /\ u # v => work'[u].n # work'[v].n
      BY <1>1, <1>2, <1>5, <2>1, <2>2, Types DEF IInv, Owners, Owns, Busy, Completing, Job
    <2> QED
      BY <1>1, <1>5, <2>1, <2>3, <2>4, <2>5 DEF Owners, Recorded
  <1>11. Cleaning'
    BY <1>1, Types DEF IInv, Cleaning, Owns, Completing, Live, Restorable, Requests, Busy,
      Job, GaveUp, Ends, Becomes, Begun, Others, Idle, tables
  <1>12. Wiping'
    BY <1>1, Types DEF IInv, Wiping, Gone, GaveUp, Ends, Becomes, Begun, Others, Idle, tables
  <1>13. Forgetting'
    BY <1>1, Types DEF IInv, Forgetting, Gone, tables
  <1>14. Measured'
    BY <1>1, Types DEF IInv, Measured, Stored, GaveUp, Ends, Becomes, Begun, Others, Idle,
      tables
  <1>15. Creating'
    BY <1>1, Types DEF IInv, Creating, Of, Gone, GaveUp, Ends, Becomes, Begun, Others, Idle,
      tables
  <1>16. Unstarted'
    BY <1>1, Types DEF IInv, Unstarted, Stored, Of, GaveUp, Ends, Becomes, Begun, Others,
      Idle, tables
  <1>17. Listed'
    BY <1>1, Types DEF IInv, Listed, Of, tables
  <1>18. ReadyIsWhole'
    BY <1>1, Types DEF IInv, ObjectsKept, ReadyIsWhole, Stored, Restorable, Keys, tables
  <1>19. EveryObjectFindable'
    BY <1>1, Types DEF IInv, ObjectsKept, EveryObjectFindable, Live, Stored, Recorded, tables
  <1>20. OneUpload'
    BY <1>1, Types DEF IInv, ObjectsKept, OneUpload, Of, tables
  <1> QED
    BY <1>6, <1>7, <1>8, <1>9, <1>10, <1>11, <1>12, <1>13, <1>14, <1>15, <1>16, <1>17, <1>18,
      <1>19, <1>20 DEF IInv, ObjectsKept

LEMMA ClaimKeeps ==
  ASSUME TypeOK, IInv, TypeOK', NEW w \in Workers, Claim(w)
  PROVE  IInv'
  <1>1. /\ work[w].pc = "claim"
        /\ UNCHANGED <<now, row, cleanup, trash, objects, creating, maint, sweep, fresh>>
        /\ \E mine \in SUBSET uploads :
             uploads' = (uploads \ mine)
                         \cup {[u EXCEPT !.expires = now + AbandonAt] : u \in mine}
    BY DEF Claim, bucket
  <1>2. Becomes(w, "assemble", work[w].mp, work[w].n) \/ Ends(w)
    BY Ended, Went DEF Claim, Steps
  <1>3. ReadyIsWhole' /\ EveryObjectFindable'
    BY <1>1, <1>2, ObjectsStay DEF tables
  <1>4. Rows'
    BY <1>1, <1>2, Types DEF IInv, Rows, Row, States, RowBecomes, tables
  <1>5. Kept'
    BY <1>1, <1>2, Types DEF IInv, Kept, RowBecomes, Restorable, Keys, tables
  <1>6. Records'
    BY <1>1, <1>2, Types DEF IInv, Records, Recorded, RowBecomes, Keys, Row, tables
  <1>7. Requests'
    BY <1>1, <1>2, Types DEF IInv, Requests, Busy, Job, GaveUp, Ends, Becomes, Begun, Others,
      Idle, tables
  <1>8. Owners'
    BY <1>1, <1>2, Types DEF IInv, Owners, Owns, Completing, Recorded, GaveUp, Ends, Becomes,
      Begun, Others, Idle, tables
  <1>9. Cleaning'
    BY <1>1, <1>2, Types DEF IInv, Cleaning, Owns, Completing, Live, Restorable, GaveUp, Ends,
      Becomes, Begun, Others, Idle, tables
  <1>10. Wiping'
    BY <1>1, <1>2, Types DEF IInv, Wiping, Gone, GaveUp, Ends, Becomes, Begun, Others, Idle,
      tables
  <1>11. Forgetting'
    BY <1>1, <1>2, Types DEF IInv, Forgetting, Gone, tables
  <1>12. Measured'
    BY <1>1, <1>2, Types DEF IInv, Measured, Stored, GaveUp, Ends, Becomes, Begun, Others,
      Idle, tables
  <1>13. Creating'
    BY <1>1, <1>2, Types DEF IInv, Creating, Of, Gone, Upload, GaveUp, Ends, Becomes, Begun,
      Others, Idle, tables
  <1>14. Unstarted'
    <2>1. ASSUME NEW g \in Files, Of(g) # {}
          PROVE  Of(g)' # {}
      <3>1. PICK u \in uploads : u.file = g
        BY <2>1 DEF Of
      <3>2. PICK mine \in SUBSET uploads :
              uploads' = (uploads \ mine)
                         \cup {[x EXCEPT !.expires = now + AbandonAt] : x \in mine}
        BY <1>1
      <3>3. [u EXCEPT !.expires = now + AbandonAt].file = g
        BY <3>1, Types DEF Upload
      <3>4. u \in uploads' \/ [u EXCEPT !.expires = now + AbandonAt] \in uploads'
        BY <3>1, <3>2
      <3> QED
        BY <3>1, <3>3, <3>4 DEF Of
    <2>2. \A v \in Workers : work'[v].pc \in {"claim", "assemble"} =>
            work[v].pc \in {"claim", "assemble"} /\ work'[v].file = work[v].file
      BY <1>1, <1>2 DEF Ends, Becomes, Others, Idle
    <2> QED
      BY <1>1, <2>1, <2>2, UnstartedStays
  <1>15. Listed'
    BY <1>1, <1>2, Types DEF IInv, Listed, Of, Upload, tables
  <1>16. OneUpload'
    BY <1>1, <1>2, Types DEF IInv, ObjectsKept, OneUpload, Of, Upload, tables
  <1> QED
    BY <1>3, <1>4, <1>5, <1>6, <1>7, <1>8, <1>9, <1>10, <1>11, <1>12, <1>13, <1>14, <1>15,
      <1>16 DEF IInv, ObjectsKept

LEMMA PartsKeeps ==
  ASSUME TypeOK, IInv, TypeOK', NEW f \in Files, Parts(f)
  PROVE  IInv'
  <1>1. /\ UNCHANGED <<now, row, cleanup, trash, objects, creating, maint, work, sweep, fresh>>
        /\ \E mine \in SUBSET uploads :
             uploads' = (uploads \ mine)
                         \cup {[u EXCEPT !.expires = now + AbandonAt] : u \in mine}
    BY DEF Parts, bucket, Of
  <1>2. ReadyIsWhole' /\ EveryObjectFindable'
    BY <1>1, ObjectsStay DEF tables
  <1>3. Rows'
    BY <1>1, Types DEF IInv, Rows, Row, States, RowBecomes, tables
  <1>4. Kept'
    BY <1>1, Types DEF IInv, Kept, RowBecomes, Restorable, Keys, tables
  <1>5. Records'
    BY <1>1, Types DEF IInv, Records, Recorded, RowBecomes, Keys, Row, tables
  <1>6. Requests'
    BY <1>1, Types DEF IInv, Requests, Busy, Job, tables
  <1>7. Owners'
    BY <1>1, Types DEF IInv, Owners, Owns, Completing, Recorded, tables
  <1>8. Cleaning'
    BY <1>1, Types DEF IInv, Cleaning, Owns, Completing, Live, Restorable, tables
  <1>9. Wiping'
    BY <1>1, Types DEF IInv, Wiping, Gone, tables
  <1>10. Forgetting'
    BY <1>1, Types DEF IInv, Forgetting, Gone, tables
  <1>11. Measured'
    BY <1>1, Types DEF IInv, Measured, Stored, tables
  <1>12. Creating'
    BY <1>1, Types DEF IInv, Creating, Of, Gone, Upload, tables
  <1>13. Unstarted'
    <2>1. ASSUME NEW g \in Files, Of(g) # {}
          PROVE  Of(g)' # {}
      <3>1. PICK u \in uploads : u.file = g
        BY <2>1 DEF Of
      <3>2. PICK mine \in SUBSET uploads :
              uploads' = (uploads \ mine)
                         \cup {[x EXCEPT !.expires = now + AbandonAt] : x \in mine}
        BY <1>1
      <3>3. [u EXCEPT !.expires = now + AbandonAt].file = g
        BY <3>1, Types DEF Upload
      <3>4. u \in uploads' \/ [u EXCEPT !.expires = now + AbandonAt] \in uploads'
        BY <3>1, <3>2
      <3> QED
        BY <3>1, <3>3, <3>4 DEF Of
    <2>2. \A v \in Workers : work'[v].pc \in {"claim", "assemble"} =>
            work[v].pc \in {"claim", "assemble"} /\ work'[v].file = work[v].file
      BY <1>1
    <2> QED
      BY <1>1, <2>1, <2>2, UnstartedStays
  <1>14. Listed'
    BY <1>1, Types DEF IInv, Listed, Of, Upload, tables
  <1>15. OneUpload'
    BY <1>1, Types DEF IInv, ObjectsKept, OneUpload, Of, Upload, tables
  <1> QED
    BY <1>2, <1>3, <1>4, <1>5, <1>6, <1>7, <1>8, <1>9, <1>10, <1>11, <1>12, <1>13, <1>14,
      <1>15 DEF IInv, ObjectsKept

LEMMA InsertUploadKeeps ==
  ASSUME TypeOK, IInv, TypeOK', NEW w \in Workers, InsertUpload(w)
  PROVE  IInv'
  <1>1. /\ work[w].pc = "insert" /\ work[w].file \in Files
        /\ creating = w /\ creating' = None
        /\ UNCHANGED <<now, row, cleanup, trash, objects, maint, sweep, fresh>>
        /\ \/ uploads' = uploads
           \/ uploads' = uploads \cup {[file |-> work[w].file, mp |-> work[w].mp,
                                        expires |-> now + AbandonAt]}
    BY DEF InsertUpload, IInv, Creating, Requests, Busy
  <1>2. Ends(w)
    BY Ended DEF InsertUpload
  <1>3. /\ Of(work[w].file) = {} /\ work[w].mp # 0 /\ ~row[work[w].file].small
        /\ work[w].since <= row[work[w].file].created + KeyLife /\ now <= work[w].since + 1
    BY <1>1, <1>2, Types DEF IInv, Creating, Requests, Busy
  <1>4. work[w].since \in Nat /\ row[work[w].file].created \in Nat
    BY <1>1, <1>2, Types, UploadsAssumption DEF Job, Row
  <1>5. \A one \in sweep.found : one.mp = 0 => one.file # work[w].file
    BY <1>1, <1>2, <1>3, <1>4, Types, UploadsAssumption DEF IInv, Listed, Row
  <1>6. ReadyIsWhole' /\ EveryObjectFindable'
    BY <1>1, <1>2, ObjectsStay DEF tables
  <1>7. Rows'
    BY <1>1, <1>2, Types DEF IInv, Rows, Row, States, RowBecomes, tables
  <1>8. Kept'
    BY <1>1, <1>2, Types DEF IInv, Kept, RowBecomes, Restorable, Keys, tables
  <1>9. Records'
    BY <1>1, <1>2, Types DEF IInv, Records, Recorded, RowBecomes, Keys, Row, tables
  <1>10. Requests'
    BY <1>1, <1>2, Types DEF IInv, Requests, Busy, Job, GaveUp, Ends, Becomes, Begun, Others,
      Idle, tables
  <1>11. Owners'
    BY <1>1, <1>2, Types DEF IInv, Owners, Owns, Completing, Recorded, GaveUp, Ends, Becomes,
      Begun, Others, Idle, tables
  <1>12. Cleaning'
    BY <1>1, <1>2, Types DEF IInv, Cleaning, Owns, Completing, Live, Restorable, GaveUp, Ends,
      Becomes, Begun, Others, Idle, tables
  <1>13. Wiping'
    BY <1>1, <1>2, Types DEF IInv, Wiping, Gone, GaveUp, Ends, Becomes, Begun, Others, Idle,
      tables
  <1>14. Forgetting'
    BY <1>1, <1>2, Types DEF IInv, Forgetting, Gone, tables
  <1>15. Measured'
    BY <1>1, <1>2, Types DEF IInv, Measured, Stored, GaveUp, Ends, Becomes, Begun, Others,
      Idle, tables
  <1>16. Creating'
    BY <1>1, <1>2, <1>3, Types DEF IInv, Creating, Of, Gone, GaveUp, Ends, Becomes, Begun,
      Others, Idle, tables
  <1>17. Unstarted'
    <2>1. \A g \in Files :
            /\ row'[g].small = row[g].small
            /\ row'[g].state = "uploading" => row[g].state = "uploading" \/ row[g].small
      BY <1>1, <1>2, Types
    <2>2. \A g \in Files : row'[g].state = "uploading" /\ Of(g)' = {} => Of(g) = {}
      BY <1>1, <1>2, Types DEF Of
    <2>3. \A o \in objects' : o \in objects \/ o.n # 0 \/ row[o.file].small
      BY <1>1, <1>2, Types
    <2>4. \A v \in Workers : work'[v].pc \in {"claim", "assemble"} =>
            work[v].pc \in {"claim", "assemble"} /\ work'[v].file = work[v].file
      BY <1>1, <1>2, Types DEF GaveUp, Ends, Becomes, Begun, Others, Idle
    <2> QED
      BY <2>1, <2>2, <2>3, <2>4, UnstartedStays
  <1>18. Listed'
    BY <1>1, <1>2, <1>5, Types DEF IInv, Listed, Of, tables
  <1>19. OneUpload'
    BY <1>1, <1>2, <1>3, Types DEF IInv, ObjectsKept, OneUpload, Of, tables
  <1> QED
    BY <1>6, <1>7, <1>8, <1>9, <1>10, <1>11, <1>12, <1>13, <1>14, <1>15, <1>16, <1>17, <1>18,
      <1>19 DEF IInv, ObjectsKept

LEMMA CreateSmallKeeps ==
  ASSUME TypeOK, IInv, TypeOK', NEW f \in Files, CreateSmall(f)
  PROVE  IInv'
  <1>1. /\ row[f].small /\ row[f].state \in {"none", "uploading"}
        /\ UNCHANGED <<now, uploads, cleanup, trash, objects, creating, maint, work, sweep, fresh>>
        /\ \A g \in Files :
             /\ row'[g].n = row[g].n /\ row'[g].small = row[g].small
             /\ \/ row'[g].state = row[g].state /\ row'[g].created = row[g].created
                \/ g = f /\ row[g].state = "none" /\ row'[g].state = "uploading"
    BY Types DEF CreateSmall, Row
  <1>2. Rows'
    BY <1>1, Types DEF IInv, Rows, Row, States, RowBecomes, tables
  <1>3. Kept'
    BY <1>1, Types DEF IInv, Kept, RowBecomes, Restorable, Keys, tables
  <1>4. Records'
    BY <1>1, Types DEF IInv, Records, Recorded, RowBecomes, Keys, Row, tables
  <1>5. Requests'
    BY <1>1, Types DEF IInv, Requests, Busy, Job, tables
  <1>6. Owners'
    BY <1>1, Types DEF IInv, Owners, Owns, Completing, Recorded, Requests, Busy, tables
  <1>7. Cleaning'
    BY <1>1, Types DEF IInv, Cleaning, Owns, Completing, Live, Restorable, Requests, Busy,
      tables
  <1>8. Wiping'
    BY <1>1, Types DEF IInv, Wiping, Gone, Requests, Busy, tables
  <1>9. Forgetting'
    BY <1>1, Types DEF IInv, Forgetting, Gone, tables
  <1>10. Measured'
    BY <1>1, Types DEF IInv, Measured, Stored, Requests, Busy, tables
  <1>11. Creating'
    BY <1>1, Types DEF IInv, Creating, Of, Gone, Requests, Busy, tables
  <1>12. Unstarted'
    <2>1. \A g \in Files :
            /\ row'[g].small = row[g].small
            /\ row'[g].state = "uploading" => row[g].state = "uploading" \/ row[g].small
      BY <1>1, Types
    <2>2. \A g \in Files : row'[g].state = "uploading" /\ Of(g)' = {} => Of(g) = {}
      BY <1>1, Types DEF Of
    <2>3. \A o \in objects' : o \in objects \/ o.n # 0 \/ row[o.file].small
      BY <1>1, Types
    <2>4. \A v \in Workers : work'[v].pc \in {"claim", "assemble"} =>
            work[v].pc \in {"claim", "assemble"} /\ work'[v].file = work[v].file
      BY <1>1, Types
    <2> QED
      BY <2>1, <2>2, <2>3, <2>4, UnstartedStays
  <1>13. Listed'
    BY <1>1, Types DEF IInv, Listed, Of, tables
  <1>14. ReadyIsWhole'
    BY <1>1, Types DEF IInv, ObjectsKept, ReadyIsWhole, Stored, Restorable, Keys, tables
  <1>15. EveryObjectFindable'
    BY <1>1, Types DEF IInv, ObjectsKept, EveryObjectFindable, Live, Stored, Recorded, Rows,
      tables
  <1>16. OneUpload'
    BY <1>1, Types DEF IInv, ObjectsKept, OneUpload, Of, tables
  <1> QED
    BY <1>2, <1>3, <1>4, <1>5, <1>6, <1>7, <1>8, <1>9, <1>10, <1>11, <1>12, <1>13, <1>14,
      <1>15, <1>16 DEF IInv, ObjectsKept

LEMMA CreateLargeDoes ==
  ASSUME TypeOK, NEW w \in Workers, NEW f \in Files, CreateLarge(w, f)
  PROVE  Begun(w, "start", f, 0, 0)
  <1>1. [Idle EXCEPT !.pc = "start", !.file = f]
        = [pc |-> "start", file |-> f, mp |-> 0, n |-> 0, since |-> 0]
    BY IdleAt
  <1>2. Starts(w, [Idle EXCEPT !.pc = "start", !.file = f])
    BY DEF CreateLarge, CreateAnew
  <1> QED
    BY <1>1, <1>2, Started DEF Steps

LEMMA CreateLargeKeeps ==
  ASSUME TypeOK, IInv, TypeOK', NEW w \in Workers, NEW f \in Files, CreateLarge(w, f)
  PROVE  IInv'
  <1>1. /\ ~row[f].small /\ Of(f) = {} /\ creating = None /\ creating' = w
        /\ UNCHANGED <<now, uploads, cleanup, trash, objects, maint, sweep, fresh>>
        /\ \/ row' = row /\ row[f].state = "uploading" /\ now <= row[f].created + KeyLife
           \/ /\ row[f].state = "none" /\ row'[f].state = "uploading" /\ row'[f].n = row[f].n
              /\ row'[f].small = row[f].small /\ row'[f].created = now
              /\ \A g \in Files : g # f => row'[g] = row[g]
    BY Types DEF CreateLarge, CreateAnew, bucket, Row
  <1>2. Begun(w, "start", f, 0, 0)
    BY CreateLargeDoes
  <1>3. Rows'
    BY <1>1, <1>2, Types DEF IInv, Rows, Row, States, RowBecomes, tables
  <1>4. Kept'
    BY <1>1, <1>2, Types DEF IInv, Kept, RowBecomes, Restorable, Keys, tables
  <1>5. Records'
    BY <1>1, <1>2, Types DEF IInv, Records, Recorded, RowBecomes, Keys, Row, tables
  <1>6. Requests'
    BY <1>1, <1>2, Types, UploadsAssumption DEF IInv, Requests, Busy, Job, GaveUp, Ends,
      Becomes, Begun, Others, Idle, tables
  <1>7. Owners'
    BY <1>1, <1>2, Types DEF IInv, Owners, Owns, Completing, Recorded, Requests, Busy, GaveUp,
      Ends, Becomes, Begun, Others, Idle, tables
  <1>8. Cleaning'
    BY <1>1, <1>2, Types DEF IInv, Cleaning, Owns, Completing, Live, Restorable, Requests,
      Busy, GaveUp, Ends, Becomes, Begun, Others, Idle, tables
  <1>9. Wiping'
    BY <1>1, <1>2, Types DEF IInv, Wiping, Gone, Requests, Busy, GaveUp, Ends, Becomes, Begun,
      Others, Idle, tables
  <1>10. Forgetting'
    BY <1>1, <1>2, Types DEF IInv, Forgetting, Gone, tables
  <1>11. Measured'
    BY <1>1, <1>2, Types DEF IInv, Measured, Stored, Requests, Busy, GaveUp, Ends, Becomes,
      Begun, Others, Idle, tables
  <1>12. Creating'
    BY <1>1, <1>2, Types, UploadsAssumption DEF IInv, Creating, Of, Gone, Requests, Busy,
      GaveUp, Ends, Becomes, Begun, Others, Idle, tables
  <1>13. Unstarted'
    <2>1. SUFFICES ASSUME NEW g \in Files, ~row'[g].small, row'[g].state = "uploading", Of(g)' = {}
                   PROVE  /\ Stored(g, 0)' = {}
                          /\ \A v \in Workers :
                               work'[v].file = g => work'[v].pc \notin {"claim", "assemble"}
      BY DEF Unstarted
    <2>2. ~row[g].small /\ Of(g) = {} /\ row[g].state \in {"none", "uploading"}
      BY <1>1, <2>1 DEF Of
    <2>3. CASE row[g].state = "uploading"
      BY <1>1, <1>2, <2>2, <2>3 DEF IInv, Unstarted, Stored, Begun, Others
    <2>4. CASE row[g].state = "none"
      <3>1. \A o \in objects : o.file # g
        BY <2>4 DEF IInv, ObjectsKept, EveryObjectFindable, Records, Live
      <3>2. \A v \in Workers : Busy(v) => work[v].file # g
        BY <2>4 DEF IInv, Requests
      <3> QED
        BY <1>1, <1>2, <3>1, <3>2 DEF Stored, Begun, Others, Busy
    <2> QED
      BY <2>2, <2>3, <2>4
  <1>14. Listed'
    BY <1>1, <1>2, Types DEF IInv, Listed, Of, tables
  <1>15. ReadyIsWhole'
    BY <1>1, <1>2, Types DEF IInv, ObjectsKept, ReadyIsWhole, Stored, Restorable, Keys, tables
  <1>16. EveryObjectFindable'
    BY <1>1, <1>2, Types DEF IInv, ObjectsKept, EveryObjectFindable, Live, Stored, Recorded,
      Rows, tables
  <1>17. OneUpload'
    BY <1>1, <1>2, Types DEF IInv, ObjectsKept, OneUpload, Of, tables
  <1> QED
    BY <1>3, <1>4, <1>5, <1>6, <1>7, <1>8, <1>9, <1>10, <1>11, <1>12, <1>13, <1>14, <1>15,
      <1>16, <1>17 DEF IInv, ObjectsKept
(* A record is added to file_cleanup.                                       *)
LEMMA Recording ==
  ASSUME NEW f, NEW n, Noted(f, n)
  PROVE  /\ \E c \in cleanup' : c.file = f /\ c.n = n
         /\ \A g, m : Recorded(g, m) => \E c \in cleanup' : c.file = g /\ c.n = m
         /\ \A c \in cleanup' : c \in cleanup \/ (c.file = f /\ c.n = n /\ c.at = now)
  <1> DEFINE d == [file |-> f, n |-> n, at |-> now]
  <1>1. d \in cleanup' /\ d.file = f /\ d.n = n /\ d.at = now
    BY DEF Noted
  <1>2. \A c \in cleanup' : c \in cleanup \/ c = d
    BY DEF Noted
  <1> HIDE DEF d
  <1> QED
    BY <1>1, <1>2 DEF Recorded, Noted

(* A row goes.                                                             *)
LEMMA RemovalKeeps ==
  ASSUME TypeOK, IInv, NEW f \in Files, row[f].state \in {"uploading", "ready"},
         NEW n, n = row[f].n, RowBecomes(f, "deleted", n),
         Noted(f, n),
         UNCHANGED <<objects, fresh>>
  PROVE  Records' /\ EveryObjectFindable'
  <1>1. /\ \E c \in cleanup' : c.file = f /\ c.n = n
        /\ \A g, m : Recorded(g, m) => \E c \in cleanup' : c.file = g /\ c.n = m
        /\ \A c \in cleanup' : c \in cleanup \/ (c.file = f /\ c.n = n /\ c.at = now)
    BY Recording
  <1>2. row'[f].state = "deleted" /\ row'[f].n = n /\ n <= fresh
        /\ \A g \in Files : g # f => row'[g] = row[g]
    BY DEF RowBecomes, IInv, Rows
  <1>3. ASSUME NEW c \in cleanup'
        PROVE  row'[c.file].state # "none" /\ c.n <= fresh
    BY <1>1, <1>2, Types DEF IInv, Records, Keys
  <1>4. n # 0 => Recorded(f, 0)
    BY DEF IInv, Records, Rows
  <1>5. ASSUME NEW g \in Files
        PROVE  /\ row'[g].state = "deleted" => /\ \E c \in cleanup' : c.file = g /\ c.n = row'[g].n
                                              /\ \E c \in cleanup' : c.file = g /\ c.n = 0
               /\ row'[g].state = "ready" /\ row'[g].n # 0 =>
                    \E c \in cleanup' : c.file = g /\ c.n = 0
    BY <1>1, <1>2, <1>4 DEF IInv, Records
  <1>6. Records'
    BY <1>3, <1>5 DEF Records, Recorded
  <1>7. ASSUME NEW o \in objects
        PROVE  \/ row'[o.file].state \in {"uploading", "ready"} /\ row'[o.file].n = o.n
               \/ \E c \in cleanup' : c.file = o.file /\ c.n = o.n
    BY <1>1, <1>2, Types DEF IInv, ObjectsKept, EveryObjectFindable, Live, Recorded
  <1> QED
    BY <1>6, <1>7 DEF EveryObjectFindable, Live

LEMMA AbandonDoes ==
  ASSUME TypeOK, IInv, NEW w \in Workers, Abandon(w)
  PROVE  \/ GaveUp(w) /\ UNCHANGED <<row, uploads, cleanup>>
         \/ /\ row[work[w].file].state = "uploading"
            /\ Becomes(w, "wipe", work[w].mp, work[w].n)
            /\ RowBecomes(work[w].file, "deleted", 0)
            /\ uploads' = uploads \ Of(work[w].file)
            /\ Noted(work[w].file, 0)
  <1> DEFINE f == work[w].file
  <1>1. f \in Files
    BY DEF Abandon, IInv, Requests, Busy
  <1>2. CASE row[f].state = "uploading"
    <2>1. Remove(f) /\ Goes(w, "wipe")
      BY <1>2 DEF Abandon
    <2>2. row[f].n = 0
      BY <1>1, <1>2 DEF IInv, Rows
    <2>3. Becomes(w, "wipe", work[w].mp, work[w].n)
      BY <2>1, Went DEF Steps
    <2> QED
      BY <1>1, <1>2, <2>1, <2>2, <2>3, Removed DEF Noted
  <1>3. CASE row[f].state # "uploading"
    BY <1>3, GivenUp DEF Abandon
  <1> QED
    BY <1>2, <1>3

LEMMA AbandonKeeps ==
  ASSUME TypeOK, IInv, TypeOK', NEW w \in Workers, Abandon(w)
  PROVE  IInv'
  <1>1. /\ work[w].pc = "abandon" /\ work[w].file \in Files
        /\ UNCHANGED <<now, trash, objects, creating, maint, sweep, fresh>>
    BY DEF Abandon, bucket, IInv, Requests, Busy
  <1>2. \/ GaveUp(w) /\ UNCHANGED <<row, uploads, cleanup>>
        \/ /\ row[work[w].file].state = "uploading"
           /\ Becomes(w, "wipe", work[w].mp, work[w].n)
           /\ RowBecomes(work[w].file, "deleted", 0)
           /\ uploads' = uploads \ Of(work[w].file)
           /\ Noted(work[w].file, 0)
    BY AbandonDoes
  <1>3. Rows'
    BY <1>1, <1>2, Types DEF IInv, Rows, Row, States, RowBecomes, tables
  <1>4. Kept'
    BY <1>1, <1>2, Types DEF IInv, Kept, RowBecomes, Restorable, Keys, tables
  <1>5. Records'
    <2>1. CASE UNCHANGED <<row, uploads, cleanup>>
      BY <1>1, <2>1 DEF IInv, Records, Recorded
    <2>2. CASE ~UNCHANGED <<row, uploads, cleanup>>
      BY <1>1, <1>2, <2>2, RemovalKeeps DEF IInv, Rows
    <2> QED
      BY <2>1, <2>2
  <1>6. Requests'
    BY <1>1, <1>2, Types DEF IInv, Requests, Busy, Job, RowBecomes, GaveUp, Ends, Becomes,
      Begun, Others, Idle, tables
  <1>7. Owners'
    BY <1>1, <1>2, Types DEF IInv, Owners, Owns, Completing, Recorded, RowBecomes, Requests,
      Busy, Noted, GaveUp, Ends, Becomes, Begun, Others, Idle, tables
  <1>8. Cleaning'
    BY <1>1, <1>2, Types DEF IInv, Cleaning, Owns, Completing, Live, Restorable, RowBecomes,
      Requests, Busy, GaveUp, Ends, Becomes, Begun, Others, Idle, tables
  <1>9. Wiping'
    BY <1>1, <1>2, Types DEF IInv, Wiping, Gone, RowBecomes, Requests, Busy, Kept, GaveUp,
      Ends, Becomes, Begun, Others, Idle, tables
  <1>10. Forgetting'
    BY <1>1, <1>2, Types DEF IInv, Forgetting, Gone, RowBecomes, Kept, tables
  <1>11. Measured'
    BY <1>1, <1>2, Types DEF IInv, Measured, Stored, RowBecomes, Requests, Busy, GaveUp, Ends,
      Becomes, Begun, Others, Idle, tables
  <1>12. Creating'
    <2>1. \A g \in Files : row'[g].small = row[g].small /\ row'[g].created = row[g].created
      BY <1>2 DEF RowBecomes
    <2>2. \A v \in Workers : work'[v].pc \in {"start", "insert"} => work'[v] = work[v]
      BY <1>1, <1>2 DEF GaveUp, Ends, Becomes, Others, Idle
    <2>3. ASSUME NEW v \in Workers, NEW g \in Files,
                 work[v].pc \in {"start", "insert"}, work[v].file = g
          PROVE  row'[g].state = "uploading" \/ Gone(g)'
      <3>1. row[g].state = "uploading" \/ Gone(g)
        BY <2>3 DEF IInv, Creating
      <3> QED
        BY <1>1, <1>2, <3>1 DEF IInv, Kept, Gone, RowBecomes
    <2>4. creating' = creating /\ uploads' \subseteq uploads
      BY <1>1, <1>2
    <2> QED
      BY <2>1, <2>2, <2>3, <2>4, CreatingStays
  <1>13. Unstarted'
    <2>1. \A g \in Files :
            /\ row'[g].small = row[g].small
            /\ row'[g].state = "uploading" => row[g].state = "uploading" \/ row[g].small
      BY <1>1, <1>2, Types DEF RowBecomes
    <2>2. \A g \in Files : row'[g].state = "uploading" /\ Of(g)' = {} => Of(g) = {}
      BY <1>1, <1>2, Types DEF Of, RowBecomes, Upload
    <2>3. \A o \in objects' : o \in objects \/ o.n # 0 \/ row[o.file].small
      BY <1>1, <1>2, Types
    <2>4. \A v \in Workers : work'[v].pc \in {"claim", "assemble"} =>
            work[v].pc \in {"claim", "assemble"} /\ work'[v].file = work[v].file
      BY <1>1, <1>2, Types DEF GaveUp, Ends, Becomes, Begun, Others, Idle
    <2> QED
      BY <2>1, <2>2, <2>3, <2>4, UnstartedStays
  <1>14. Listed'
    BY <1>1, <1>2, Types DEF IInv, Listed, Of, RowBecomes, tables
  <1>15. ReadyIsWhole'
    BY <1>1, <1>2, Types DEF IInv, ObjectsKept, ReadyIsWhole, Stored, Restorable, Keys,
      RowBecomes, Rows, tables
  <1>16. EveryObjectFindable'
    <2>1. CASE UNCHANGED <<row, uploads, cleanup>>
      BY <1>1, <2>1 DEF IInv, ObjectsKept, EveryObjectFindable, Live
    <2>2. CASE ~UNCHANGED <<row, uploads, cleanup>>
      BY <1>1, <1>2, <2>2, RemovalKeeps DEF IInv, Rows
    <2> QED
      BY <2>1, <2>2
  <1>17. OneUpload'
    BY <1>1, <1>2, Types DEF IInv, ObjectsKept, OneUpload, Of, tables
  <1> QED
    BY <1>3, <1>4, <1>5, <1>6, <1>7, <1>8, <1>9, <1>10, <1>11, <1>12, <1>13, <1>14, <1>15,
      <1>16, <1>17 DEF IInv, ObjectsKept

LEMMA SweepTxDoes ==
  ASSUME TypeOK, IInv, NEW one \in sweep.found, SweepTx(one)
  PROVE  /\ sweep'.cutoff = sweep.cutoff /\ sweep'.found = sweep.found \ {one}
         /\ \/ UNCHANGED <<row, uploads, cleanup>> /\ sweep'.pc = sweep.pc
            \/ /\ row[one.file].state = "uploading" /\ one.file \in Files
               /\ sweep'.pc = "forget" /\ sweep'.one = one
               /\ RowBecomes(one.file, "deleted", 0)
               /\ uploads' = uploads \ Of(one.file)
               /\ Noted(one.file, 0)
  <1>1. one.file \in Files /\ sweep.pc = "next"
    BY Types DEF SweepTx
  <1>2. CASE row[one.file].state = "uploading" /\ Claimable(one)
    <2>1. /\ Remove(one.file) /\ sweep'.pc = "forget" /\ sweep'.one = one
          /\ sweep'.cutoff = sweep.cutoff /\ sweep'.found = sweep.found \ {one}
      BY <1>2 DEF SweepTx, TypeOK
    <2>2. row[one.file].n = 0
      BY <1>1, <1>2 DEF IInv, Rows
    <2> QED
      BY <1>1, <1>2, <2>1, <2>2, Removed DEF Noted
  <1>3. CASE ~(row[one.file].state = "uploading" /\ Claimable(one))
    BY <1>3 DEF SweepTx, TypeOK
  <1> QED
    BY <1>1, <1>2, <1>3

LEMMA SweepTxKeeps ==
  ASSUME TypeOK, IInv, TypeOK', NEW one \in sweep.found, SweepTx(one)
  PROVE  IInv'
  <1>1. /\ sweep.pc = "next"
        /\ UNCHANGED <<now, trash, objects, creating, maint, work, fresh>>
    BY DEF SweepTx, bucket, TypeOK
  <1>2. /\ sweep'.cutoff = sweep.cutoff /\ sweep'.found = sweep.found \ {one}
        /\ \/ UNCHANGED <<row, uploads, cleanup>> /\ sweep'.pc = sweep.pc
           \/ /\ row[one.file].state = "uploading" /\ one.file \in Files
              /\ sweep'.pc = "forget" /\ sweep'.one = one
              /\ RowBecomes(one.file, "deleted", 0)
              /\ uploads' = uploads \ Of(one.file)
              /\ Noted(one.file, 0)
    BY SweepTxDoes
  <1>3. Rows'
    BY <1>1, <1>2, Types DEF IInv, Rows, Row, States, RowBecomes, tables
  <1>4. Kept'
    BY <1>1, <1>2, Types DEF IInv, Kept, RowBecomes, Restorable, Keys, tables
  <1>5. Records'
    <2>1. CASE UNCHANGED <<row, uploads, cleanup>>
      BY <1>1, <2>1 DEF IInv, Records, Recorded
    <2>2. CASE ~UNCHANGED <<row, uploads, cleanup>>
      BY <1>1, <1>2, <2>2, RemovalKeeps DEF IInv, Rows
    <2> QED
      BY <2>1, <2>2
  <1>6. Requests'
    BY <1>1, <1>2, Types DEF IInv, Requests, Busy, Job, RowBecomes, tables
  <1>7. Owners'
    BY <1>1, <1>2, Types DEF IInv, Owners, Owns, Completing, Recorded, RowBecomes, Requests,
      Busy, Noted, tables
  <1>8. Cleaning'
    BY <1>1, <1>2, Types DEF IInv, Cleaning, Owns, Completing, Live, Restorable, RowBecomes,
      Requests, Busy, tables
  <1>9. Wiping'
    BY <1>1, <1>2, Types DEF IInv, Wiping, Gone, RowBecomes, Requests, Busy, Kept, tables
  <1>10. Forgetting'
    BY <1>1, <1>2, Types DEF IInv, Forgetting, Gone, RowBecomes, Kept, tables
  <1>11. Measured'
    BY <1>1, <1>2, Types DEF IInv, Measured, Stored, RowBecomes, Requests, Busy, tables
  <1>12. Creating'
    <2>1. \A g \in Files : row'[g].small = row[g].small /\ row'[g].created = row[g].created
      BY <1>2 DEF RowBecomes
    <2>2. \A v \in Workers : work'[v].pc \in {"start", "insert"} => work'[v] = work[v]
      BY <1>1, <1>2 DEF GaveUp, Ends, Becomes, Others, Idle
    <2>3. ASSUME NEW v \in Workers, NEW g \in Files,
                 work[v].pc \in {"start", "insert"}, work[v].file = g
          PROVE  row'[g].state = "uploading" \/ Gone(g)'
      <3>1. row[g].state = "uploading" \/ Gone(g)
        BY <2>3 DEF IInv, Creating
      <3> QED
        BY <1>1, <1>2, <3>1 DEF IInv, Kept, Gone, RowBecomes
    <2>4. creating' = creating /\ uploads' \subseteq uploads
      BY <1>1, <1>2
    <2> QED
      BY <2>1, <2>2, <2>3, <2>4, CreatingStays
  <1>13. Unstarted'
    <2>1. \A g \in Files :
            /\ row'[g].small = row[g].small
            /\ row'[g].state = "uploading" => row[g].state = "uploading" \/ row[g].small
      BY <1>1, <1>2, Types DEF RowBecomes
    <2>2. \A g \in Files : row'[g].state = "uploading" /\ Of(g)' = {} => Of(g) = {}
      BY <1>1, <1>2, Types DEF Of, RowBecomes, Upload
    <2>3. \A o \in objects' : o \in objects \/ o.n # 0 \/ row[o.file].small
      BY <1>1, <1>2, Types
    <2>4. \A v \in Workers : work'[v].pc \in {"claim", "assemble"} =>
            work[v].pc \in {"claim", "assemble"} /\ work'[v].file = work[v].file
      BY <1>1, <1>2, Types
    <2> QED
      BY <2>1, <2>2, <2>3, <2>4, UnstartedStays
  <1>14. Listed'
    BY <1>1, <1>2, Types DEF IInv, Listed, Of, RowBecomes, tables
  <1>15. ReadyIsWhole'
    BY <1>1, <1>2, Types DEF IInv, ObjectsKept, ReadyIsWhole, Stored, Restorable, Keys,
      RowBecomes, Rows, tables
  <1>16. EveryObjectFindable'
    <2>1. CASE UNCHANGED <<row, uploads, cleanup>>
      BY <1>1, <2>1 DEF IInv, ObjectsKept, EveryObjectFindable, Live
    <2>2. CASE ~UNCHANGED <<row, uploads, cleanup>>
      BY <1>1, <1>2, <2>2, RemovalKeeps DEF IInv, Rows
    <2> QED
      BY <2>1, <2>2
  <1>17. OneUpload'
    BY <1>1, <1>2, Types DEF IInv, ObjectsKept, OneUpload, Of, tables
  <1> QED
    BY <1>3, <1>4, <1>5, <1>6, <1>7, <1>8, <1>9, <1>10, <1>11, <1>12, <1>13, <1>14, <1>15,
      <1>16, <1>17 DEF IInv, ObjectsKept

LEMMA SweepForgetKeeps ==
  ASSUME TypeOK, IInv, TypeOK', SweepForget
  PROVE  IInv'
  <1>1. /\ sweep.one.file \in Files /\ Gone(sweep.one.file)
        /\ sweep'.pc = "next" /\ sweep'.cutoff = sweep.cutoff /\ sweep'.found = sweep.found
        /\ objects' = objects \ Stored(sweep.one.file, 0)
        /\ UNCHANGED <<now, tables, creating, maint, work, fresh>>
    BY DEF SweepForget, Forgotten, IInv, Forgetting, TypeOK
  <1>2. Rows'
    BY <1>1, Types DEF IInv, Rows, Row, States, RowBecomes, tables
  <1>3. Kept'
    BY <1>1, Types DEF IInv, Kept, RowBecomes, Restorable, Keys, tables
  <1>4. Records'
    BY <1>1, Types DEF IInv, Records, Recorded, RowBecomes, Keys, Row, tables
  <1>5. Requests'
    BY <1>1, Types DEF IInv, Requests, Busy, Job, tables
  <1>6. Owners'
    BY <1>1, Types DEF IInv, Owners, Owns, Completing, Recorded, tables
  <1>7. Cleaning'
    BY <1>1, Types DEF IInv, Cleaning, Owns, Completing, Live, Restorable, tables
  <1>8. Wiping'
    BY <1>1, Types DEF IInv, Wiping, Gone, tables
  <1>9. Forgetting'
    BY <1>1, Types DEF IInv, Forgetting, Gone, tables
  <1>10. Measured'
    BY <1>1, Types DEF IInv, Measured, Stored, Requests, Busy, Gone, tables
  <1>11. Creating'
    BY <1>1, Types DEF IInv, Creating, Of, Gone, tables
  <1>12. Unstarted'
    BY <1>1, Types DEF IInv, Unstarted, Stored, Of, tables
  <1>13. Listed'
    BY <1>1, Types DEF IInv, Listed, Of, tables
  <1>14. ReadyIsWhole'
    BY <1>1, Types DEF IInv, ObjectsKept, ReadyIsWhole, Stored, Restorable, Keys, Rows, Kept,
      Gone, tables
  <1>15. EveryObjectFindable'
    BY <1>1, Types DEF IInv, ObjectsKept, EveryObjectFindable, Live, Stored, Recorded, tables
  <1>16. OneUpload'
    BY <1>1, Types DEF IInv, ObjectsKept, OneUpload, Of, tables
  <1> QED
    BY <1>2, <1>3, <1>4, <1>5, <1>6, <1>7, <1>8, <1>9, <1>10, <1>11, <1>12, <1>13, <1>14,
      <1>15, <1>16 DEF IInv, ObjectsKept

LEMMA SweepListKeeps ==
  ASSUME TypeOK, IInv, TypeOK', SweepList
  PROVE  IInv'
  <1>1. /\ sweep'.pc = "next" /\ sweep'.cutoff = now /\ sweep'.found = Abandoned
        /\ UNCHANGED <<now, tables, objects, creating, maint, work, fresh>>
    BY DEF SweepList, Asleep, bucket
  <1>2. ReadyIsWhole' /\ EveryObjectFindable'
    BY <1>1, ObjectsStay DEF tables
  <1>3. Rows'
    BY <1>1, Types DEF IInv, Rows, Row, States, RowBecomes, tables
  <1>4. Kept'
    BY <1>1, Types DEF IInv, Kept, RowBecomes, Restorable, Keys, tables
  <1>5. Records'
    BY <1>1, Types DEF IInv, Records, Recorded, RowBecomes, Keys, Row, tables
  <1>6. Requests'
    BY <1>1, Types DEF IInv, Requests, Busy, Job, tables
  <1>7. Owners'
    BY <1>1, Types DEF IInv, Owners, Owns, Completing, Recorded, tables
  <1>8. Cleaning'
    BY <1>1, Types DEF IInv, Cleaning, Owns, Completing, Live, Restorable, tables
  <1>9. Wiping'
    BY <1>1, Types DEF IInv, Wiping, Gone, tables
  <1>10. Forgetting'
    BY <1>1, Types DEF IInv, Forgetting, Gone, tables
  <1>11. Measured'
    BY <1>1, Types DEF IInv, Measured, Stored, tables
  <1>12. Creating'
    BY <1>1, Types DEF IInv, Creating, Of, Gone, tables
  <1>13. Unstarted'
    BY <1>1, Types DEF IInv, Unstarted, Stored, Of, tables
  <1>14. Listed'
    BY <1>1, Types DEF IInv, Listed, Of, Abandoned, Creating, tables
  <1>15. OneUpload'
    BY <1>1, Types DEF IInv, ObjectsKept, OneUpload, Of, tables
  <1> QED
    BY <1>2, <1>3, <1>4, <1>5, <1>6, <1>7, <1>8, <1>9, <1>10, <1>11, <1>12, <1>13, <1>14,
      <1>15 DEF IInv, ObjectsKept

LEMMA SweepEndKeeps ==
  ASSUME TypeOK, IInv, TypeOK', SweepEnd
  PROVE  IInv'
  <1>1. /\ sweep' = Asleep
        /\ UNCHANGED <<now, tables, objects, creating, maint, work, fresh>>
    BY DEF SweepEnd, bucket
  <1>2. ReadyIsWhole' /\ EveryObjectFindable'
    BY <1>1, ObjectsStay DEF tables
  <1>3. Rows'
    BY <1>1, Types DEF IInv, Rows, Row, States, RowBecomes, tables
  <1>4. Kept'
    BY <1>1, Types DEF IInv, Kept, RowBecomes, Restorable, Keys, tables
  <1>5. Records'
    BY <1>1, Types DEF IInv, Records, Recorded, RowBecomes, Keys, Row, tables
  <1>6. Requests'
    BY <1>1, Types DEF IInv, Requests, Busy, Job, tables
  <1>7. Owners'
    BY <1>1, Types DEF IInv, Owners, Owns, Completing, Recorded, tables
  <1>8. Cleaning'
    BY <1>1, Types DEF IInv, Cleaning, Owns, Completing, Live, Restorable, tables
  <1>9. Wiping'
    BY <1>1, Types DEF IInv, Wiping, Gone, tables
  <1>10. Forgetting'
    BY <1>1, Types DEF IInv, Forgetting, Gone, Asleep, tables
  <1>11. Measured'
    BY <1>1, Types DEF IInv, Measured, Stored, tables
  <1>12. Creating'
    BY <1>1, Types DEF IInv, Creating, Of, Gone, tables
  <1>13. Unstarted'
    BY <1>1, Types DEF IInv, Unstarted, Stored, Of, tables
  <1>14. Listed'
    BY <1>1, Types DEF IInv, Listed, Of, Asleep, tables
  <1>15. OneUpload'
    BY <1>1, Types DEF IInv, ObjectsKept, OneUpload, Of, tables
  <1> QED
    BY <1>2, <1>3, <1>4, <1>5, <1>6, <1>7, <1>8, <1>9, <1>10, <1>11, <1>12, <1>13, <1>14,
      <1>15 DEF IInv, ObjectsKept

LEMMA CrashKeeps ==
  ASSUME TypeOK, IInv, TypeOK', Crash
  PROVE  IInv'
  <1>1. /\ sweep' = Asleep /\ \A v \in Workers : work'[v] = Idle
        /\ UNCHANGED <<now, tables, objects, fresh>>
    BY DEF Crash, bucket
  <1>2. ReadyIsWhole' /\ EveryObjectFindable'
    BY <1>1, ObjectsStay DEF tables
  <1>3. Rows'
    BY <1>1, Types DEF IInv, Rows, Row, States, RowBecomes, tables
  <1>4. Kept'
    BY <1>1, Types DEF IInv, Kept, RowBecomes, Restorable, Keys, tables
  <1>5. Records'
    BY <1>1, Types DEF IInv, Records, Recorded, RowBecomes, Keys, Row, tables
  <1>6. Requests'
    BY <1>1, Types DEF IInv, Requests, Busy, Job, GaveUp, Ends, Becomes, Begun, Others, Idle,
      tables
  <1>7. Owners'
    BY <1>1, Types DEF IInv, Owners, Owns, Completing, Recorded, GaveUp, Ends, Becomes, Begun,
      Others, Idle, tables
  <1>8. Cleaning'
    BY <1>1, Types DEF IInv, Cleaning, Owns, Completing, Live, Restorable, GaveUp, Ends,
      Becomes, Begun, Others, Idle, tables
  <1>9. Wiping'
    BY <1>1, Types DEF IInv, Wiping, Gone, GaveUp, Ends, Becomes, Begun, Others, Idle, tables
  <1>10. Forgetting'
    BY <1>1, Types DEF IInv, Forgetting, Gone, Asleep, tables
  <1>11. Measured'
    BY <1>1, Types DEF IInv, Measured, Stored, GaveUp, Ends, Becomes, Begun, Others, Idle,
      tables
  <1>12. Creating'
    BY <1>1, Types DEF IInv, Creating, Of, Gone, GaveUp, Ends, Becomes, Begun, Others, Idle,
      tables
  <1>13. Unstarted'
    BY <1>1, Types DEF IInv, Unstarted, Stored, Of, GaveUp, Ends, Becomes, Begun, Others,
      Idle, tables
  <1>14. Listed'
    BY <1>1, Types DEF IInv, Listed, Of, Asleep, tables
  <1>15. OneUpload'
    BY <1>1, Types DEF IInv, ObjectsKept, OneUpload, Of, tables
  <1> QED
    BY <1>2, <1>3, <1>4, <1>5, <1>6, <1>7, <1>8, <1>9, <1>10, <1>11, <1>12, <1>13, <1>14,
      <1>15 DEF IInv, ObjectsKept
(* The fresh keys stay with those who hold them.                            *)
LEMMA OwnersStay ==
  ASSUME TypeOK, IInv,
         \A v \in Workers : Owns(v)' =>
           /\ Owns(v)
           /\ work'[v].file = work[v].file /\ work'[v].n = work[v].n
           /\ work'[v].since = work[v].since
           /\ row'[work[v].file].n # work[v].n
           /\ \A c \in cleanup :
                c.file = work[v].file /\ c.n = work[v].n => c \in cleanup'
           /\ \A c \in cleanup' :
                c.file = work[v].file /\ c.n = work[v].n => c \in cleanup,
         \A g \in Files : row'[g].small = row[g].small
  PROVE  Owners'
  <1>1. ASSUME NEW v \in Workers, Owns(v)'
        PROVE  /\ row'[work'[v].file].small
               /\ row'[work'[v].file].n # work'[v].n
               /\ \E c \in cleanup' : c.file = work'[v].file /\ c.n = work'[v].n
               /\ \A c \in cleanup' :
                    c.file = work'[v].file /\ c.n = work'[v].n => c.at >= work'[v].since
    <2>1. /\ Owns(v) /\ work[v].file \in Files
          /\ work'[v].file = work[v].file /\ work'[v].n = work[v].n
          /\ work'[v].since = work[v].since
      BY <1>1 DEF IInv, Requests, Busy, Owns, Completing
    <2>2. PICK c \in cleanup : c.file = work[v].file /\ c.n = work[v].n
      BY <2>1 DEF IInv, Owners, Recorded
    <2>3. c \in cleanup'
      BY <1>1, <2>2
    <2>4. row[work[v].file].small /\ \A d \in cleanup :
            d.file = work[v].file /\ d.n = work[v].n => d.at >= work[v].since
      BY <2>1 DEF IInv, Owners
    <2> QED
      BY <1>1, <2>1, <2>2, <2>3, <2>4
  <1>2. ASSUME NEW u \in Workers, NEW v \in Workers, Owns(u)', Owns(v)', u # v
        PROVE  work'[u].n # work'[v].n
    BY <1>2 DEF IInv, Owners
  <1> QED
    BY <1>1, <1>2 DEF Owners, Recorded

LEMMA DeleteTxDoes ==
  ASSUME TypeOK, IInv, NEW w \in Workers, DeleteTx(w), NEW f \in Files, f = work[w].file
  PROVE  \/ /\ row[f].state = "ready"
            /\ Ends(w)
            /\ RowBecomes(f, "deleted", row[f].n)
            /\ uploads' = uploads \ Of(f)
            /\ Noted(f, row[f].n)
            /\ trash' = {t \in trash : Restorable(t)} \cup
                        {[file |-> f, n |-> row[f].n, at |-> now]}
         \/ /\ row[f].state = "uploading"
            /\ Becomes(w, "wipe", work[w].mp, work[w].n)
            /\ RowBecomes(f, "deleted", row[f].n)
            /\ uploads' = uploads \ Of(f)
            /\ Noted(f, row[f].n)
            /\ trash' = trash
         \/ Ends(w) /\ UNCHANGED tables
  <1>1. CASE row[f].state = "ready"
    <2>1. /\ Remove(f) /\ Done(w)
          /\ trash' = {t \in trash : Restorable(t)} \cup {[file |-> f, n |-> row[f].n, at |-> now]}
      BY <1>1 DEF DeleteTx
    <2> QED
      BY <1>1, <2>1, Removed, Ended
  <1>2. CASE row[f].state = "uploading"
    <2>1. Remove(f) /\ Goes(w, "wipe") /\ UNCHANGED trash
      BY <1>2 DEF DeleteTx
    <2>2. Becomes(w, "wipe", work[w].mp, work[w].n)
      BY <2>1, Went DEF Steps
    <2> QED
      BY <1>2, <2>1, <2>2, Removed
  <1>3. CASE row[f].state \notin {"ready", "uploading"}
    <2>1. Done(w) /\ UNCHANGED tables
      BY <1>3 DEF DeleteTx
    <2> QED
      BY <2>1, Ended
  <1> QED
    BY <1>1, <1>2, <1>3

LEMMA DeleteTxKeeps ==
  ASSUME TypeOK, IInv, TypeOK', NEW w \in Workers, DeleteTx(w), NEW f \in Files, f = work[w].file
  PROVE  IInv'
  <1>1. /\ work[w].pc = "delete" /\ work[w].n = 0
        /\ UNCHANGED <<now, objects, creating, maint, sweep, fresh>>
    BY DEF DeleteTx, bucket, IInv, Requests, Busy
  <1>2. \/ /\ row[f].state = "ready"
           /\ Ends(w)
           /\ RowBecomes(f, "deleted", row[f].n)
           /\ uploads' = uploads \ Of(f)
           /\ Noted(f, row[f].n)
           /\ trash' = {t \in trash : Restorable(t)} \cup
                       {[file |-> f, n |-> row[f].n, at |-> now]}
        \/ /\ row[f].state = "uploading"
           /\ Becomes(w, "wipe", work[w].mp, work[w].n)
           /\ RowBecomes(f, "deleted", row[f].n)
           /\ uploads' = uploads \ Of(f)
           /\ Noted(f, row[f].n)
           /\ trash' = trash
        \/ Ends(w) /\ UNCHANGED tables
    BY DeleteTxDoes
  <1>3. Rows'
    BY <1>1, <1>2, Types DEF IInv, Rows, Row, States, RowBecomes, tables
  <1>4. Kept'
    BY <1>1, <1>2, Types DEF IInv, Kept, RowBecomes, Restorable, Keys, Rows, tables
  <1>5. Records'
    <2>1. CASE UNCHANGED <<row, cleanup>>
      BY <1>1, <2>1 DEF IInv, Records, Recorded
    <2>2. CASE ~UNCHANGED <<row, cleanup>>
      BY <1>1, <1>2, <2>2, RemovalKeeps DEF tables
    <2> QED
      BY <2>1, <2>2
  <1>6. Requests'
    <2>1. \A v \in Workers : Busy(v)' =>
            /\ Busy(v) /\ work'[v].file = work[v].file /\ work'[v].n = work[v].n
            /\ work'[v].since = work[v].since
            /\ work'[v].pc = work[v].pc \/ work'[v].pc = "wipe"
      BY <1>1, <1>2 DEF Busy, Ends, Becomes, Others, Idle
    <2>2. \A g \in Files : /\ row'[g].small = row[g].small
                           /\ row[g].state # "none" => row'[g].state # "none"
      BY <1>2 DEF RowBecomes, tables
    <2> QED
      <3> SUFFICES ASSUME NEW v \in Workers, Busy(v)'
                   PROVE  /\ work'[v].file \in Files
                          /\ row'[work'[v].file].state # "none"
                          /\ work'[v].since <= now /\ now <= work'[v].since + 1
                          /\ work'[v].n <= fresh
                          /\ work'[v].pc \in {"copy", "drop"} => work'[v].n # 0
                          /\ work'[v].pc \in {"start", "insert", "claim", "assemble"}
                               => work'[v].n = 0 /\ ~row'[work'[v].file].small
                          /\ work'[v].pc = "delete" => work'[v].n = 0
                          /\ work'[v].pc = "fresh" => row'[work'[v].file].small
                          /\ work'[v].pc \in {"head", "finish"} /\ row'[work'[v].file].small
                               => work'[v].n # 0
        BY <1>1 DEF Requests
      <3>1. /\ Busy(v) /\ work'[v].file = work[v].file
            /\ work'[v].n = work[v].n /\ work'[v].since = work[v].since
            /\ work'[v].pc = work[v].pc \/ work'[v].pc = "wipe"
        BY <2>1
      <3>2. work[v].file \in Files /\ row[work[v].file].state # "none"
        BY <3>1 DEF IInv, Requests
      <3>3. row'[work[v].file].small = row[work[v].file].small /\ row'[work[v].file].state # "none"
        BY <2>2, <3>2
      <3> QED
        BY <3>1, <3>2, <3>3 DEF IInv, Requests
  <1>7. Owners'
    <2>1. \A v \in Workers : Owns(v)' =>
            /\ Owns(v) /\ work'[v].file = work[v].file /\ work'[v].n = work[v].n
            /\ work'[v].since = work[v].since
      BY <1>1, <1>2 DEF Owns, Completing, Ends, Becomes, Others, Idle
    <2>2. \A g \in Files : row'[g].n = row[g].n /\ row'[g].small = row[g].small
      BY <1>2 DEF RowBecomes, tables
    <2>3. cleanup \subseteq cleanup'
          /\ \A c \in cleanup' : c \in cleanup \/ (c.file = f /\ c.n = row[f].n)
      BY <1>2 DEF tables, Noted
    <2>4. \A v \in Workers : Owns(v) => work[v].file \in Files /\ row[work[v].file].n # work[v].n
      BY DEF IInv, Owners, Requests, Busy, Owns, Completing
    <2> QED
      BY <2>1, <2>2, <2>3, <2>4, OwnersStay
  <1>8. Cleaning'
    <2>1. ASSUME NEW v \in Workers, work'[v].pc = "clean"
          PROVE  work'[v] = work[v]
      BY <1>1, <1>2, <2>1 DEF Ends, Becomes, Others, Idle
    <2>2. \A v \in Workers : Owns(v)' =>
            Owns(v) /\ work'[v].file = work[v].file /\ work'[v].n = work[v].n
      BY <1>1, <1>2 DEF Owns, Completing, Ends, Becomes, Others, Idle
    <2>3. \A g \in Files : row'[g].n = row[g].n /\ (Live(g)' => Live(g))
      BY <1>2 DEF RowBecomes, tables, Live
    <2>4. \A t \in trash' : \/ t \in trash
                           \/ (t.file = f /\ t.n = row[f].n /\ Live(f))
      BY <1>2 DEF tables, Live
    <2>5. ASSUME NEW v \in Workers, work[v].pc = "clean"
          PROVE  /\ maint = v /\ work[v].file \in Files
                 /\ ~(Live(work[v].file) /\ row[work[v].file].n = work[v].n)
                 /\ \A t \in trash : t.file = work[v].file /\ t.n = work[v].n => ~Restorable(t)
                 /\ \A u \in Workers :
                      Owns(u) /\ work[u].file = work[v].file => work[u].n # work[v].n
      BY <2>5 DEF IInv, Cleaning, Requests, Busy
    <2>6. ASSUME NEW v \in Workers, work'[v].pc = "clean"
          PROVE  /\ maint' = v
                 /\ ~(/\ row'[work'[v].file].state \in {"uploading", "ready"}
                      /\ row'[work'[v].file].n = work'[v].n)
                 /\ \A t \in trash' :
                      t.file = work'[v].file /\ t.n = work'[v].n => ~(t.at + Grace > now')
                 /\ \A u \in Workers :
                      Owns(u)' /\ work'[u].file = work'[v].file => work'[u].n # work'[v].n
      BY <1>1, <2>1, <2>2, <2>3, <2>4, <2>5, <2>6 DEF Live, Restorable
    <2> QED
      BY <2>6 DEF Cleaning, Live, Restorable
  <1>9. Wiping'
    <2>1. \A v \in Workers : work'[v].pc = "wipe" =>
            \/ work[v].pc = "wipe" /\ work'[v].file = work[v].file
            \/ row[f].state = "uploading" /\ row'[f].state = "deleted" /\ trash' = trash
               /\ work'[v].file = f
      BY <1>1, <1>2 DEF Ends, Becomes, RowBecomes, Others, Idle
    <2>2. \A t \in trash : row[t.file].state = "deleted"
      BY DEF IInv, Kept
    <2>3. \A v \in Workers : work[v].pc = "wipe" =>
            work[v].file \in Files /\ (row[work[v].file].small \/ Gone(work[v].file))
      BY DEF IInv, Wiping, Requests, Busy
    <2>4. \A g \in Files : row'[g].small = row[g].small /\ (Gone(g) => Gone(g)')
      BY <1>2 DEF Gone, RowBecomes, tables
    <2>5. row[f].state = "uploading" /\ row'[f].state = "deleted" /\ trash' = trash => Gone(f)'
      BY <2>2 DEF Gone
    <2> QED
      BY <2>1, <2>3, <2>4, <2>5 DEF Wiping
  <1>10. Forgetting'
    BY <1>1, <1>2, Types DEF IInv, Forgetting, Gone, RowBecomes, Kept, tables
  <1>11. Measured'
    <2>1. \A v \in Workers : work'[v].pc = "finish" => work'[v] = work[v]
      BY <1>1, <1>2 DEF Ends, Becomes, Others, Idle
    <2>2. \A g \in Files : row'[g].state = "uploading" => row[g].state = "uploading"
      BY <1>2 DEF RowBecomes, tables
    <2>3. \A v \in Workers : work[v].pc = "finish" => work[v].file \in Files
      BY DEF IInv, Requests, Busy
    <2> QED
      BY <1>1, <2>1, <2>2, <2>3 DEF IInv, Measured, Stored
  <1>12. Creating'
    <2>1. \A g \in Files : row'[g].small = row[g].small /\ row'[g].created = row[g].created
      BY <1>2 DEF RowBecomes, tables
    <2>2. \A v \in Workers : work'[v].pc \in {"start", "insert"} => work'[v] = work[v]
      BY <1>1, <1>2 DEF GaveUp, Ends, Becomes, Others, Idle
    <2>3. ASSUME NEW v \in Workers, NEW g \in Files,
                 work[v].pc \in {"start", "insert"}, work[v].file = g
          PROVE  row'[g].state = "uploading" \/ Gone(g)'
      <3>1. row[g].state = "uploading" \/ Gone(g)
        BY <2>3 DEF IInv, Creating
      <3> QED
        BY <1>1, <1>2, <3>1 DEF IInv, Kept, Gone, RowBecomes, tables
    <2>4. creating' = creating /\ uploads' \subseteq uploads
      BY <1>1, <1>2 DEF tables
    <2> QED
      BY <2>1, <2>2, <2>3, <2>4, CreatingStays
  <1>13. Unstarted'
    <2>1. \A g \in Files :
            /\ row'[g].small = row[g].small
            /\ row'[g].state = "uploading" => row[g].state = "uploading" \/ row[g].small
      BY <1>1, <1>2, Types DEF RowBecomes, tables
    <2>2. \A g \in Files : row'[g].state = "uploading" /\ Of(g)' = {} => Of(g) = {}
      BY <1>1, <1>2, Types DEF Of, RowBecomes, Upload, tables
    <2>3. \A o \in objects' : o \in objects \/ o.n # 0 \/ row[o.file].small
      BY <1>1, <1>2, Types
    <2>4. \A v \in Workers : work'[v].pc \in {"claim", "assemble"} =>
            work[v].pc \in {"claim", "assemble"} /\ work'[v].file = work[v].file
      BY <1>1, <1>2, Types DEF GaveUp, Ends, Becomes, Begun, Others, Idle
    <2> QED
      BY <2>1, <2>2, <2>3, <2>4, UnstartedStays
  <1>14. Listed'
    BY <1>1, <1>2, Types DEF IInv, Listed, Of, RowBecomes, tables
  <1>15. ReadyIsWhole'
    BY <1>1, <1>2, Types DEF IInv, ObjectsKept, ReadyIsWhole, Stored, Restorable, Keys,
      RowBecomes, Rows, tables
  <1>16. EveryObjectFindable'
    <2>1. CASE UNCHANGED <<row, cleanup>>
      BY <1>1, <2>1 DEF IInv, ObjectsKept, EveryObjectFindable, Live
    <2>2. CASE ~UNCHANGED <<row, cleanup>>
      BY <1>1, <1>2, <2>2, RemovalKeeps DEF tables
    <2> QED
      BY <2>1, <2>2
  <1>17. OneUpload'
    BY <1>1, <1>2, Types DEF IInv, ObjectsKept, OneUpload, Of, tables
  <1> QED
    BY <1>3, <1>4, <1>5, <1>6, <1>7, <1>8, <1>9, <1>10, <1>11, <1>12, <1>13, <1>14, <1>15,
      <1>16, <1>17 DEF IInv, ObjectsKept

LEMMA FinishDoes ==
  ASSUME TypeOK, IInv, NEW w \in Workers, Finish(w), NEW f \in Files, f = work[w].file
  PROVE  \/ GaveUp(w) /\ UNCHANGED tables
         \/ /\ row[f].state = "uploading"
            /\ RowBecomes(f, "ready", work[w].n)
            /\ uploads' = uploads \ Of(f)
            /\ Settled(f, work[w].n)
            /\ trash' = trash
            /\ \/ work[w].n # 0 /\ Becomes(w, "wipe", work[w].mp, 0)
               \/ work[w].n = 0 /\ Ends(w)
  <1> DEFINE n == work[w].n
  <1>1. n \in Nat
    BY Types DEF Job
  <1>2. CASE row[f].state # "uploading"
    <2>1. GivesUp(w) /\ UNCHANGED tables
      BY <1>2 DEF Finish
    <2> QED
      BY <2>1, GivenUp
  <1>3. CASE row[f].state = "uploading"
    <2>1. Ready(f, n) /\ trash' = trash
      BY <1>3 DEF Finish
    <2>2. CASE n # 0
      <3>1. work' = [work EXCEPT ![w] = [@ EXCEPT !.pc = "wipe", !.n = 0]]
        BY <1>3, <2>2 DEF Finish
      <3>2. Becomes(w, "wipe", work[w].mp, 0)
        BY <3>1, Types DEF Becomes, Others, Job
      <3> QED
        BY <1>1, <1>3, <2>1, <2>2, <3>2, Readied
    <2>3. CASE n = 0
      <3>1. Done(w)
        BY <1>3, <2>3 DEF Finish
      <3> QED
        BY <1>1, <1>3, <2>1, <2>3, <3>1, Readied, Ended
    <2> QED
      BY <2>2, <2>3
  <1> QED
    BY <1>2, <1>3

LEMMA GaveUpKeeps ==
  ASSUME TypeOK, IInv, TypeOK', NEW w \in Workers, work[w].pc \in Completing, GaveUp(w),
         UNCHANGED <<now, tables, objects, creating, maint, sweep, fresh>>
  PROVE  IInv'
  <1>1. /\ Busy(w) /\ GaveUp(w)
        /\ UNCHANGED <<now, tables, objects, creating, maint, sweep, fresh>>
    BY DEF Busy, Completing
  <1>2. Rows' /\ Kept' /\ Records' /\ Listed' /\ OneUpload' /\ Forgetting'
    BY <1>1, Types, TablesStay
  <1>3. ReadyIsWhole' /\ EveryObjectFindable'
    BY <1>1, ObjectsStay DEF tables
  <1>4. Requests'
    BY <1>1, Types DEF IInv, Requests, Busy, Job, GaveUp, Ends, Becomes, Begun, Others, Idle,
      tables
  <1>5. Owners'
    BY <1>1, Types DEF IInv, Owners, Owns, Completing, Recorded, GaveUp, Ends, Becomes, Begun,
      Others, Idle, tables
  <1>6. Cleaning'
    BY <1>1, Types DEF IInv, Cleaning, Owns, Completing, Live, Restorable, GaveUp, Ends,
      Becomes, Begun, Others, Idle, tables
  <1>7. Wiping'
    BY <1>1, Types DEF IInv, Wiping, Gone, GaveUp, Ends, Becomes, Begun, Others, Idle, tables
  <1>8. Measured'
    BY <1>1, Types DEF IInv, Measured, Stored, GaveUp, Ends, Becomes, Begun, Others, Idle,
      tables
  <1>9. Creating'
    BY <1>1, Types DEF IInv, Creating, Of, Gone, GaveUp, Ends, Becomes, Begun, Others, Idle,
      tables
  <1>10. Unstarted'
    BY <1>1, Types DEF IInv, Unstarted, Stored, Of, GaveUp, Ends, Becomes, Begun, Others,
      Idle, tables
  <1> QED
    BY <1>2, <1>3, <1>4, <1>5, <1>6, <1>7, <1>8, <1>9, <1>10 DEF IInv, ObjectsKept

LEMMA Readying ==
  ASSUME NEW f, NEW n,
         Settled(f, n)
  PROVE  /\ n # 0 => \E c \in cleanup' : c.file = f /\ c.n = 0
         /\ \A c \in cleanup : c.file # f \/ c.n # n => c \in cleanup'
         /\ \A c \in cleanup' : c \in cleanup \/ (n # 0 /\ c.file = f /\ c.n = 0)
  <1> DEFINE d == [file |-> f, n |-> 0, at |-> now]
  <1>1. d.file = f /\ d.n = 0
    OBVIOUS
  <1>2. cleanup' = {c \in cleanup : c.file # f \/ c.n # n} \cup (IF n # 0 THEN {d} ELSE {})
    BY DEF Settled
  <1> HIDE DEF d
  <1> QED
    BY <1>1, <1>2

(* A completion that ends well: the fresh key, or the first, is the row's.  *)
LEMMA FinishedKeeps ==
  ASSUME TypeOK, IInv, TypeOK', NEW w \in Workers, NEW f \in Files, f = work[w].file,
         NEW n \in Nat, n = work[w].n, work[w].pc = "finish", row[f].state = "uploading",
         RowBecomes(f, "ready", n),
         uploads' = uploads \ Of(f),
         Settled(f, n),
         (n # 0 /\ Becomes(w, "wipe", work[w].mp, 0)) \/ (n = 0 /\ Ends(w)),
         UNCHANGED <<now, trash, objects, creating, maint, sweep, fresh>>
  PROVE  IInv'
  <1>1. /\ row[f].n = 0 /\ n <= fresh /\ (row[f].small <=> n # 0)
        /\ \A t \in trash : t.file # f
        /\ \A v \in Workers : Owns(v) /\ v # w => work[v].n # n
        /\ \A v \in Workers : work[v].pc = "clean" /\ work[v].file = f => work[v].n # n
    BY DEF IInv, Rows, Kept, Requests, Busy, Owners, Owns, Completing, Cleaning, Live
  <1>2. /\ row'[f].state = "ready" /\ row'[f].n = n
        /\ \A g \in Files : row'[g].small = row[g].small /\ row'[g].created = row[g].created
        /\ \A g \in Files : g # f => row'[g] = row[g]
    BY DEF RowBecomes
  <1>3. /\ work'[w].pc \in {"wipe", "idle"} /\ work'[w].n = 0
        /\ work'[w].pc = "wipe" => /\ work'[w].file = f /\ n # 0
                                  /\ work'[w].since = work[w].since
        /\ \A v \in Workers : v # w => work'[v] = work[v]
    BY DEF Becomes, Ends, Others, Idle
  <1>4. /\ n # 0 => \E c \in cleanup' : c.file = f /\ c.n = 0
        /\ \A c \in cleanup : c.file # f \/ c.n # n => c \in cleanup'
        /\ \A c \in cleanup' : c \in cleanup \/ (n # 0 /\ c.file = f /\ c.n = 0)
    BY Readying
  <1>5. \A v \in Workers : Owns(v)' => Owns(v) /\ v # w
    BY <1>3 DEF Owns, Completing
  <1>6. Rows'
    BY <1>1, <1>2 DEF IInv, Rows
  <1>7. Kept'
    BY <1>1, <1>2, Types DEF IInv, Kept, Keys
  <1>8. Records'
    <2>1. ASSUME NEW c \in cleanup'
          PROVE  row'[c.file].state # "none" /\ c.n <= fresh
      BY <1>1, <1>2, <1>4, Types DEF IInv, Records, Keys
    <2>2. ASSUME NEW g \in Files
          PROVE  /\ row'[g].state = "deleted" => /\ \E c \in cleanup' : c.file = g /\ c.n = row'[g].n
                                                /\ \E c \in cleanup' : c.file = g /\ c.n = 0
                 /\ row'[g].state = "ready" /\ row'[g].n # 0 =>
                      \E c \in cleanup' : c.file = g /\ c.n = 0
      BY <1>2, <1>4 DEF IInv, Records, Recorded
    <2> QED
      BY <2>1, <2>2 DEF Records, Recorded
  <1>9. Requests'
    BY <1>1, <1>2, <1>3, Types DEF IInv, Requests, Busy
  <1>10. Owners'
    <2>1. ASSUME NEW v \in Workers, Owns(v)'
          PROVE  /\ Owns(v)
                 /\ work'[v].file = work[v].file /\ work'[v].n = work[v].n
                 /\ work'[v].since = work[v].since
                 /\ row'[work[v].file].n # work[v].n
                 /\ \A c \in cleanup :
                      c.file = work[v].file /\ c.n = work[v].n => c \in cleanup'
                 /\ \A c \in cleanup' :
                      c.file = work[v].file /\ c.n = work[v].n => c \in cleanup
      <3>1. Owns(v) /\ v # w /\ work'[v] = work[v] /\ work[v].n # n /\ work[v].n # 0
            /\ work[v].file \in Files /\ row[work[v].file].n # work[v].n
        BY <1>1, <1>3, <1>5, <2>1 DEF IInv, Owners, Owns, Requests, Busy, Completing
      <3> QED
        BY <1>2, <1>4, <3>1
    <2> QED
      BY <1>2, <2>1, OwnersStay
  <1>11. Cleaning'
    BY <1>1, <1>2, <1>3, <1>5 DEF IInv, Cleaning, Requests, Busy, Live, Restorable, Owns
  <1>12. Wiping'
    BY <1>1, <1>2, <1>3 DEF IInv, Wiping, Gone, Requests, Busy
  <1>13. Forgetting'
    BY <1>2 DEF IInv, Forgetting, Gone
  <1>14. Measured'
    BY <1>2, <1>3 DEF IInv, Measured, Stored, Requests, Busy
  <1>15. Creating'
    <2>1. ASSUME NEW v \in Workers, work[v].pc \in {"start", "insert"}
          PROVE  work[v].file # f
      <3>1. Of(work[v].file) = {} /\ ~row[work[v].file].small
        BY <2>1 DEF IInv, Creating, Requests, Busy
      <3>2. \E o \in Stored(f, n) : o.ok
        BY DEF IInv, Measured
      <3> QED
        BY <1>1, <3>1, <3>2 DEF IInv, Unstarted
    <2>2. ASSUME NEW v \in Workers, NEW g \in Files,
                 work[v].pc \in {"start", "insert"}, work[v].file = g
          PROVE  row'[g].state = "uploading" \/ Gone(g)'
      BY <1>2, <2>1, <2>2 DEF IInv, Creating, Gone
    <2> QED
      BY <1>2, <1>3, <2>2, CreatingStays
  <1>16. Listed'
    BY <1>2, Types DEF IInv, Listed, Of
  <1>17. ReadyIsWhole'
    BY <1>2 DEF IInv, ObjectsKept, ReadyIsWhole, Measured, Stored, Restorable
  <1>18. EveryObjectFindable'
    <2>1. ASSUME NEW o \in objects
          PROVE  \/ row'[o.file].state \in {"uploading", "ready"} /\ row'[o.file].n = o.n
                 \/ \E c \in cleanup' : c.file = o.file /\ c.n = o.n
      BY <1>1, <1>2, <1>4, Types DEF IInv, ObjectsKept, EveryObjectFindable, Live
    <2> QED
      BY <2>1 DEF EveryObjectFindable, Live
  <1>19. OneUpload'
    BY DEF IInv, ObjectsKept, OneUpload
  <1>20. Unstarted'
    <2>1. \A g \in Files : row'[g].state = "uploading" /\ Of(g)' = {} => Of(g) = {}
      BY <1>2 DEF Of
    <2>2. \A g \in Files :
            /\ row'[g].small = row[g].small
            /\ row'[g].state = "uploading" => row[g].state = "uploading" \/ row[g].small
      BY <1>2
    <2>3. \A v \in Workers : work'[v].pc \in {"claim", "assemble"} => work'[v] = work[v]
      BY <1>3
    <2> QED
      BY <2>1, <2>2, <2>3, UnstartedStays
  <1> QED
    BY <1>6, <1>7, <1>8, <1>9, <1>10, <1>11, <1>12, <1>13, <1>14, <1>15, <1>16, <1>17, <1>18, <1>19,
       <1>20
    DEF IInv, ObjectsKept

LEMMA FinishKeeps ==
  ASSUME TypeOK, IInv, TypeOK', NEW w \in Workers, Finish(w), NEW f \in Files, f = work[w].file,
         NEW n \in Nat, n = work[w].n
  PROVE  IInv'
  <1>1. /\ work[w].pc = "finish"
        /\ UNCHANGED <<now, objects, creating, maint, sweep, fresh>>
    BY DEF Finish, bucket
  <1>2. \/ GaveUp(w) /\ UNCHANGED tables
        \/ /\ row[f].state = "uploading"
           /\ RowBecomes(f, "ready", work[w].n)
           /\ uploads' = uploads \ Of(f)
           /\ Settled(f, work[w].n)
           /\ trash' = trash
           /\ \/ work[w].n # 0 /\ Becomes(w, "wipe", work[w].mp, 0)
              \/ work[w].n = 0 /\ Ends(w)
    BY FinishDoes
  <1>3. CASE GaveUp(w) /\ UNCHANGED tables
    BY <1>1, <1>3, GaveUpKeeps DEF tables, Completing
  <1>4. CASE ~(GaveUp(w) /\ UNCHANGED tables)
    BY <1>1, <1>2, <1>4, FinishedKeeps
  <1> QED
    BY <1>3, <1>4

LEMMA RestoreKeeps ==
  ASSUME TypeOK, IInv, TypeOK', NEW t \in trash, Restore(t)
  PROVE  IInv'
  <1>1. /\ t.file \in Files /\ row[t.file].state = "deleted" /\ row[t.file].n = t.n
        /\ RowBecomes(t.file, "ready", t.n)
        /\ Restorable(t) /\ trash' = trash \ {t}
        /\ maint = None /\ maint' = None
        /\ UNCHANGED <<now, uploads, cleanup, objects, creating, work, sweep, fresh>>
    BY Types, RowSet DEF Restore, bucket, IInv, Kept, Keys, States
  <1>2. \A v \in Workers : work[v].pc # "clean"
    BY <1>1, UploadsAssumption DEF IInv, Cleaning
  <1>3. Rows'
    BY <1>1, Types DEF IInv, Rows, Row, States, RowBecomes, Kept, Keys, tables
  <1>4. Kept'
    BY <1>1, Types DEF IInv, Kept, RowBecomes, Restorable, Keys, Rows, tables
  <1>5. Records'
    BY <1>1, Types DEF IInv, Records, Recorded, RowBecomes, Keys, Row, Rows, tables
  <1>6. Requests'
    BY <1>1, Types DEF IInv, Requests, Busy, Job, RowBecomes, Row, tables
  <1>7. Owners'
    BY <1>1, Types DEF IInv, Owners, Owns, Completing, Recorded, RowBecomes, Requests, Busy,
      Job, tables
  <1>8. Cleaning'
    BY <1>1, <1>2, Types DEF IInv, Cleaning, Owns, Completing, Live, Restorable, tables
  <1>9. Wiping'
    BY <1>1, Types DEF IInv, Wiping, Gone, RowBecomes, Requests, Busy, Kept, tables
  <1>10. Forgetting'
    BY <1>1, Types DEF IInv, Forgetting, Gone, RowBecomes, Kept, tables
  <1>11. Measured'
    BY <1>1, Types DEF IInv, Measured, Stored, RowBecomes, Requests, Busy, tables
  <1>12. Creating'
    BY <1>1, Types DEF IInv, Creating, Of, Gone, RowBecomes, Requests, Busy, Upload, tables
  <1>13. Unstarted'
    <2>1. \A g \in Files :
            /\ row'[g].small = row[g].small
            /\ row'[g].state = "uploading" => row[g].state = "uploading" \/ row[g].small
      BY <1>1, Types DEF RowBecomes
    <2>2. \A g \in Files : row'[g].state = "uploading" /\ Of(g)' = {} => Of(g) = {}
      BY <1>1, Types DEF Of, RowBecomes
    <2>3. \A o \in objects' : o \in objects \/ o.n # 0 \/ row[o.file].small
      BY <1>1, Types
    <2>4. \A v \in Workers : work'[v].pc \in {"claim", "assemble"} =>
            work[v].pc \in {"claim", "assemble"} /\ work'[v].file = work[v].file
      BY <1>1, Types
    <2> QED
      BY <2>1, <2>2, <2>3, <2>4, UnstartedStays
  <1>14. Listed'
    BY <1>1, Types DEF IInv, Listed, Of, RowBecomes, tables
  <1>15. ReadyIsWhole'
    BY <1>1, Types DEF IInv, ObjectsKept, ReadyIsWhole, Stored, Restorable, Keys, RowBecomes,
      Rows, tables
  <1>16. EveryObjectFindable'
    BY <1>1, Types DEF IInv, ObjectsKept, EveryObjectFindable, Live, Stored, Recorded,
      RowBecomes, Rows, tables
  <1>17. OneUpload'
    BY <1>1, Types DEF IInv, ObjectsKept, OneUpload, Of, tables
  <1> QED
    BY <1>3, <1>4, <1>5, <1>6, <1>7, <1>8, <1>9, <1>10, <1>11, <1>12, <1>13, <1>14, <1>15,
      <1>16, <1>17 DEF IInv, ObjectsKept

LEMMA TickKeeps ==
  ASSUME TypeOK, IInv, TypeOK', Tick
  PROVE  IInv'
  <1>1. /\ now' = now + 1
        /\ \A w \in Workers : Busy(w) => work[w].since = now
        /\ UNCHANGED <<tables, objects, creating, maint, work, sweep, fresh>>
    BY DEF Tick, bucket, Busy
  <1>2. \A t \in trash : Restorable(t)' => Restorable(t)
    BY <1>1, Types, UploadsAssumption DEF Restorable, Keys
  <1>3. Rows'
    BY <1>1, Types DEF IInv, Rows, Row, States, RowBecomes, tables
  <1>4. Kept'
    BY <1>1, Types DEF IInv, Kept, RowBecomes, Restorable, Keys, Rows, tables
  <1>5. Records'
    BY <1>1, Types DEF IInv, Records, Recorded, RowBecomes, Keys, Row, Rows, tables
  <1>6. Requests'
    BY <1>1, Types DEF IInv, Requests, Busy, Job, RowBecomes, Row, tables
  <1>7. Owners'
    BY <1>1, Types DEF IInv, Owners, Owns, Completing, Recorded, RowBecomes, Requests, Busy,
      Job, tables
  <1>8. Cleaning'
    BY <1>1, <1>2, Types DEF IInv, Cleaning, Owns, Completing, Live, Restorable, tables
  <1>9. Wiping'
    BY <1>1, Types DEF IInv, Wiping, Gone, RowBecomes, Requests, Busy, Kept, tables
  <1>10. Forgetting'
    BY <1>1, Types DEF IInv, Forgetting, Gone, RowBecomes, Kept, tables
  <1>11. Measured'
    BY <1>1, Types DEF IInv, Measured, Stored, RowBecomes, Requests, Busy, tables
  <1>12. Creating'
    BY <1>1, Types DEF IInv, Creating, Of, Gone, RowBecomes, Requests, Busy, Upload, tables
  <1>13. Unstarted'
    BY <1>1, Types DEF IInv, Unstarted, Stored, Of, tables
  <1>14. Listed'
    BY <1>1, Types DEF IInv, Listed, Of, RowBecomes, tables
  <1>15. ReadyIsWhole'
    BY <1>1, Types, UploadsAssumption DEF IInv, ObjectsKept, ReadyIsWhole, Stored, Restorable,
      Keys, tables
  <1>16. EveryObjectFindable'
    BY <1>1, Types DEF IInv, ObjectsKept, EveryObjectFindable, Live, Stored, Recorded,
      RowBecomes, Rows, tables
  <1>17. OneUpload'
    BY <1>1, Types DEF IInv, ObjectsKept, OneUpload, Of, tables
  <1> QED
    BY <1>3, <1>4, <1>5, <1>6, <1>7, <1>8, <1>9, <1>10, <1>11, <1>12, <1>13, <1>14, <1>15,
      <1>16, <1>17 DEF IInv, ObjectsKept

LEMMA StutterKeeps ==
  ASSUME IInv, UNCHANGED vars
  PROVE  IInv'
  BY DEF vars, IInv, Rows, Kept, Records, Recorded, Requests, Busy, Owners, Owns, Cleaning, Live,
     Restorable, Wiping, Gone, Forgetting, Measured, Stored, Creating, Of, Unstarted, Listed,
     ObjectsKept, ReadyIsWhole, EveryObjectFindable, OneUpload
Object == [file : Files, n : Nat, ok : BOOLEAN, at : Nat]
Part   == [mp : Nat, file : Files, parts : {"some", "all", "short"}]
Sweeper == [pc : {"idle", "next", "forget"}, cutoff : 0..MaxNow,
            found : SUBSET [file : Files, mp : Nat],
            one : [file : Files \cup {None}, mp : Nat]]

UploadsTyped == uploads \subseteq Upload /\ \A u \in uploads : row[u.file].state = "uploading"
RestTyped ==
  /\ now \in 0..MaxNow
  /\ objects \subseteq Object /\ multiparts \subseteq Part /\ urls \in [Files -> Nat]
  /\ creating \in Workers \cup {None} /\ maint \in Workers \cup {None}
  /\ fresh \in Nat /\ {ops, crashes, failures} \subseteq Nat

LEMMA TypeParts ==
  TypeOK => /\ row \in [Files -> Row] /\ UploadsTyped /\ cleanup \subseteq Keys /\ trash \subseteq Keys
            /\ work \in [Workers -> Job] /\ sweep \in Sweeper /\ RestTyped
  BY UploadsAssumption DEF TypeOK, Row, States, Upload, Job, Steps, Object, Part, Sweeper,
     UploadsTyped, RestTyped

LEMMA TypesNext ==
  ASSUME row' \in [Files -> Row], UploadsTyped', cleanup' \subseteq Keys, trash' \subseteq Keys,
         work' \in [Workers -> Job], sweep' \in Sweeper, RestTyped'
  PROVE  TypeOK'
  BY UploadsAssumption DEF TypeOK, Row, States, Upload, Job, Steps, Object, Part, Sweeper,
     UploadsTyped, RestTyped

(* What a row's removal and a completion leave of the tables is typed.      *)
LEMMA RemovedTypes ==
  ASSUME TypeOK, NEW f \in Files, Remove(f)
  PROVE  row' \in [Files -> Row] /\ UploadsTyped' /\ cleanup' \subseteq Keys
  <1>1. row' \in [Files -> Row] /\ RowBecomes(f, "deleted", row[f].n) /\ uploads' = uploads \ Of(f)
        /\ Noted(f, row[f].n)
    BY Removed
  <1>2. [file |-> f, n |-> row[f].n, at |-> now] \in Keys
    BY Types DEF Keys, Row
  <1>3. UploadsTyped'
    BY <1>1, Types DEF UploadsTyped, RowBecomes, Of, Upload
  <1> QED
    BY <1>1, <1>2, <1>3, Types DEF Noted

LEMMA ReadiedTypes ==
  ASSUME TypeOK, NEW f \in Files, NEW n \in Nat, Ready(f, n)
  PROVE  row' \in [Files -> Row] /\ UploadsTyped' /\ cleanup' \subseteq Keys
  <1>1. row' \in [Files -> Row] /\ RowBecomes(f, "ready", n) /\ uploads' = uploads \ Of(f)
        /\ Settled(f, n)
    BY Readied
  <1>2. [file |-> f, n |-> 0, at |-> now] \in Keys
    BY Types DEF Keys
  <1>3. UploadsTyped'
    BY <1>1, Types DEF UploadsTyped, RowBecomes, Of, Upload
  <1> QED
    BY <1>1, <1>2, <1>3, Types DEF Settled

LEMMA StepTypes == TypeOK /\ IInv /\ [Next]_vars => TypeOK'
  <1> SUFFICES ASSUME TypeOK, IInv, [Next]_vars PROVE TypeOK'
    OBVIOUS
  <1>0. /\ row \in [Files -> Row] /\ UploadsTyped /\ cleanup \subseteq Keys /\ trash \subseteq Keys
        /\ work \in [Workers -> Job] /\ sweep \in Sweeper /\ RestTyped
        /\ fresh \in Nat /\ now \in Nat
    BY TypeParts, Types
  <1>1. ASSUME NEW w \in Workers, StartMultipart(w) PROVE TypeOK'
    <2>1. work[w].file \in Files
      BY <1>1 DEF StartMultipart, IInv, Requests, Busy
    <2>2. fresh' \in Nat
      BY <1>0, <1>1 DEF StartMultipart
    <2>3. work' \in [Workers -> Job]
      <3> DEFINE r == [work[w] EXCEPT !.pc = "insert", !.mp = fresh']
      <3>1. work' = [work EXCEPT ![w] = r]
        BY <1>1 DEF StartMultipart
      <3>2. r \in Job
        BY <1>0, <2>2 DEF Job, Steps
      <3> HIDE DEF r
      <3> QED
        BY <1>0, <3>1, <3>2, WorkSet
    <2>4. multiparts' \subseteq Part
      BY <1>0, <1>1, <2>1, <2>2 DEF StartMultipart, RestTyped, Part
    <2> QED
      BY <1>0, <1>1, <2>1, <2>2, <2>3, <2>4, TypesNext, UploadsAssumption DEF StartMultipart,
        UploadsTyped, RestTyped, bucket, tables, counts
  <1>2. ASSUME NEW w \in Workers, InsertUpload(w) PROVE TypeOK'
    <2>1. work[w].file \in Files
      BY <1>2 DEF InsertUpload, IInv, Requests, Busy
    <2>2. work' \in [Workers -> Job]
      BY <1>2, Ended DEF InsertUpload
    <2>3. multiparts' \subseteq Part
      BY <1>0, <1>2 DEF InsertUpload, RestTyped
    <2>4. Of(work[w].file) = {} /\ work[w].mp \in Nat /\ now + AbandonAt \in Nat
      BY <1>0, <1>2, UploadsAssumption DEF InsertUpload, Job, IInv, Creating
    <2>5. uploads' \subseteq Upload
      BY <1>0, <1>2, <2>1, <2>4 DEF InsertUpload, UploadsTyped, Upload
    <2>6. Live(work[w].file) => row[work[w].file].state = "uploading"
      BY <1>2 DEF InsertUpload, IInv, Creating, Gone, Live
    <2>7. UploadsTyped'
      BY <1>0, <1>2, <2>5, <2>6 DEF InsertUpload, UploadsTyped
    <2> QED
      BY <1>0, <1>2, <2>1, <2>2, <2>3, <2>4, <2>5, <2>6, <2>7, TypesNext, UploadsAssumption
        DEF InsertUpload, UploadsTyped, RestTyped, bucket, tables, counts
  <1>3. ASSUME NEW w \in Workers, Claim(w) PROVE TypeOK'
    BY <1>3, UploadsAssumption DEF TypeOK, Keys, tables, bucket, counts, Claim, Done, Idle, Goes
  <1>4. ASSUME NEW w \in Workers, Assemble(w) PROVE TypeOK'
    <2>1. work[w].file \in Files
      BY <1>4 DEF Assemble, IInv, Requests, Busy
    <2>2. work' \in [Workers -> Job]
      BY <1>4, Went, Ended DEF Assemble, Steps
    <2>3. multiparts' \subseteq Part
      BY <1>0, <1>4, <2>1 DEF Assemble, RestTyped
    <2>4. objects' = objects \/ \E ok \in BOOLEAN : objects' = Put(work[w].file, 0, ok)
      BY <1>4, AssembleDoes
    <2>5. objects' \subseteq Object
      BY <1>0, <2>1, <2>4 DEF Put, RestTyped, Object
    <2> QED
      BY <1>0, <1>4, <2>1, <2>2, <2>3, <2>4, <2>5, TypesNext, UploadsAssumption DEF Assemble,
        UploadsTyped, RestTyped, bucket, tables, counts
  <1>5. ASSUME NEW w \in Workers, Fresh(w) PROVE TypeOK'
    <2>1. work[w].file \in Files
      BY <1>5 DEF Fresh, IInv, Requests, Busy
    <2>2. fresh' \in Nat
      BY <1>0, <1>5 DEF Fresh
    <2>3. work' \in [Workers -> Job]
      <3> DEFINE r == [work[w] EXCEPT !.pc = "copy", !.n = fresh']
      <3>1. work' = [work EXCEPT ![w] = r]
        BY <1>5 DEF Fresh
      <3>2. r \in Job
        BY <1>0, <2>2 DEF Job, Steps
      <3> HIDE DEF r
      <3> QED
        BY <1>0, <3>1, <3>2, WorkSet
    <2>4. cleanup' \subseteq Keys
      BY <1>0, <1>5, <2>1, <2>2 DEF Fresh, Keys
    <2> QED
      BY <1>0, <1>5, <2>1, <2>2, <2>3, <2>4, TypesNext, UploadsAssumption DEF Fresh,
        UploadsTyped, RestTyped, bucket, tables, counts
  <1>6. ASSUME NEW w \in Workers, Copy(w) PROVE TypeOK'
    <2>1. work[w].file \in Files /\ work[w].n \in Nat
      BY <1>0, <1>6 DEF Copy, IInv, Requests, Busy, Job
    <2>2. work' \in [Workers -> Job]
      BY <1>6, Went DEF Copy, Steps
    <2>3. objects' \subseteq Object
      <3>1. objects' = objects \/ \E o \in objects : objects' = Put(work[w].file, work[w].n, o.ok)
        BY <1>6 DEF Copy, Stored
      <3> QED
        BY <1>0, <2>1, <3>1 DEF Put, RestTyped, Object
    <2> QED
      BY <1>0, <1>6, <2>2, <2>3, TypesNext DEF Copy, UploadsTyped, RestTyped, tables, counts
  <1>7. ASSUME NEW w \in Workers, Head(w) PROVE TypeOK'
    <2>1. work[w].file \in Files
      BY <1>7 DEF Head, IInv, Requests, Busy
    <2>2. \/ GivesUp(w) \/ Goes(w, "finish")
          \/ \E mp \in Multipart(work[w].file) :
               work' = [work EXCEPT ![w].pc = "abandon", ![w].mp = mp]
      BY <1>7 DEF Head
    <2>3. \A mp \in Multipart(work[w].file) : mp \in Nat
      BY <2>1, Multiparts
    <2>4. ASSUME NEW mp \in Nat, work' = [work EXCEPT ![w].pc = "abandon", ![w].mp = mp]
          PROVE  work' \in [Workers -> Job]
      BY <1>0, <2>4 DEF Job, Steps
    <2>5. work' \in [Workers -> Job]
      BY <2>2, <2>3, <2>4, GivenUp, Went DEF Steps
    <2> QED
      BY <1>0, <1>7, <2>5, TypesNext DEF Head, UploadsTyped, RestTyped, bucket, tables, counts
  <1>8. ASSUME NEW w \in Workers, Finish(w) PROVE TypeOK'
    <2>1. PICK f \in Files, n \in Nat : f = work[w].file /\ n = work[w].n
      BY <1>0, <1>8 DEF Finish, IInv, Requests, Busy, Job
    <2>2. CASE row[f].state # "uploading"
      <3>1. GivesUp(w) /\ UNCHANGED tables
        BY <1>8, <2>1, <2>2 DEF Finish
      <3>2. work' \in [Workers -> Job]
        BY <3>1, GivenUp
      <3> QED
        BY <1>0, <1>8, <3>1, <3>2, TypesNext DEF Finish, UploadsTyped, RestTyped, bucket,
          tables, counts
    <2>3. CASE row[f].state = "uploading"
      <3>1. Ready(f, n) /\ trash' = trash
        BY <1>8, <2>1, <2>3 DEF Finish
      <3>2. row' \in [Files -> Row] /\ UploadsTyped' /\ cleanup' \subseteq Keys
        BY <3>1, ReadiedTypes
      <3>3. work' \in [Workers -> Job]
        <4>1. CASE n = 0
          <5>1. Done(w)
            BY <1>8, <2>1, <2>3, <4>1 DEF Finish
          <5> QED
            BY <5>1, Ended
        <4>2. CASE n # 0
          <5> DEFINE r == [work[w] EXCEPT !.pc = "wipe", !.n = 0]
          <5>1. work' = [work EXCEPT ![w] = r]
            BY <1>8, <2>1, <2>3, <4>2 DEF Finish
          <5>2. r \in Job
            BY <1>0 DEF Job, Steps
          <5> HIDE DEF r
          <5> QED
            BY <1>0, <5>1, <5>2, WorkSet
        <4> QED
          BY <4>1, <4>2
      <3> QED
        BY <1>0, <1>8, <3>1, <3>2, <3>3, TypesNext DEF Finish, RestTyped, bucket, counts
    <2> QED
      BY <2>2, <2>3
  <1>9. ASSUME NEW w \in Workers, Abandon(w) PROVE TypeOK'
    <2>1. work[w].file \in Files
      BY <1>9 DEF Abandon, IInv, Requests, Busy
    <2>2. work' \in [Workers -> Job]
      BY <1>9, GivenUp, Went DEF Abandon, Steps
    <2>3. row' \in [Files -> Row] /\ UploadsTyped' /\ cleanup' \subseteq Keys
      <3>1. CASE Remove(work[w].file)
        BY <2>1, <3>1, RemovedTypes
      <3>2. CASE UNCHANGED <<row, uploads, cleanup>>
        BY <1>0, <3>2 DEF UploadsTyped
      <3> QED
        BY <1>9, <3>1, <3>2 DEF Abandon
    <2> QED
      BY <1>0, <1>9, <2>2, <2>3, TypesNext DEF Abandon, RestTyped, bucket, counts
  <1>10. ASSUME NEW w \in Workers, Wipe(w) PROVE TypeOK'
    BY <1>10, UploadsAssumption DEF TypeOK, Keys, tables, bucket, counts, Wipe, GivesUp, Goes,
      Done, Idle, Forgotten, Stored
  <1>11. ASSUME NEW w \in Workers, Drop(w) PROVE TypeOK'
    BY <1>11, UploadsAssumption DEF TypeOK, Keys, tables, bucket, counts, Drop, Done, Idle,
      Forgotten, Stored
  <1>12. ASSUME NEW w \in Workers, DeleteTx(w) PROVE TypeOK'
    <2>1. work[w].file \in Files
      BY <1>12 DEF DeleteTx, IInv, Requests, Busy
    <2> DEFINE f == work[w].file
    <2>2. CASE row[f].state = "ready"
      <3>1. /\ Remove(f) /\ Done(w)
            /\ trash' = {t \in trash : Restorable(t)} \cup {[file |-> f, n |-> row[f].n, at |-> now]}
        BY <1>12, <2>2 DEF DeleteTx
      <3>2. trash' \subseteq Keys
        BY <1>0, <2>1, <3>1 DEF Keys, Row
      <3>3. row' \in [Files -> Row] /\ UploadsTyped' /\ cleanup' \subseteq Keys
        BY <2>1, <3>1, RemovedTypes
      <3>4. work' \in [Workers -> Job]
        BY <3>1, Ended
      <3> QED
        BY <1>0, <1>12, <3>2, <3>3, <3>4, TypesNext DEF DeleteTx, RestTyped, bucket, counts
    <2>3. CASE row[f].state = "uploading"
      <3>1. Remove(f) /\ Goes(w, "wipe") /\ UNCHANGED trash
        BY <1>12, <2>3 DEF DeleteTx
      <3>2. row' \in [Files -> Row] /\ UploadsTyped' /\ cleanup' \subseteq Keys
        BY <2>1, <3>1, RemovedTypes
      <3>3. work' \in [Workers -> Job]
        BY <3>1, Went DEF Steps
      <3> QED
        BY <1>0, <1>12, <3>1, <3>2, <3>3, TypesNext DEF DeleteTx, RestTyped, bucket, counts
    <2>4. CASE row[f].state \notin {"ready", "uploading"}
      <3>1. Done(w) /\ UNCHANGED tables
        BY <1>12, <2>4 DEF DeleteTx
      <3>2. work' \in [Workers -> Job]
        BY <3>1, Ended
      <3> QED
        BY <1>0, <1>12, <3>1, <3>2, TypesNext DEF DeleteTx, UploadsTyped, RestTyped, bucket,
          tables, counts
    <2> QED
      BY <2>2, <2>3, <2>4
  <1>13. ASSUME NEW w \in Workers, CleanupDelete(w) PROVE TypeOK'
    BY <1>13, UploadsAssumption DEF TypeOK, Keys, tables, bucket, counts, CleanupDelete, Done,
      Idle, Forgotten, Stored
  <1>14. ASSUME NEW w \in Workers, Fails(w) PROVE TypeOK'
    BY <1>14, UploadsAssumption DEF TypeOK, Keys, tables, bucket, counts, Fails, GivesUp,
      Goes, Done, Idle
  <1>15. ASSUME NEW w \in Workers, NEW f \in Files, CreateLarge(w, f) PROVE TypeOK'
    <2>1. Starts(w, [pc |-> "start", file |-> f, mp |-> 0, n |-> 0, since |-> 0])
      BY <1>15, IdleAt DEF CreateLarge, CreateAnew
    <2>2. work' \in [Workers -> Job]
      BY <2>1, Started DEF Steps
    <2>3. row' \in [Files -> Row] /\ UploadsTyped'
      BY <1>0, <1>15 DEF CreateLarge, CreateAnew, Row, States, UploadsTyped, Upload
    <2> QED
      BY <1>0, <1>15, <2>1, <2>2, <2>3, TypesNext, UploadsAssumption DEF CreateLarge,
        CreateAnew, UploadsTyped, RestTyped, bucket, tables, counts
  <1>16. ASSUME NEW w \in Workers, NEW f \in Files, CompleteRead(w, f) PROVE TypeOK'
    <2>1. PICK mp \in Multipart(f) :
            Starts(w, [Idle EXCEPT
                         !.pc = IF mp # 0 THEN "claim" ELSE IF Finalize(f) THEN "fresh" ELSE "head",
                         !.file = f, !.mp = mp])
      BY <1>16 DEF CompleteRead
    <2>2. mp \in Nat
      BY <2>1, Multiparts
    <2> DEFINE pc == IF mp # 0 THEN "claim" ELSE IF Finalize(f) THEN "fresh" ELSE "head"
    <2>3. pc \in Steps
      BY DEF Steps
    <2>4. Starts(w, [pc |-> pc, file |-> f, mp |-> mp, n |-> 0, since |-> 0])
      BY <2>1, IdleWith
    <2> HIDE DEF pc
    <2>5. work' \in [Workers -> Job]
      BY <2>2, <2>3, <2>4, Started
    <2> QED
      BY <1>0, <1>16, <2>5, TypesNext DEF CompleteRead, Counted, UploadsTyped, RestTyped,
        bucket, tables
  <1>17. ASSUME NEW w \in Workers, NEW f \in Files, DeleteRead(w, f) PROVE TypeOK'
    <2>1. PICK mp \in Multipart(f) : Starts(w, [Idle EXCEPT !.pc = "delete", !.file = f, !.mp = mp])
      BY <1>17 DEF DeleteRead
    <2>2. mp \in Nat
      BY <2>1, Multiparts
    <2>3. "delete" \in Steps
      BY DEF Steps
    <2>4. Starts(w, [pc |-> "delete", file |-> f, mp |-> mp, n |-> 0, since |-> 0])
      BY <2>1, IdleWith
    <2>5. work' \in [Workers -> Job]
      BY <2>2, <2>3, <2>4, Started
    <2> QED
      BY <1>0, <1>17, <2>5, TypesNext DEF DeleteRead, Counted, UploadsTyped, RestTyped,
        bucket, tables
  <1>18. ASSUME NEW w \in Workers, NEW c \in cleanup, CleanupReserve(w, c) PROVE TypeOK'
    BY <1>18, UploadsAssumption DEF TypeOK, Keys, tables, bucket, counts, CleanupReserve,
      Starts, Idle
  <1>19. ASSUME NEW f \in Files, CreateSmall(f) PROVE TypeOK'
    <2>1. row' \in [Files -> Row] /\ UploadsTyped'
      BY <1>0, <1>19 DEF CreateSmall, Row, States, UploadsTyped, Upload
    <2>2. urls' \in [Files -> Nat]
      BY <1>0, <1>19, UploadsAssumption DEF CreateSmall, RestTyped
    <2> QED
      BY <1>0, <1>19, <2>1, <2>2, TypesNext, UploadsAssumption DEF CreateSmall, UploadsTyped,
        RestTyped, bucket, tables, counts
  <1>20. ASSUME NEW f \in Files, Parts(f) PROVE TypeOK'
    BY <1>20, UploadsAssumption DEF TypeOK, Keys, tables, bucket, counts, Parts, Of
  <1>21. ASSUME NEW f \in Files, NEW ok \in BOOLEAN, PutObject(f, ok) PROVE TypeOK'
    BY <1>21, UploadsAssumption DEF TypeOK, Keys, tables, bucket, counts, PutObject, Put, Stored
  <1>22. ASSUME NEW m \in multiparts, NEW parts \in {"all", "short"}, PutParts(m, parts)
         PROVE  TypeOK'
    BY <1>22, UploadsAssumption DEF TypeOK, Keys, tables, bucket, counts, PutParts
  <1>23. ASSUME SweepList PROVE TypeOK'
    <2>1. Abandoned \subseteq [file : Files, mp : Nat]
      BY <1>0 DEF Abandoned, UploadsTyped, Upload
    <2>2. sweep' \in Sweeper
      BY <1>0, <1>23, <2>1, UploadsAssumption DEF SweepList, Asleep, Sweeper, RestTyped
    <2> QED
      BY <1>0, <1>23, <2>1, <2>2, TypesNext, UploadsAssumption DEF SweepList, UploadsTyped,
        RestTyped, bucket, tables, counts
  <1>24. ASSUME NEW one \in sweep.found, SweepTx(one) PROVE TypeOK'
    <2>1. one \in [file : Files, mp : Nat]
      BY <1>0 DEF Sweeper
    <2>2. sweep' \in Sweeper
      <3>1. sweep.found \ {one} \in SUBSET [file : Files, mp : Nat]
        BY <1>0 DEF Sweeper
      <3>2. CASE sweep' = [sweep EXCEPT !.pc = "forget", !.found = sweep.found \ {one}, !.one = one]
        BY <1>0, <2>1, <3>1, <3>2 DEF Sweeper
      <3>3. CASE sweep' = [sweep EXCEPT !.found = sweep.found \ {one}]
        BY <1>0, <3>1, <3>3 DEF Sweeper
      <3> QED
        BY <1>24, <3>2, <3>3 DEF SweepTx
    <2>3. row' \in [Files -> Row] /\ UploadsTyped' /\ cleanup' \subseteq Keys
      <3>1. CASE Remove(one.file)
        BY <2>1, <3>1, RemovedTypes
      <3>2. CASE UNCHANGED <<row, uploads, cleanup>>
        BY <1>0, <3>2 DEF UploadsTyped
      <3> QED
        BY <1>24, <3>1, <3>2 DEF SweepTx
    <2> QED
      BY <1>0, <1>24, <2>1, <2>2, <2>3, TypesNext, UploadsAssumption DEF SweepTx,
        UploadsTyped, RestTyped, bucket, tables, counts
  <1>25. ASSUME SweepForget PROVE TypeOK'
    BY <1>25, UploadsAssumption DEF TypeOK, Keys, tables, bucket, counts, SweepForget,
      Forgotten, Stored, Asleep
  <1>26. ASSUME SweepEnd PROVE TypeOK'
    BY <1>26, UploadsAssumption DEF TypeOK, Keys, tables, bucket, counts, SweepEnd, Asleep
  <1>27. ASSUME NEW t \in trash, Restore(t) PROVE TypeOK'
    <2>1. row' \in [Files -> Row]
      BY <1>0, <1>27, RowSet DEF Restore, Keys, States
    <2>2. UploadsTyped'
      BY <1>0, <1>27 DEF Restore, UploadsTyped, Upload, Row, IInv, Kept, Keys
    <2> QED
      BY <1>0, <1>27, <2>1, <2>2, TypesNext, UploadsAssumption DEF Restore, UploadsTyped,
        RestTyped, bucket, tables, counts
  <1>28. ASSUME Crash PROVE TypeOK'
    BY <1>28, UploadsAssumption DEF TypeOK, Keys, tables, bucket, counts, Crash, Idle, Asleep
  <1>29. ASSUME Tick PROVE TypeOK'
    BY <1>29, UploadsAssumption DEF TypeOK, Keys, tables, bucket, counts, Tick
  <1>30. ASSUME UNCHANGED vars PROVE TypeOK'
    BY <1>30, UploadsAssumption DEF TypeOK, Keys, tables, bucket, counts, vars
  <1> QED
    BY <1>1, <1>2, <1>3, <1>4, <1>5, <1>6, <1>7, <1>8, <1>9, <1>10, <1>11, <1>12, <1>13,
      <1>14, <1>15, <1>16, <1>17, <1>18, <1>19, <1>20, <1>21, <1>22, <1>23, <1>24, <1>25, <1>26,
      <1>27, <1>28, <1>29, <1>30 DEF Next, Begins, Continues, Client, Sweeping
(* A step by any of the requests.                                          *)
LEMMA WorkerKeeps ==
  ASSUME TypeOK, IInv, TypeOK', NEW w \in Workers, Continues(w)
  PROVE  IInv'
  <1>1. ASSUME DeleteTx(w) PROVE IInv'
    <2>1. PICK f \in Files : f = work[w].file
      BY <1>1 DEF DeleteTx, IInv, Requests, Busy
    <2> QED
      BY <1>1, <2>1, DeleteTxKeeps
  <1>2. ASSUME Finish(w) PROVE IInv'
    <2>1. PICK f \in Files : f = work[w].file
      BY <1>2 DEF Finish, IInv, Requests, Busy
    <2>2. PICK n \in Nat : n = work[w].n
      BY Types DEF Job
    <2> QED
      BY <1>2, <2>1, <2>2, FinishKeeps
  <1> QED
    BY <1>1, <1>2, StartMultipartKeeps, InsertUploadKeeps, ClaimKeeps, AssembleKeeps, FreshKeeps,
       CopyKeeps, HeadKeeps, AbandonKeeps, WipeKeeps, DropKeeps, CleanupDeleteKeeps DEF Continues

LEMMA StepKeeps == TypeOK /\ IInv /\ [Next]_vars => IInv'
  <1> SUFFICES ASSUME TypeOK, IInv, [Next]_vars
               PROVE  IInv'
    OBVIOUS
  <1>1. TypeOK'
    BY StepTypes
  <1>2. ASSUME NEW w \in Workers, Begins(w) PROVE IInv'
    BY <1>1, <1>2, CreateLargeKeeps, CompleteReadKeeps, DeleteReadKeeps, CleanupReserveKeeps
    DEF Begins
  <1>3. ASSUME NEW w \in Workers, Continues(w) \/ Fails(w) PROVE IInv'
    BY <1>1, <1>3, WorkerKeeps, FailsKeeps
  <1>4. CASE Client
    BY <1>1, <1>4, CreateSmallKeeps, PartsKeeps, PutObjectKeeps, PutPartsKeeps DEF Client
  <1>5. CASE Sweeping
    BY <1>1, <1>5, SweepListKeeps, SweepForgetKeeps, SweepEndKeeps, SweepTxKeeps DEF Sweeping
  <1>6. CASE \E t \in trash : Restore(t)
    BY <1>1, <1>6, RestoreKeeps
  <1>7. CASE Crash \/ Tick \/ UNCHANGED vars
    BY <1>1, <1>7, CrashKeeps, TickKeeps, StutterKeeps
  <1> QED
    BY <1>2, <1>3, <1>4, <1>5, <1>6, <1>7 DEF Next

LEMMA Invariance == Spec => [](TypeOK /\ IInv)
  BY InitTypes, InitInv, StepTypes, StepKeeps, PTL DEF Spec

(* For any number of files, requests, crashes and failures, whatever the   *)
(* interleaving of completions, deletes, restores, the sweep and the       *)
(* cleanup: what can be opened, or still be restored, is in the bucket     *)
(* whole; every object is named by a row or a record; one file has one     *)
(* upload.                                                                 *)
THEOREM ObjectsHold == Spec => []ObjectsKept
  BY Invariance, PTL DEF IInv
-----------------------------------------------------------------------------
(* The object of a ready row, step by step.  Only these steps touch the    *)
(* bucket's objects: each one knows that the key is not a ready row's.     *)
LEMMA ObjectsSpared ==
  ASSUME TypeOK, IInv, [Next]_vars, NEW f \in Files, row[f].state = "ready",
         NEW o \in objects, o.file = f, o.n = row[f].n
  PROVE  o \in objects'
  <1>1. ASSUME NEW g \in Files, NEW ok \in BOOLEAN, PutObject(g, ok) PROVE o \in objects'
    BY <1>1 DEF PutObject, Put, Stored, IInv, Rows
  <1>2. ASSUME NEW w \in Workers, Copy(w) PROVE o \in objects'
    BY <1>2 DEF Copy, Put, Stored, IInv, Owners, Owns, Completing, Requests, Busy
  <1>3. ASSUME NEW w \in Workers, Assemble(w) PROVE o \in objects'
    BY <1>3, AssembleDoes DEF Put, Stored
  <1>4. ASSUME NEW w \in Workers, Wipe(w) PROVE o \in objects'
    BY <1>4 DEF Wipe, Forgotten, Stored, IInv, Wiping, Gone, Rows
  <1>5. ASSUME NEW w \in Workers, Drop(w) PROVE o \in objects'
    BY <1>5 DEF Drop, Forgotten, Stored, IInv, Owners, Owns, Completing, Requests, Busy
  <1>6. ASSUME NEW w \in Workers, CleanupDelete(w) PROVE o \in objects'
    BY <1>6 DEF CleanupDelete, Forgotten, Stored, IInv, Cleaning, Live
  <1>7. ASSUME SweepForget PROVE o \in objects'
    BY <1>7 DEF SweepForget, Forgotten, Stored, IInv, Forgetting, Gone
  <1>8. ASSUME NEW w \in Workers,
               Begins(w) \/ Fails(w) \/ StartMultipart(w) \/ InsertUpload(w) \/ Claim(w) \/ Fresh(w)
               \/ Head(w) \/ Finish(w) \/ Abandon(w) \/ DeleteTx(w)
        PROVE  objects' = objects
    BY <1>8 DEF Begins, CreateLarge, CreateAnew, CompleteRead, DeleteRead, CleanupReserve, Fails,
       StartMultipart, InsertUpload, Claim, Fresh, Head, Finish, Abandon, DeleteTx, bucket
  <1>9. ASSUME \/ \E g \in Files : CreateSmall(g) \/ Parts(g)
               \/ \E m \in multiparts, parts \in {"all", "short"} : PutParts(m, parts)
               \/ SweepList \/ SweepEnd \/ \E one \in sweep.found : SweepTx(one)
               \/ \E t \in trash : Restore(t)
               \/ Crash \/ Tick \/ UNCHANGED vars
        PROVE  objects' = objects
    BY <1>9 DEF CreateSmall, Parts, PutParts, SweepList, SweepEnd, SweepTx, Restore, Crash, Tick,
       bucket, vars
  <1> QED
    BY <1>1, <1>2, <1>3, <1>4, <1>5, <1>6, <1>7, <1>8, <1>9
    DEF Next, Continues, Client, Sweeping

(* A ready row leaves that state only for the trash.                       *)
LEMMA RowSpared ==
  ASSUME TypeOK, IInv, [Next]_vars, NEW f \in Files, row[f].state = "ready"
  PROVE  \/ row'[f].state = "ready" /\ row'[f].n = row[f].n
         \/ row'[f].state = "deleted" /\ [file |-> f, n |-> row[f].n, at |-> now] \in trash'
  <1>1. ASSUME NEW g \in Files, CreateSmall(g) PROVE row'[f] = row[f]
    BY <1>1, Types DEF CreateSmall
  <1>2. ASSUME NEW w \in Workers, NEW g \in Files, CreateLarge(w, g) PROVE row'[f] = row[f]
    BY <1>2, Types DEF CreateLarge, CreateAnew
  <1>3. ASSUME NEW w \in Workers, Finish(w) PROVE row'[f] = row[f]
    <2>1. PICK g \in Files : g = work[w].file
      BY <1>3 DEF Finish, IInv, Requests, Busy
    <2> QED
      BY <1>3, <2>1, FinishDoes DEF RowBecomes, tables
  <1>4. ASSUME NEW w \in Workers, Abandon(w) PROVE row'[f] = row[f]
    BY <1>4, AbandonDoes DEF RowBecomes
  <1>5. ASSUME NEW one \in sweep.found, SweepTx(one) PROVE row'[f] = row[f]
    BY <1>5, SweepTxDoes DEF RowBecomes
  <1>6. ASSUME NEW t \in trash, Restore(t) PROVE row'[f] = row[f]
    BY <1>6, Types DEF Restore, IInv, Kept
  <1>7. ASSUME NEW w \in Workers, DeleteTx(w)
        PROVE  \/ row'[f] = row[f]
               \/ row'[f].state = "deleted" /\ [file |-> f, n |-> row[f].n, at |-> now] \in trash'
    <2>1. PICK g \in Files : g = work[w].file
      BY <1>7 DEF DeleteTx, IInv, Requests, Busy
    <2> QED
      BY <1>7, <2>1, DeleteTxDoes DEF RowBecomes, tables
  <1>8. ASSUME NEW w \in Workers,
               \/ \E g \in Files : CompleteRead(w, g) \/ DeleteRead(w, g)
               \/ \E c \in cleanup : CleanupReserve(w, c)
               \/ Fails(w) \/ StartMultipart(w) \/ InsertUpload(w) \/ Claim(w) \/ Assemble(w)
               \/ Fresh(w) \/ Copy(w) \/ Head(w) \/ Wipe(w) \/ Drop(w) \/ CleanupDelete(w)
        PROVE  row' = row
    BY <1>8 DEF CompleteRead, DeleteRead, CleanupReserve, Fails, StartMultipart, InsertUpload,
       Claim, Assemble, Fresh, Copy, Head, Wipe, Drop, CleanupDelete, tables
  <1>9. ASSUME \/ \E g \in Files : Parts(g)
               \/ \E g \in Files, ok \in BOOLEAN : PutObject(g, ok)
               \/ \E m \in multiparts, parts \in {"all", "short"} : PutParts(m, parts)
               \/ SweepList \/ SweepForget \/ SweepEnd
               \/ Crash \/ Tick \/ UNCHANGED vars
        PROVE  row' = row
    BY <1>9 DEF Parts, PutObject, PutParts, SweepList, SweepForget, SweepEnd, Crash, Tick,
       tables, vars
  <1> QED
    BY <1>1, <1>2, <1>3, <1>4, <1>5, <1>6, <1>7, <1>8, <1>9
    DEF Next, Begins, Continues, Client, Sweeping

(* Only SweepTx begins to forget, and what it takes it has listed.         *)
LEMMA UploadSpared ==
  ASSUME TypeOK, IInv, [Next]_vars, NEW u \in uploads, u \notin uploads',
         sweep.pc = "next", sweep'.pc = "forget"
  PROVE  u.expires < sweep.cutoff
  <1>1. ASSUME NEW w \in Workers, Begins(w) \/ Continues(w) \/ Fails(w) PROVE sweep' = sweep
    BY <1>1 DEF Begins, Continues, CreateLarge, CreateAnew, CompleteRead, DeleteRead,
       CleanupReserve, Fails, StartMultipart, InsertUpload, Claim, Assemble, Fresh, Copy, Head,
       Finish, Abandon, Wipe, Drop, DeleteTx, CleanupDelete
  <1>2. ASSUME Client \/ (\E t \in trash : Restore(t)) \/ Tick \/ UNCHANGED vars
        PROVE  sweep' = sweep
    BY <1>2 DEF Client, CreateSmall, Parts, PutObject, PutParts, Restore, Tick, vars
  <1>3. ~(SweepList \/ SweepForget \/ SweepEnd \/ Crash)
    BY DEF SweepList, SweepForget, SweepEnd, Crash, Asleep
  <1>4. PICK one \in sweep.found : SweepTx(one)
    BY <1>1, <1>2, <1>3 DEF Next, Sweeping
  <1>5. Claimable(one) /\ u \in Of(one.file)
    BY <1>4 DEF SweepTx, Remove
  <1>6. one.mp # 0
    BY <1>5 DEF IInv, Listed
  <1> QED
    BY <1>5, <1>6 DEF Claimable, Of, IInv, ObjectsKept, OneUpload

(* For any number of files, requests, crashes and failures: no step        *)
(* changes or removes the object of a ready file, a ready row leaves only  *)
(* for the trash, and the sweep takes no upload whose deadline has moved   *)
(* past its time.                                                          *)
THEOREM UnderUseHolds == Spec => NothingUnderUse
  <1>1. TypeOK /\ IInv /\ [Next]_vars =>
          [\A f \in Files : row[f].state = "ready" =>
             /\ \A o \in Stored(f, row[f].n) : o \in objects'
             /\ \/ row'[f].state = "ready" /\ row'[f].n = row[f].n
                \/ row'[f].state = "deleted" /\ [file |-> f, n |-> row[f].n, at |-> now] \in trash']_vars
    BY ObjectsSpared, RowSpared DEF Stored
  <1>2. TypeOK /\ IInv /\ [Next]_vars =>
          [\A u \in uploads :
             u \notin uploads' /\ sweep.pc = "next" /\ sweep'.pc = "forget"
               => u.expires < sweep.cutoff]_vars
    BY UploadSpared
  <1> QED
    BY Invariance, <1>1, <1>2, PTL DEF Spec, NothingUnderUse, ReadyUntouched, SweepSparesTheLiving
=============================================================================
