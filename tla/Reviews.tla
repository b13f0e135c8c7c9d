------------------------------- MODULE Reviews -------------------------------
(***************************************************************************)
(* What is kept of a document while it is written (Documents): the         *)
(* revisions of its history list, which its edits' timer, a source save    *)
(* and a button take (internal/docs), and the reviews somebody asks for    *)
(* and decides (internal/workflow).                                        *)
(*                                                                         *)
(* The timer lives in the process.  A command on one block arms it when it *)
(* has committed; a paste and a source save arm it while their transaction *)
(* is open, and no other writer gets in then, but a tick, which only reads *)
(* until it has something to store, does.  A tick takes the flag of the    *)
(* edits, compares and then stores, and writers fall between the three.    *)
(* A review is of the document as it read when it was asked for; what it   *)
(* was asked of moves on.                                                  *)
(***************************************************************************)
EXTENDS Documents

CONSTANTS
  Verdicts,    \* what a review may be decided as
  MaxVersion,  \* of a review when it is last decided
  MaxBeside    \* revisions, ticks and reviews; one takes the place of two writes

VARIABLES
  revisions, \* document_revisions: what the document read as, oldest first
  timer,     \* its entry in pending: "none", "clean" or "edited"
  tick,      \* the timer's function: "idle", or about to "compare" or "save"
  open,      \* a transaction has armed the timer and has yet to commit
  early,     \* a tick has compared for it before it did
  excused,   \* what wrote last does not arm the timer, or its tick failed
  cut,       \* the words source saves have taken out of the document
  reviews,   \* by id: [snapshot, reviewer, state, version]
  misread,   \* a decision was made of what its maker had not read
  beside

history == <<revisions, timer, tick, open, early, excused, cut>>
allvars == <<vars, history, reviews, misread, beside>>

\* A revision may have been kept of the document as it was made.
ReviewInit ==
  /\ Init
  /\ revisions \in {<<>>, <<Markdown(d)>>} /\ timer = "none" /\ tick = "idle" /\ excused = TRUE /\ cut = {}
  /\ open = FALSE /\ early = FALSE
  /\ reviews = <<>> /\ misread = FALSE /\ beside = 0

-------------------------------------------------------------------------------
(* Revisions.  The kinds of write, told by what they leave: a source save  *)
(* alone leaves an answer, a block command alone counts and leaves none.   *)
BySource  == answer' # None /\ d' # d
ByBlock == writes' > writes /\ answer' = None
ByUndo == asked # None /\ asked' = None /\ d' # d
\* A paste alone counts as two, and a source save sets the blocks it changes.
ByPaste == ByBlock /\ odd' > odd
BySetting == BySource /\ \E b \in DOMAIN d.rows : d'.rows[b] # d.rows[b]

\* What a tick owes from here on.
TouchFirst ==  \* a bug: a timer that is armed is left as it is
  /\ timer' = (IF timer = "none" THEN "edited" ELSE timer)
  /\ excused' = FALSE /\ early' = FALSE
Touch ==
  /\ timer' = "edited"
  /\ excused' = FALSE /\ early' = FALSE

\* The restore point of a source save, of the transaction that is to write.
PreImportLate == revisions' = IF BySource THEN Append(revisions, Markdown(d')) ELSE revisions  \* a bug
PreImport == revisions' = IF BySource THEN Append(revisions, Markdown(d)) ELSE revisions

Document ==
  /\ \/ writes + odd + 2 * beside < MaxSteps /\ Counted
     \/ Uncounted
  /\ writes' + odd' + 2 * beside <= MaxSteps
  /\ open = (ByPaste \/ BySetting) /\ open' = FALSE
  /\ IF ByBlock /\ ~open THEN Touch
     ELSE /\ excused' = (excused \/ (~open /\ (BySource \/ ByUndo)))
          /\ UNCHANGED <<timer, early>>
  /\ PreImport
  /\ cut' = IF BySource THEN cut \union (AllWords(Markdown(d)) \ AllWords(Markdown(d'))) ELSE cut
  /\ UNCHANGED <<tick, reviews, misread, beside>>

\* Together, of a paste or a source save: the first block is set.
TouchBeforeCommit ==
  /\ trash = None /\ ~open /\ open' = TRUE
  /\ writes < MaxWrites /\ Live(d) # {}
  /\ Touch
  /\ UNCHANGED <<vars, revisions, tick, cut, reviews, misread, beside>>

\* A later paragraph is refused.
RollBack ==
  /\ open /\ open' = FALSE
  /\ UNCHANGED <<vars, revisions, timer, tick, early, excused, cut, reviews, misread, beside>>

\* What takes the write lock waits for the transaction that has it.
Beside ==
  /\ beside < MaxBeside /\ writes + odd + 2 * (beside + 1) <= MaxSteps
  /\ beside' = beside + 1
Apart == UNCHANGED <<vars, reviews, misread>>

\* The button.
CreateRevision ==
  /\ trash = None /\ ~open /\ Beside
  /\ revisions' = Append(revisions, Markdown(d))
  /\ Apart /\ UNCHANGED <<timer, tick, open, early, excused, cut>>

\* tick: with nothing edited since the last the timer is forgotten.
TakeFlag ==
  /\ timer = "edited" /\ tick = "idle" /\ Beside
  /\ timer' = "clean" /\ tick' = "compare"
  /\ Apart /\ UNCHANGED <<revisions, open, early, excused, cut>>
ForgetTimer ==
  /\ timer = "clean" /\ tick = "idle"
  /\ timer' = "none"
  /\ Apart /\ UNCHANGED <<revisions, tick, open, early, excused, cut, beside>>
matchesNewestRevision == trash = None /\ revisions # <<>> /\ Last(revisions) = Markdown(d)
Compare ==
  /\ tick = "compare"
  /\ tick' = IF matchesNewestRevision THEN "idle" ELSE "save"
  /\ early' = (early \/ (open /\ timer = "clean" /\ matchesNewestRevision))
  /\ Apart /\ UNCHANGED <<revisions, timer, open, excused, cut, beside>>
\* A document that has gone to the trash meanwhile is not kept.
SavePeriodic ==
  /\ tick = "save" /\ tick' = "idle" /\ ~open
  /\ revisions' = IF trash = None THEN Append(revisions, Markdown(d)) ELSE revisions
  /\ excused' = (excused \/ trash # None)
  /\ Apart /\ UNCHANGED <<timer, open, early, cut, beside>>

\* A restore of the database, or the end of the process, waits for a tick at
\* work and lets the timer go.
pauseRevisionTimers ==
  /\ timer # "none" /\ tick = "idle" /\ Beside
  /\ timer' = "none" /\ excused' = TRUE
  /\ Apart /\ UNCHANGED <<revisions, tick, open, early, cut>>

-------------------------------------------------------------------------------
\* target: which blocks, at which versions, and the document's own revision.
FingerprintText == Markdown(d)  \* a bug: what reads alike is taken to be alike
Fingerprint == <<d.rev, {<<b, d.rows[b].version>> : b \in Live(d)}>>
Stale(r) == trash # None \/ Fingerprint # r.snapshot.print

\* What is stored beside the request; rows is the document it is of.
Snapshot == [print |-> Fingerprint, texts |-> Markdown(d), rows |-> d.rows]
RequestReview(reviewer) ==
  /\ trash = None /\ ~open /\ Beside
  /\ reviews' = Append(reviews, [snapshot |-> Snapshot, reviewer |-> reviewer, state |-> "needs_review", version |-> 1])
  /\ UNCHANGED <<vars, history, misread>>

\* By the reviewer, or by anybody once that account is deleted, from the page
\* that showed it at version seen.
DecidesBlind(u, r, seen) ==  \* a bug: the document is not looked at again
  /\ r.reviewer \in {None, u}
  /\ trash = None /\ seen = r.version
Decides(u, r, seen) ==
  /\ r.reviewer \in {None, u}
  /\ ~ Stale(r) /\ seen = r.version
Decide(u, n, seen, state) ==
  /\ Decides(u, reviews[n], seen) /\ seen <= MaxVersion /\ ~open
  /\ reviews' = [reviews EXCEPT ![n].state = state, ![n].version = @ + 1]
  /\ misread' = (misread \/ seen # reviews[n].version \/ Markdown(d) # reviews[n].snapshot.texts)
  /\ UNCHANGED <<vars, history, beside>>
DeleteReviewer(n) ==
  /\ reviews[n].reviewer # None /\ ~open
  /\ reviews' = [reviews EXCEPT ![n].reviewer = None]
  /\ UNCHANGED <<vars, history, misread, beside>>

ReviewNext ==
  \/ Document \/ TouchBeforeCommit \/ RollBack
  \/ CreateRevision \/ TakeFlag \/ ForgetTimer \/ Compare \/ SavePeriodic \/ pauseRevisionTimers
  \/ \E u \in Users : RequestReview(u)
  \/ \E n \in DOMAIN reviews :
       \/ DeleteReviewer(n)
       \/ \E u \in Users, seen \in 1 .. reviews[n].version, state \in Verdicts :
            Decide(u, n, seen, state)

ReviewSpec == ReviewInit /\ [][ReviewNext]_allvars

-------------------------------------------------------------------------------
\* An edit is in the newest revision or a tick is to come that sees it, whoever
\* wrote while the last one was at work, unless the tick it armed looked before
\* its transaction had committed.
EditsRevised ==
  trash = None /\ ~ excused /\ ~ early => timer = "edited" \/ tick # "idle" \/ matchesNewestRevision

\* touch: "The first tick after an edit writes a revision".
FirstTickRevises ==
  trash = None /\ ~ excused => timer = "edited" \/ tick # "idle" \/ matchesNewestRevision

\* What a source save took out is in a revision, also what its writer never saw.
SavesRestorable == cut \subseteq UNION {AllWords(revisions[n]) : n \in DOMAIN revisions}

\* A review that does not say it is stale is of the document as it is, which
\* nobody has written since, and was decided by somebody who could read that.
ReviewsTell ==
  /\ \A n \in DOMAIN reviews : ~ Stale(reviews[n]) => d.rows = reviews[n].snapshot.rows
  /\ ~ misread

\* What is kept of a document's past is what it was: its log, its revisions and
\* what somebody approved.
PastTells == HistoryTells /\ EditsRevised /\ SavesRestorable /\ ReviewsTell
===============================================================================
