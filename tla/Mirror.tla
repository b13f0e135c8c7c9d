-------------------------------- MODULE Mirror --------------------------------
(***************************************************************************)
(* A document and its markdown file (internal/docs, mirror.go and          *)
(* watch.go).  One goroutine writes the file after every applied command   *)
(* and imports the file when somebody has edited it by hand; tabs, hands,  *)
(* renames, a failing disk and restarts go on around it.                   *)
(*                                                                         *)
(* A file's content is a value, and so its own hash: [rev, items], an item *)
(* being a block's id, version and text and whether it carries the         *)
(* conflict marker; id 0 is a paragraph added by hand.  The documents are  *)
(* module Blocks, without their log.                                       *)
(***************************************************************************)
EXTENDS Blocks

CONSTANTS
  Names,     \* the slugs the document may have, each a path of its own
  First,     \* the paragraphs it starts from
  Queue,     \* what the mirror's subscription holds
  Hasty,     \* what the environment does at the worst moment (see Calm)
  Opened,    \* the slug it starts with
  MaxSaves, MaxHand, MaxRenames, MaxFailures, MaxCrashes, MaxSteps

VARIABLES
  d, slug,
  files,    \* the content at each path, or None
  written,  \* what this process knows of each path: [hash, marks], or None
  events,   \* commands the mirror has not heard of yet
  dropped,  \* the bus has dropped one
  dirty,    \* paths whose edit has settled or will, not yet looked at
  loop,     \* what the goroutine is in the middle of
  failed,   \* a write failed, and no command has been committed since
  owed,     \* words somebody wrote, that nobody who read them took out
  word, saves, hands, renames, failures, crashes

vars == <<d, slug, files, written, events, dropped, dirty, loop, failed, owed, word,
          saves, hands, renames, failures, crashes>>
counts == <<saves, hands, renames, failures, crashes>>
asides == <<failed, counts>>
disk == <<files, written, dirty, loop>>

Idle == [at |-> "idle", path |-> None, content |-> None, was |-> None,
         marks |-> {}, force |-> FALSE]
Words(text) == UNION {{line[n] : n \in DOMAIN line} : line \in {text[k] : k \in DOMAIN text}}
FileWords(file) == IF file = None THEN {} ELSE UNION {Words(file.items[n].text) : n \in DOMAIN file.items}

\* The whole file as the document stands, with a marker on the blocks in marks.
render(doc, marks) ==
  [rev |-> doc.rev,
   items |-> FoldLeft(LAMBDA items, b :
     Append(items, [id |-> b, version |-> doc.rows[b].version, text |-> doc.rows[b].text, mark |-> b \in marks]),
     <<>>, Ordered(doc))]

Start == InsertAll([rows |-> <<>>, log |-> <<>>, rev |-> 0, next |-> 1], None, 0, First)
Quiet(doc) == [doc EXCEPT !.log = <<>>, !.next = 1]

Init ==
  /\ d = Quiet(Start) /\ slug = Opened
  /\ files = [p \in Names |-> IF p = slug THEN render(d, {}) ELSE None]
  /\ written = [p \in Names |-> IF p = slug THEN [hash |-> render(d, {}), marks |-> {}] ELSE None]
  /\ events = 0 /\ dropped = FALSE /\ dirty = {} /\ loop = Idle /\ failed = FALSE
  /\ owed = UNION {Words(First[n]) : n \in DOMAIN First}
  /\ word = Cardinality(owed) + 1
  /\ saves = 0 /\ hands = 0 /\ renames = 0 /\ failures = 0 /\ crashes = 0

-------------------------------------------------------------------------------
\* A command is committed, and the mirror is told of it if its queue has room.
Publish ==
  /\ events' = IF events < Queue THEN events + 1 ELSE events
  /\ dropped' = (dropped \/ events = Queue)
  /\ failed' = FALSE
More == saves + hands + renames + failures + crashes < MaxSteps
Commit(doc) ==
  /\ saves < MaxSaves /\ More /\ saves' = saves + 1
  /\ d' = Quiet(doc) /\ Publish
  /\ UNCHANGED <<slug, disk, hands, renames, failures, crashes>>

\* A tab rewrites a block from a version it holds, adds one, takes one out.
SaveBlock(b) ==
  /\ saves < MaxSaves /\ More /\ ~ d.rows[b].gone
  /\ \E base \in 1 .. d.rows[b].version :
    LET was == d.rows[b].held[base]
        now == Append(was, <<word>>)
        cut == <<<<word>>>>
    IN  \E text \in {t \in {now, cut} : Accepts(d, b, base, t)} :
          /\ Commit(Set(d, None, b, base, text))
          /\ owed' = (owed \ (Words(was) \ Words(text))) \union {word} /\ word' = word + 1
AddBlock(after) ==
  /\ Commit(Insert(d, None, after, <<<<word>>>>))
  /\ owed' = owed \union {word} /\ word' = word + 1
DropBlock(b) ==
  /\ ~ d.rows[b].gone
  /\ Commit(Tombstone(d, None, b))
  /\ UNCHANGED <<owed, word>>

\* What may happen at a moment the code does not provide for, if Hasty has it.
Calm(what, worst) == what \in Hasty \/ ~ worst
Unread(p) == files[p] # None /\ (written[p] = None \/ files[p] # written[p].hash)

\* The document is renamed: its file is to stand under another name.
Rename ==
  /\ renames < MaxRenames /\ More /\ renames' = renames + 1
  /\ Calm("rename", Unread(slug) \/ loop # Idle)
  /\ \E name \in Names \ {slug} : slug' = name
  /\ Publish
  /\ UNCHANGED <<d, disk, owed, word, saves, hands, failures, crashes>>

\* Somebody edits the file by hand: a paragraph gets a line more, is rewritten,
\* taken out, put in, or put in under a comment copied from one above it.
HandEdits(items) ==
  {[items EXCEPT ![n].text = Append(@, <<word>>)] : n \in DOMAIN items}
  \union {[items EXCEPT ![n].text = <<<<word>>>>] : n \in DOMAIN items}
  \union {RemoveAt(items, n) : n \in DOMAIN items}
  \union {InsertAt(items, n, [id |-> 0, version |-> 0, text |-> <<<<word>>>>, mark |-> FALSE])
            : n \in 1 .. Len(items) + 1}
  \union {Append(items, [items[n] EXCEPT !.text = <<<<word>>>>]) : n \in DOMAIN items}
HandEdit(p) ==
  /\ hands < MaxHand /\ More /\ hands' = hands + 1
  /\ files[p] # None /\ Calm("edit", loop # Idle) /\ Calm("rename", p # slug)
  /\ \E items \in {i \in HandEdits(files[p].items) :
                      Calm("back", written[p] # None /\ written[p].hash = [files[p] EXCEPT !.items = i])} :
       /\ files' = [files EXCEPT ![p].items = items]
       /\ owed' = (owed \ (FileWords(files[p]) \ FileWords(files'[p]))) \union (FileWords(files'[p]) \ FileWords(files[p]))
  /\ dirty' = dirty \union {p} /\ word' = word + 1
  /\ UNCHANGED <<d, slug, written, events, dropped, loop, failed, saves, renames, failures, crashes>>

-------------------------------------------------------------------------------
\* Mirror without force leaves a file alone that holds what it did not write;
\* otherwise it records the hash of what it is about to write.
Marks(marks) == marks \intersect Live(d)
SkipsBlind(known) ==  \* a bug: the file is not read before it is written over
  LET content == render(d, IF known[slug] = None THEN {} ELSE Marks(known[slug].marks))
  IN  known[slug] # None /\ known[slug].hash = content
Skips(known) ==
  LET content == render(d, IF known[slug] = None THEN {} ELSE Marks(known[slug].marks))
  IN  \/ known[slug] # None /\ known[slug].hash = content
      \/ files[slug] # None /\ (known[slug] = None \/ files[slug] # known[slug].hash)
Records(known, marks, force) ==
  LET content == render(d, Marks(marks))
  IN  /\ written' = [known EXCEPT ![slug] = [hash |-> content, marks |-> Marks(marks)]]
      /\ loop' = [Idle EXCEPT !.at = "write", !.path = slug, !.content = content, !.was = known[slug],
                               !.force = force]
Unforced(known) ==
  IF Skips(known) THEN written' = known /\ loop' = Idle
  ELSE Records(known, IF known[slug] = None THEN {} ELSE known[slug].marks, FALSE)

\* The bytes land, and the files this document used to be written to go.
Lands ==
  LET others == {p \in Names \ {loop.path} : written[p] # None}
  IN  /\ loop.at = "write" /\ loop' = Idle
      /\ files' = [p \in Names |-> IF p = loop.path THEN loop.content
                                   ELSE IF p \in others THEN None ELSE files[p]]
      /\ written' = [p \in Names |-> IF p \in others THEN None ELSE written[p]]
      /\ UNCHANGED <<d, slug, events, dropped, dirty, owed, word, asides>>
\* Or they do not, and what was written last is still what was written last.
FailsKnown ==  \* a bug: what was not written stays recorded as written
  /\ loop.at = "write" /\ failures < MaxFailures /\ More /\ failures' = failures + 1
  /\ Calm("forced", loop.force)
  /\ loop' = Idle /\ failed' = TRUE
  /\ UNCHANGED <<d, slug, files, written, events, dropped, dirty, owed, word, saves, hands, renames, crashes>>
Fails ==
  /\ loop.at = "write" /\ failures < MaxFailures /\ More /\ failures' = failures + 1
  /\ Calm("forced", loop.force)
  /\ written' = [written EXCEPT ![loop.path] = loop.was] /\ loop' = Idle /\ failed' = TRUE
  /\ UNCHANGED <<d, slug, files, events, dropped, dirty, owed, word, saves, hands, renames, crashes>>

\* Run's loop: a command it heard of, or, when some were dropped, all there is.
Applied1 ==
  /\ loop = Idle /\ events > 0 /\ ~ dropped
  /\ events' = events - 1
  /\ Unforced(written)
  /\ UNCHANGED <<d, slug, files, dropped, dirty, owed, word, asides>>
ReconcileLate ==  \* a bug: what was dropped is not written again
  /\ loop = Idle /\ events > 0 /\ dropped
  /\ events' = 0 /\ dropped' = FALSE
  /\ UNCHANGED <<d, slug, files, written, dirty, loop, owed, word, asides>>
Reconcile ==
  LET stale == {p \in Names \ {slug} : written[p] # None}
  IN  /\ loop = Idle /\ events > 0 /\ dropped
      /\ events' = 0 /\ dropped' = FALSE
      /\ files' = [p \in Names |-> IF p \in stale /\ ~ Unread(p) THEN None ELSE files[p]]
      /\ Unforced([p \in Names |-> IF p \in stale THEN None ELSE written[p]])
      /\ UNCHANGED <<d, slug, dirty, owed, word, asides>>

\* A file that settled is read, if it is one this process wrote and is not what
\* it wrote.
ImportRead(p) ==
  /\ loop = Idle /\ p \in dirty /\ dirty' = dirty \ {p}
  /\ loop' = IF written[p] # None /\ Unread(p)
               THEN [Idle EXCEPT !.at = "import", !.path = p, !.content = files[p]] ELSE Idle
  /\ UNCHANGED <<d, slug, files, written, events, dropped, owed, word, asides>>

\* The file as it is read back: a block named twice is named the first time.
parseMirror(content) ==
  LET again(n) == \E m \in 1 .. n - 1 : content.items[m].id = content.items[n].id
  IN  FoldLeft(LAMBDA items, n : Append(items, IF again(n) THEN [content.items[n] EXCEPT !.id = 0, !.version = 0]
                                               ELSE content.items[n]),
               <<>>, [n \in DOMAIN content.items |-> n])

SameAs(items) == LET now == render(d, {}).items
                 IN  /\ Len(items) = Len(now)
                     /\ \A n \in DOMAIN now : items[n].id = now[n].id /\ items[n].text = now[n].text
MarkedIn(items) == {items[n].id : n \in {m \in DOMAIN items : items[m].mark /\ items[m].id # 0}}

\* The import's transaction.  Blocks the file lacks are deletions when the file
\* saw this very revision, and are left and marked otherwise.
ImportCommit ==
  /\ loop.at = "import"
  /\ \E items \in {parseMirror(loop.content)} :
     \E done \in {ApplyItems(d, None, items,
                             [b \in Ids(d) |-> IF loop.content.rev = d.rev THEN "drop" ELSE "mark"])} :
       LET refused == UNION {Words(items[n].text) : n \in {m \in DOMAIN items : items[m].id \in done.conflicts}}
           inPlace == UNION {Words(d.rows[b].text) : b \in Ids(d)}
       IN  /\ d' = IF SameAs(items) THEN d ELSE Quiet(done.d)
           /\ loop' = [loop EXCEPT !.at = "force", !.marks = IF SameAs(items) THEN MarkedIn(items) ELSE done.conflicts]
           /\ owed' = IF SameAs(items) THEN owed ELSE owed \ (refused \ inPlace)
  /\ UNCHANGED <<slug, files, written, events, dropped, dirty, word, asides>>
ForcedNot ==  \* a bug: the file is left alone as somebody's edit
  /\ loop.at = "force"
  /\ Unforced(written)
  /\ UNCHANGED <<d, slug, files, events, dropped, dirty, owed, word, asides>>
\* What came of it is written over the file, whatever the file holds.
Forced ==
  /\ loop.at = "force"
  /\ Records(written, loop.marks, TRUE)
  /\ UNCHANGED <<d, slug, files, events, dropped, dirty, owed, word, asides>>

\* The process dies and starts again: a file that is what it would write is
\* written again, one that is not is read, one that is not there is written.
Restart ==
  LET same == files[slug] = render(d, {})
      none == files[slug] = None
  IN  /\ crashes < MaxCrashes /\ More /\ crashes' = crashes + 1
      /\ Calm("crash", loop.at \in {"force", "write"})
      /\ loop' = Idle /\ events' = 0 /\ dropped' = FALSE
      /\ files' = IF none THEN [files EXCEPT ![slug] = render(d, {})] ELSE files
      /\ written' = [p \in Names |->
           IF p # slug THEN None
           ELSE [hash |-> IF same \/ none THEN render(d, {}) ELSE None, marks |-> {}]]
      /\ dirty' = IF same \/ none THEN {} ELSE {slug}
      /\ UNCHANGED <<d, slug, failed, owed, word, saves, hands, renames, failures>>

Turn ==
  \/ Applied1 \/ Reconcile \/ Forced \/ Lands
  \/ \E p \in Names : ImportRead(p)
Next ==
  \/ Turn \/ ImportCommit \/ Fails \/ Restart \/ Rename
  \/ \E b \in Ids(d) : SaveBlock(b) \/ DropBlock(b)
  \/ \E after \in {0} \union Ids(d) : AddBlock(after)
  \/ \E p \in Names : HandEdit(p)

\* The goroutine goes on.  Its import's transaction ends: that is weak fairness of
\* ImportCommit, said without having TLC work the import out to see it enabled.
Spec == Init /\ [][Next]_vars /\ WF_vars(Turn) /\ []<>(loop.at # "import")

-------------------------------------------------------------------------------
\* A word written in a tab or by hand stays in the document or in a file, until
\* somebody who read it takes it out, or an import that could not take its
\* paragraph marks the block.
EditsKept == owed \subseteq UNION {Words(d.rows[b].text) : b \in Ids(d)} \union UNION {FileWords(files[p]) : p \in Names}

\* No import puts a word into the document a second time.
WordsOnce == \A a, b \in Live(d) : a # b => Words(d.rows[a].text) \intersect Words(d.rows[b].text) = {}

\* When everybody stops, the file comes to say what the document does; a write
\* that fails may leave it behind, but only until the next command.
InStep == files[slug] # None /\ SameAs(parseMirror(files[slug]))
MirrorSettles == <>[](InStep \/ failed)

\* A file the mirror does not know again, which it will not write over, has an
\* import to come.
SkipsAwaitImport == Unread(slug) => slug \in dirty \/ loop # Idle

\* What was written by hand is read before it is written over, will be read, and
\* comes in once.
HandEditsKept == EditsKept /\ SkipsAwaitImport /\ WordsOnce
===============================================================================
