------------------------------ MODULE Documents ------------------------------
(***************************************************************************)
(* One document under the people who write it: tabs that save a block from *)
(* whatever version they hold, pastes, moves and deletions, a source view  *)
(* that saves the whole text from a reading of its own, undo, the nightly  *)
(* folding of the log, and the document deleted and restored from trash.   *)
(*                                                                         *)
(* Every command is one transaction; what two of them straddle is what a   *)
(* writer read: the version a save is based on, the source view's reading, *)
(* and the row an undo reads before its transaction.  Commands' recording, *)
(* authorization and events are module Commands.  A word is a number and   *)
(* is written once; a paragraph is a text.                                 *)
(***************************************************************************)
EXTENDS Blocks

CONSTANTS Users, First, MaxWrites, MaxOdd, MaxSteps

VARIABLES
  d,       \* the document's value
  trash,   \* the deleted document, or None
  reading, \* what the source view was opened on: [base, texts], or None
  asked,   \* the row an undo read before its transaction: [n, row], or None
  owed,    \* the words whoever removed them has not seen removed
  answer,  \* the source save just answered: [base, texts, conflicts, merged], or None
  word,    \* the next word
  writes, odd

vars == <<d, trash, reading, asked, owed, answer, word, writes, odd>>

Words(text) == UNION {{line[n] : n \in DOMAIN line} : line \in {text[k] : k \in DOMAIN text}}
AllWords(texts) == UNION {Words(texts[n]) : n \in DOMAIN texts}

\* A document made from a template of First's paragraphs, one insert each.
Empty == [rows |-> <<>>, log |-> <<>>, rev |-> 0, next |-> 1]
Init ==
  /\ \E u \in Users : d = InsertAll(Empty, u, 0, First)
  /\ trash = None /\ reading = None /\ asked = None /\ answer = None
  /\ owed = AllWords(First)
  /\ word = Cardinality(AllWords(First)) + 1
  /\ writes = 0 /\ odd = 0

\* What a writer may make of a text: another last word, the first line taken
\* out, a line more, or two words of a line exchanged for one.
Rewrites(text) ==
  {[text EXCEPT ![n] = Append(SubSeq(@, 1, Len(@) - 1), word)] : n \in DOMAIN text}
  \union {[text EXCEPT ![1] = <<word>> \o Tail(@)], Append(text, <<word>>)}
  \union (IF Len(text) > 1 THEN {Tail(text)} ELSE {})

Writing == trash = None /\ writes < MaxWrites /\ writes + odd < MaxSteps /\ writes' = writes + 1
Oddly == odd < MaxOdd /\ writes + odd < MaxSteps /\ odd' = odd + 1
Held == UNCHANGED <<trash, reading, asked>>
\* What is owed once a writer who read `was` leaves `now` there.
Owing(was, now) == owed' = (owed \ (was \ now)) \union (now \ was)

\* block.set, from any version a tab or a queue may hold.
SetBlock(u, b) ==
  /\ Writing /\ Held /\ ~ d.rows[b].gone
  /\ \E base \in 1 .. d.rows[b].version :
     \E text \in {t \in Rewrites(d.rows[b].held[base]) : Accepts(d, b, base, t)} :
    /\ d' = Set(d, u, b, base, text)
    /\ Owing(Words(d.rows[b].held[base]), Words(text))
    /\ answer' = None /\ word' = word + 1 /\ UNCHANGED odd

\* A paste of two paragraphs into one block.
Paste(u, b) ==
  LET text == d.rows[b].text
  IN  /\ Writing /\ Held /\ Oddly /\ ~ d.rows[b].gone
      /\ d' = InsertAll(Set(d, u, b, d.rows[b].version, Append(text, <<word>>)), u, b, <<<<<<word + 1>>>>>>)
      /\ owed' = owed \union {word, word + 1}
      /\ answer' = None /\ word' = word + 2

InsertBlock(u, after) ==
  /\ Writing /\ Held
  /\ d' = Insert(d, u, after, <<<<word>>>>)
  /\ owed' = owed \union {word}
  /\ answer' = None /\ word' = word + 1 /\ UNCHANGED odd

MoveBlock(u, b, after) ==
  /\ Writing /\ Held /\ ~ d.rows[b].gone /\ after # b
  /\ d' = Move(d, u, b, after)
  /\ answer' = None /\ UNCHANGED <<owed, word, odd>>

\* A tombstone keeps its text, so its words are owed still.
DeleteBlock(u, b) ==
  /\ Writing /\ Held /\ ~ d.rows[b].gone
  /\ d' = Tombstone(d, u, b)
  /\ answer' = None /\ UNCHANGED <<owed, word, odd>>

ReadSource ==
  /\ trash = None /\ reading = None
  /\ reading' = [base |-> Refs(d), texts |-> Markdown(d)]
  /\ answer' = None /\ UNCHANGED <<d, trash, asked, owed, word, writes, odd>>

\* What the source view may send: one paragraph rewritten, taken out, added.
Edited(texts) ==
  {[texts EXCEPT ![n] = Append(@, <<word>>)] : n \in DOMAIN texts}
  \union {RemoveAt(texts, n) : n \in DOMAIN texts}
  \union {InsertAt(texts, n, <<<<word>>>>) : n \in 1 .. Len(texts) + 1}

SaveSource(u) ==
  /\ Writing /\ reading # None
  /\ \E texts \in {t \in Edited(reading.texts) : Readable(d, reading.base)} :
     \E done \in {WriteSource(d, u, reading.base, texts)} :
       LET seen == AllWords(reading.texts)
           refused == AllWords(SelectSeq(texts, LAMBDA t : \E n \in DOMAIN texts :
                                           texts[n] = t /\ done.base[n].id \in done.conflicts))
       IN  /\ d' = done.d
           /\ owed' = (owed \ (seen \ AllWords(texts))) \union ((AllWords(texts) \ seen) \ refused)
           /\ answer' = [base |-> done.base, texts |-> texts, conflicts |-> done.conflicts, merged |-> done.merged]
           /\ reading' = None
           /\ word' = word + 1 /\ UNCHANGED <<trash, asked, odd>>

\* Undo reads the row, and in its transaction reads its before again.
AskUndo(n) ==
  /\ asked = None /\ trash = None /\ Oddly
  /\ n \in DOMAIN d.log /\ Undoable(d.log[n])
  /\ asked' = d.log[n]
  /\ answer' = None /\ UNCHANGED <<d, trash, reading, owed, word, writes>>

UndoChangeStale(u) ==  \* a bug: the before read outside the transaction is put back
  /\ asked # None /\ asked' = None
  /\ LET able == {n \in DOMAIN d.log : d.log[n].id = asked.id /\ trash = None /\ CanUndo(d, n, asked)}
     IN  \/ \E n \in able :
              /\ d' = [Undo([d EXCEPT !.log[n].before = asked.before], u, n)
                         EXCEPT !.log[n].before = d.log[n].before]
              /\ Owing(Words(asked.after.text), Words(asked.before.text))
         \/ able = {} /\ UNCHANGED <<d, owed>>
  /\ answer' = None /\ UNCHANGED <<trash, reading, word, writes, odd>>
UndoChange(u) ==
  /\ asked # None /\ asked' = None
  /\ LET found == {n \in DOMAIN d.log : d.log[n].id = asked.id}
         able == {n \in found : trash = None /\ CanUndo(d, n, asked)}
     IN  \/ \E n \in able :
              /\ d' = Undo(d, u, n)
              /\ Owing(Words(asked.after.text), Words(d.log[n].before.text))
         \/ able = {} /\ UNCHANGED <<d, owed>>
  /\ answer' = None /\ UNCHANGED <<trash, reading, word, writes, odd>>

\* The rows folded are old, and behind the notifier's cursor.
FoldLog ==
  /\ Oddly
  /\ \E old \in {n \in 1 .. d.next - 1 : Foldable(d, n) # {}} : d' = Compact(d, old)
  /\ answer' = None /\ UNCHANGED <<trash, reading, asked, owed, word, writes>>

\* The rows go to trash and the texts of the versions before go for good.
DeleteDocument ==
  /\ trash = None /\ Oddly
  /\ trash' = d.rows /\ d' = [d EXCEPT !.rows = <<>>]
  /\ answer' = None /\ UNCHANGED <<reading, asked, owed, word, writes>>
RestoreDocument ==
  /\ trash # None /\ trash' = None
  /\ d' = [d EXCEPT !.rows = [b \in DOMAIN trash |->
                       LET back == Stored([trash[b] EXCEPT !.kept = {}])
                       IN  Stored([back EXCEPT !.version = @ + 1])],
                    !.rev = @ + 2 * Len(trash) + 1]
  /\ answer' = None /\ UNCHANGED <<reading, asked, owed, word, writes, odd>>

\* What takes one of MaxSteps, and what goes on without.
Counted ==
  \/ \E u \in Users : \/ \E b \in Ids(d) : SetBlock(u, b) \/ Paste(u, b) \/ DeleteBlock(u, b)
                      \/ \E after \in {0} \union Ids(d) : InsertBlock(u, after)
                      \/ \E b \in Ids(d) : \E after \in {0} \union Ids(d) : MoveBlock(u, b, after)
                      \/ SaveSource(u)
  \/ (\E n \in DOMAIN d.log : AskUndo(n)) \/ FoldLog \/ DeleteDocument
Uncounted == ReadSource \/ RestoreDocument \/ \E u \in Users : UndoChange(u)
Next == Counted \/ Uncounted

Spec == Init /\ [][Next]_vars

-------------------------------------------------------------------------------
Rows == IF trash = None THEN d.rows ELSE trash

\* A word somebody wrote and was not told was refused stays in the document, or
\* in what was deleted of it, until a writer who read it leaves it out.
WordsKept == owed \subseteq UNION {Words(Rows[b].text) : b \in DOMAIN Rows}

\* The log says what happened to a block without a gap: each row begins where
\* the one before it ended and the last ends where the block is.
HistoryChains ==
  \A n \in DOMAIN d.log :
    LET later == {m \in Of(d, d.log[n].block) : m > n}
    IN  Undoes(d.log[n].after) =
          (IF later = {} THEN Undoes(View(Rows[d.log[n].block])) ELSE Undoes(d.log[Min(later)].before))

\* A row marked undone has been: some undo left the block as the row says it
\* was before, whatever the log has been folded into meanwhile.
UndoneIsBack ==
  \A n \in DOMAIN d.log : d.log[n].undone =>
    \E m \in Of(d, d.log[n].block) : /\ d.log[m].action = "undo"
                                     /\ Undoes(d.log[m].after) = Undoes(d.log[n].before)

\* No two blocks, deleted ones and those put back included, share a key.
KeysDistinct == \A a, b \in DOMAIN Rows : a # b => Rows[a].pos # Rows[b].pos

\* The text of a source save sent again under the base it was answered with
\* writes nothing, when it was neither refused nor merged.
SourceSettles ==
  (answer # None /\ answer.conflicts = {} /\ answer.merged = {})
    => \A u \in Users : ~ WriteSource(d, u, answer.base, answer.texts).wrote

\* Whoever saves, from whatever version and in either of the two editors,
\* overwrites no word they had not read.
NothingOverwritten == WordsKept /\ SourceSettles

\* What the log says happened, did, and can be taken back: also after it was
\* folded, and after an undo.
HistoryTells == HistoryChains /\ UndoneIsBack
===============================================================================
