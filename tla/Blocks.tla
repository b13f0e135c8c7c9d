-------------------------------- MODULE Blocks --------------------------------
(***************************************************************************)
(* What one transaction does to a document's blocks (internal/docs over    *)
(* internal/core): the block commands, the list of paragraphs a source     *)
(* save or an import applies, undo and the folding of the log.  A document *)
(* is a value; an operator answers with the value the transaction commits. *)
(*                                                                         *)
(*   rows  the blocks table by id, tombstones included.  held is the text  *)
(*         of every version there has been, kept the versions block_texts  *)
(*         still has a row for                                             *)
(*   log   the activity rows of the blocks                                 *)
(*   rev   documents.revision;  next  the id of the next activity row      *)
(***************************************************************************)
EXTENDS Integers, Sequences, FiniteSets, SequencesExt, Merge, Positions

CONSTANTS Window, None

View(row) == [pos |-> row.pos, text |-> row.text, version |-> row.version, gone |-> row.gone]
Ids(d)    == DOMAIN d.rows
Live(d)   == {b \in Ids(d) : ~ d.rows[b].gone}
\* ORDER BY position, id.
Ordered(d) == SortSeq(SelectSeq([b \in Ids(d) |-> b], LAMBDA b : ~ d.rows[b].gone), LAMBDA a, b :
                Below(d.rows[a].pos, d.rows[b].pos) \/ (d.rows[a].pos = d.rows[b].pos /\ a < b))
Markdown(d) == LET order == Ordered(d) IN [n \in DOMAIN order |-> d.rows[order[n]].text]
Refs(d) == LET order == Ordered(d)
           IN  [n \in DOMAIN order |-> [id |-> order[n], version |-> d.rows[order[n]].version]]

\* The row as it is written: the triggers keep its text under its version and
\* move the document's revision on.
Stored(row) == [row EXCEPT
  !.held = IF row.version > Len(@) THEN Append(@, row.text) ELSE [@ EXCEPT ![row.version] = row.text],
  !.kept = {v \in @ \union {row.version} : v + Window > row.version}]
Write(d, b, row) == [d EXCEPT !.rows[b] = Stored(row), !.rev = @ + 1]
\* Whose a row is matters to the fold alone, which asks it of saves.
Log(d, who, action, b, before) ==
  [d EXCEPT !.next = @ + 1,
            !.log = Append(@, [id |-> d.next, block |-> b, action |-> action,
                               who |-> IF action = "set" THEN who ELSE None, undone |-> FALSE,
                               before |-> before, after |-> View(d.rows[b])])]

\* The key of a block after another one; tombstones keep theirs.
PlaceLive(d, after, except) ==  \* a bug: tombstones give their keys away
  LET lo == IF after = 0 THEN <<>> ELSE d.rows[after].pos
      above == {d.rows[b].pos : b \in {c \in Live(d) \ {except} : Below(lo, d.rows[c].pos)}}
      hi == IF above = {} THEN <<>> ELSE CHOOSE p \in above : \A q \in above \ {p} : Below(p, q)
  IN  Between(lo, hi)
Place(d, after, except) ==
  LET lo == IF after = 0 THEN <<>> ELSE d.rows[after].pos
      above == {d.rows[b].pos : b \in {c \in Ids(d) \ {except} : Below(lo, d.rows[c].pos)}}
      hi == IF above = {} THEN <<>> ELSE CHOOSE p \in above : \A q \in above \ {p} : Below(p, q)
  IN  Between(lo, hi)

Insert(d, who, after, text) ==
  LET b == Len(d.rows) + 1
      row == [pos |-> Place(d, after, 0), text |-> text, version |-> 1, gone |-> FALSE,
              held |-> <<>>, kept |-> {}]
  IN  Log([d EXCEPT !.rows = Append(@, Stored(row)), !.rev = @ + 1], who, "insert", b, None)

\* Whether the text a block held at a version can still be told.
BaseKnown(d, b, version) ==
  \/ version \in d.rows[b].kept
  \/ \E n \in DOMAIN d.log : d.log[n].block = b /\ d.log[n].after.version = version
BaseTextNow(d, b, version) == d.rows[b].text  \* a bug: the merge's base is what is there
BaseText(d, b, version) ==
  LET told == {n \in DOMAIN d.log : d.log[n].block = b /\ d.log[n].after.version = version}
  IN  IF version \in d.rows[b].kept THEN d.rows[b].held[version] ELSE d.log[Max(told)].after.text

\* A stale set is merged with what it was written from, or is a conflict.
Accepts(d, b, base, text) ==
  \/ base = d.rows[b].version
  \/ BaseKnown(d, b, base) /\ Merges(BaseText(d, b, base), text, d.rows[b].text)
Applied(d, b, base, text) ==
  IF base = d.rows[b].version THEN text ELSE Merged(BaseText(d, b, base), text, d.rows[b].text)
Set(d, who, b, base, text) ==
  Log(Write(d, b, [d.rows[b] EXCEPT !.text = Applied(d, b, base, text), !.version = @ + 1]),
      who, "set", b, View(d.rows[b]))

\* The paragraphs of a paste after its first, each after the one before it.
InsertAll(d, who, after, texts) ==
  FoldLeft(LAMBDA acc, text : [d |-> Insert(acc.d, who, acc.after, text), after |-> Len(acc.d.rows) + 1],
           [d |-> d, after |-> after], texts).d

Move(d, who, b, after) ==
  Log(Write(d, b, [d.rows[b] EXCEPT !.pos = Place(d, after, b)]), who, "move", b, View(d.rows[b]))
Tombstone(d, who, b) ==
  Log(Write(d, b, [d.rows[b] EXCEPT !.gone = TRUE]), who, "delete", b, View(d.rows[b]))

-------------------------------------------------------------------------------
\* One item of the list a source save or an import applies: a paragraph with no
\* block of the document behind it is inserted, one with its block's own text
\* is nothing to do, any other is a set from the version the item names.
TakenIn(acc, item, stored) ==
  [acc EXCEPT !.d = stored, !.after = item.id, !.wrote = TRUE,
              !.done = Append(@, [id |-> item.id, version |-> stored.rows[item.id].version]),
              !.merged = IF stored.rows[item.id].text # item.text THEN @ \union {item.id} ELSE @]
Apply(acc, item, who, live) ==
  LET d == acc.d
      b == item.id
      made == Len(d.rows) + 1
  IN  IF b \notin live
        THEN [acc EXCEPT !.d = Insert(d, who, acc.after, item.text), !.after = made, !.wrote = TRUE,
                         !.done = Append(@, [id |-> made, version |-> 1])]
      ELSE IF item.text # d.rows[b].text /\ Accepts(d, b, item.version, item.text)
        THEN TakenIn(acc, item, Set(d, who, b, item.version, item.text))
      ELSE [acc EXCEPT !.after = b,
                       !.done = Append(@, [id |-> b, version |-> d.rows[b].version]),
                       !.conflicts = IF item.text # d.rows[b].text THEN @ \union {b} ELSE @]

\* The list, and then the blocks it does not name, by what gone makes of them.
ApplyItems(d, who, items, gone) ==
  LET start == [d |-> d, after |-> 0, wrote |-> FALSE, done |-> <<>>, conflicts |-> {}, merged |-> {}]
      acc == FoldLeft(LAMBDA a, item : Apply(a, item, who, Live(d)), start, items)
      named == {items[n].id : n \in DOMAIN items}
      drop == SelectSeq(Ordered(d), LAMBDA b : b \notin named /\ gone[b] = "drop")
      mark == {b \in Live(d) \ named : gone[b] = "mark"}
  IN  [acc EXCEPT !.d = FoldLeft(LAMBDA e, b : Tombstone(e, who, b), @, drop),
                  !.wrote = @ \/ drop # <<>>,
                  !.conflicts = @ \union mark]

\* Which paragraph each base text is kept as: what is alike at the top and at
\* the bottom is paired straight across, the rest is lined up.
Aligned(texts, paragraphs, head, tail, middle) ==
  [i \in DOMAIN texts |->
     IF i <= head THEN i
     ELSE IF i > Len(texts) - tail THEN i + Len(paragraphs) - Len(texts)
     ELSE IF middle[i - head] = 0 THEN 0 ELSE middle[i - head] + head]
Middle(s, head, tail) == SubSeq(s, head + 1, Len(s) - tail)
Around(texts, paragraphs, head, tail) ==
  Aligned(texts, paragraphs, head, tail, Match(Middle(texts, head, tail), Middle(paragraphs, head, tail)))
AfterHead(texts, paragraphs, head) ==
  LET fromEnd(s, n) == s[Len(s) + 1 - n]
      least == Min({Len(texts), Len(paragraphs)}) - head
  IN  Around(texts, paragraphs, head,
             Max({n \in 0 .. least : \A i \in 1 .. n : fromEnd(texts, i) = fromEnd(paragraphs, i)}))
Pairs(texts, paragraphs) ==
  LET least == Min({Len(texts), Len(paragraphs)})
  IN  AfterHead(texts, paragraphs,
             Max({n \in 0 .. least : \A i \in 1 .. n : texts[i] = paragraphs[i]}))

\* What one base block's paragraph asks for.  One its writer left alone follows
\* the block, and is answered at the version it was written from.
KeptNow(d, ref, was, now) ==  \* a bug: answered at the version it has been moved to
  LET there == ref.id \in Live(d)
      item == [id |-> ref.id, version |-> ref.version, text |-> now, skip |-> FALSE, answer |-> None]
  IN  IF ~ there /\ was = now THEN [item EXCEPT !.skip = TRUE, !.answer = ref]
      ELSE IF there /\ was = now THEN [item EXCEPT !.version = d.rows[ref.id].version, !.text = d.rows[ref.id].text]
      ELSE item
Kept(d, ref, was, now) ==
  LET there == ref.id \in Live(d)
      item == [id |-> ref.id, version |-> ref.version, text |-> now, skip |-> FALSE, answer |-> None]
  IN  IF ~ there /\ was = now THEN [item EXCEPT !.skip = TRUE, !.answer = ref]
      ELSE IF there /\ was = now /\ d.rows[ref.id].text # was
        THEN [item EXCEPT !.version = d.rows[ref.id].version, !.text = d.rows[ref.id].text, !.answer = ref]
      ELSE item
Added(text) == [id |-> 0, version |-> 0, text |-> text, skip |-> FALSE, answer |-> None]

\* The version a base block's text is read at, and whether all can be read.
Readable(d, base) == \A n \in DOMAIN base :
  \/ base[n].id \in Live(d) /\ base[n].version = d.rows[base[n].id].version
  \/ BaseKnown(d, base[n].id, base[n].version)
TextOf(d, ref) == IF ref.version = d.rows[ref.id].version THEN d.rows[ref.id].text
                  ELSE BaseText(d, ref.id, ref.version)
Texts(d, base) == FoldLeft(LAMBDA texts, ref : Append(texts, TextOf(d, ref)), <<>>, base)

Placed(d, base, paragraphs, texts, keep) ==
  LET plan[i \in 1 .. Len(texts) + 1, j \in 1 .. Len(paragraphs) + 1] ==
        IF i > Len(texts) /\ j > Len(paragraphs) THEN <<>>
        ELSE
          LET stays == {k \in i .. Len(texts) : keep[k] >= j}
              i2 == IF stays = {} THEN Len(texts) + 1 ELSE Min(stays)
              j2 == IF stays = {} THEN Len(paragraphs) + 1 ELSE keep[i2]
              both == Min({i2 - i, j2 - j})
              run == [n \in 1 .. j2 - j |->
                       IF n <= both THEN Kept(d, base[i + n - 1], texts[i + n - 1], paragraphs[j + n - 1])
                       ELSE Added(paragraphs[j + n - 1])]
          IN  IF i <= Len(texts) /\ keep[i] = j
                THEN <<Kept(d, base[i], texts[i], paragraphs[j])>> \o plan[i + 1, j + 1]
              ELSE run \o plan[i2, j2]
  IN  plan[1, 1]
PlacedOver(d, base, paragraphs, texts) ==
  Placed(d, base, paragraphs, texts, Pairs(texts, paragraphs))
Plan(d, base, paragraphs) == PlacedOver(d, base, paragraphs, Texts(d, base))

\* A whole document written from its markdown, base being the blocks it was
\* read as.  A save that writes nothing leaves everything as it was.
Answered(d, placed, done) ==
  LET at(n) == Cardinality({k \in 1 .. n : ~ placed[k].skip})
      answer(n) == IF placed[n].answer # None THEN placed[n].answer ELSE done.done[at(n)]
  IN  [d |-> IF done.wrote THEN done.d ELSE d, wrote |-> done.wrote,
       base |-> [n \in DOMAIN placed |-> answer(n)],
       conflicts |-> done.conflicts,
       merged |-> {answer(n).id : n \in {m \in DOMAIN placed : placed[m].answer = None}}
                    \intersect done.merged]
Written(d, who, base, placed) ==
  LET named == {base[n].id : n \in DOMAIN base}
      asOf(b) == base[CHOOSE n \in DOMAIN base : base[n].id = b].version
      gone == [b \in Ids(d) |-> IF b \notin named THEN "keep"
                                ELSE IF asOf(b) = d.rows[b].version THEN "drop" ELSE "mark"]
  IN  Answered(d, placed, ApplyItems(d, who, SelectSeq(placed, LAMBDA p : ~ p.skip), gone))
WriteSource(d, who, base, paragraphs) == Written(d, who, base, Plan(d, base, paragraphs))

-------------------------------------------------------------------------------
\* undo.go: the columns undo writes, and an activity row it may put back.
Undoes(view) == <<view.pos, view.text, view.gone>>
Undoable(row) == row.before # None /\ row.action # "undo" /\ Undoes(row.before) # Undoes(row.after)

\* The undo of the row read as asked: the block must hold what that change left,
\* and the key it goes back to must be nobody else's.
CanUndo(d, n, asked) ==
  LET row == d.log[n]
      now == d.rows[row.block]
  IN  /\ Undoable([asked EXCEPT !.before = row.before]) /\ ~ asked.undone /\ ~ row.undone
      /\ Undoes(now) = Undoes(asked.after)
      /\ \A b \in Ids(d) \ {row.block} : d.rows[b].pos # row.before.pos
Undo(d, who, n) ==
  LET row == d.log[n]
      now == d.rows[row.block]
      back == [now EXCEPT !.pos = row.before.pos, !.text = row.before.text, !.gone = row.before.gone,
                          !.version = @ + 1]
  IN  Log([Write(d, row.block, back) EXCEPT !.log[n].undone = TRUE], who, "undo", row.block, View(now))

\* compact.go: the runs of one person's saves of one block with nothing else of
\* that block between, all of them old, folded into their last row.
Typed(row) == row.action = "set" /\ ~ row.undone
Of(d, b) == {n \in DOMAIN d.log : d.log[n].block = b}
\* A row that is not a save following the same person's save of its block.
Opens(d, n) ==
  LET before == {m \in Of(d, d.log[n].block) : m < n}
      last == d.log[Max(before)]
  IN  before = {} \/ ~ (Typed(d.log[n]) /\ Typed(last) /\ last.who = d.log[n].who)
Opening(d, n) == Max({m \in Of(d, d.log[n].block) : m <= n /\ Opens(d, m)})
Run(d, n) == {m \in Of(d, d.log[n].block) : Opening(d, m) = Opening(d, n)}
Foldable(d, old) ==
  {n \in DOMAIN d.log : Typed(d.log[n]) /\ Cardinality(Run(d, n)) > 1 /\ \A m \in Run(d, n) : d.log[m].id <= old}

CompactBare(d, old) ==  \* a bug: the kept row keeps its own before
  LET fold == Foldable(d, old)
      lasts == {n \in fold : n = Max(Run(d, n))}
  IN  [d EXCEPT !.log = SelectSeq(@, LAMBDA row : \A n \in fold \ lasts : d.log[n] # row)]
Compact(d, old) ==
  LET fold == Foldable(d, old)
      lasts == {n \in fold : n = Max(Run(d, n))}
      left == SelectSeq([n \in DOMAIN d.log |-> n], LAMBDA n : n \notin fold \ lasts)
      folded(n) == IF n \in lasts THEN [d.log[n] EXCEPT !.before = d.log[Opening(d, n)].before] ELSE d.log[n]
  IN  [d EXCEPT !.log = [k \in DOMAIN left |-> folded(left[k])]]
===============================================================================
