-------------------------------- MODULE Merge --------------------------------
(***************************************************************************)
(* The three-way merge behind a stale block.set (internal/merge): base is  *)
(* the text the writer started from, ours what is sent, theirs what the    *)
(* block holds now.  A text is a sequence of lines, a line a sequence of   *)
(* words; between two words stands one run of white space, a token of its  *)
(* own.  What is left out is the allowance of a million table cells, past  *)
(* which a merge answers with a conflict.                                  *)
(***************************************************************************)
EXTENDS Naturals, Sequences, FiniteSetsExt
LOCAL INSTANCE SequencesExt

\* The row of the table of longest common lengths for x, above the row `below`.
Row(x, b, below) ==
  FoldRight(LAMBDA j, row : <<IF x = b[j] THEN below[j + 1] + 1 ELSE Max({below[j], row[1]})>> \o row,
            [j \in 1 .. Len(b) |-> j], <<0>>)
\* The table: lcs[i][j] is the longest common length of a from i and b from j.
Table(a, b) ==
  FoldRight(LAMBDA x, lcs : <<Row(x, b, lcs[1])>> \o lcs, a, <<[j \in 1 .. Len(b) + 1 |-> 0]>>)

\* Which element of b each element of a is kept as, 0 for none: the longest
\* common subsequence, walked from the front, leaving out of a first.
Walk(a, b, lcs) ==
  LET Step(at, n) ==
        LET i == Len(at.out) + 1
            j == at.j
        IN  IF i > Len(a) THEN at
            ELSE IF j > Len(b) THEN [at EXCEPT !.out = Append(@, 0)]
            ELSE IF a[i] = b[j] THEN [out |-> Append(at.out, j), j |-> j + 1]
            ELSE IF lcs[i + 1][j] >= lcs[i][j + 1] THEN [at EXCEPT !.out = Append(@, 0)]
            ELSE [at EXCEPT !.j = j + 1]
  IN  FoldLeft(Step, [out |-> <<>>, j |-> 1], [n \in 1 .. Len(a) + Len(b) |-> n]).out
Match(a, b) == Walk(a, b, Table(a, b))

\* base, ours and theirs cut into chunks: an element all three have in place,
\* or what lies before the next one both sides still have.
Cut(base, ours, theirs, mo, mt) ==
  LET ends == <<Len(base) + 1, Len(ours) + 1, Len(theirs) + 1>>
      Anchors(at) == {j \in at[1] .. Len(base) : mo[j] >= at[2] /\ mt[j] >= at[3]}
      InPlace(at) == at[1] <= Len(base) /\ mo[at[1]] = at[2] /\ mt[at[1]] = at[3]
      Spot(j) == <<j, mo[j], mt[j]>>
      End(at) == IF InPlace(at) THEN <<at[1] + 1, at[2] + 1, at[3] + 1>>
                 ELSE IF Anchors(at) = {} THEN ends
                 ELSE Spot(Min(Anchors(at)))
      Take(acc, to) ==
        [at |-> to, out |-> Append(acc.out, [base   |-> SubSeq(base, acc.at[1], to[1] - 1),
                                             ours   |-> SubSeq(ours, acc.at[2], to[2] - 1),
                                             theirs |-> SubSeq(theirs, acc.at[3], to[3] - 1)])]
  IN  FoldLeft(LAMBDA acc, n : IF acc.at = ends THEN acc ELSE Take(acc, End(acc.at)),
               [at |-> <<1, 1, 1>>, out |-> <<>>],
               [n \in 1 .. Len(base) + Len(ours) + Len(theirs) |-> n]).out
Chunks(base, ours, theirs) ==
  Cut(base, ours, theirs, Match(base, ours), Match(base, theirs))

\* A chunk one side left alone, or both changed alike, and what it becomes.
Settled(c) == c.ours = c.theirs \/ c.base = c.ours \/ c.base = c.theirs
Side(c) == IF c.base = c.ours THEN c.theirs ELSE c.ours

Space == 0
\* A line as its tokens, and the words of a list of tokens.
Tokens(line) == [n \in 1 .. (IF line = <<>> THEN 0 ELSE 2 * Len(line) - 1) |->
                  IF n % 2 = 1 THEN line[(n + 1) \div 2] ELSE Space]
WordsOf(tokens) == SelectSeq(tokens, LAMBDA w : w # Space)

\* One line both sides rewrote: different words of it are put together.
WordChunks(c) == Chunks(Tokens(c.base), Tokens(c.ours), Tokens(c.theirs))
LineMerges(c) ==
  Settled(c) \/ \A chunk \in ToSet(WordChunks(c)) : Settled(chunk)
Sides(chunks) == FlattenSeq([n \in DOMAIN chunks |-> Side(chunks[n])])
MergedLine(c) ==
  IF Settled(c) THEN Side(c) ELSE WordsOf(Sides(WordChunks(c)))

\* A chunk of lines both sides rewrote is taken line by line, if it can be.
LineOf(c, n) == [base |-> c.base[n], ours |-> c.ours[n], theirs |-> c.theirs[n]]
ChunkMerges(c) ==
  \/ Settled(c)
  \/ /\ Len(c.base) = Len(c.ours) /\ Len(c.base) = Len(c.theirs)
     /\ \A n \in DOMAIN c.base : LineMerges(LineOf(c, n))
MergedChunk(c) ==
  IF Settled(c) THEN Side(c) ELSE [n \in DOMAIN c.base |-> MergedLine(LineOf(c, n))]

\* Whether the two changes can be put together, and the text that is.
Whole(base, ours, theirs) == [base |-> base, ours |-> ours, theirs |-> theirs]
Merges(base, ours, theirs) ==
  \/ Settled(Whole(base, ours, theirs))
  \/ \A c \in ToSet(Chunks(base, ours, theirs)) : ChunkMerges(c)
MergedChunks(chunks) == FlattenSeq([n \in DOMAIN chunks |-> MergedChunk(chunks[n])])
Merged(base, ours, theirs) ==
  IF Settled(Whole(base, ours, theirs)) THEN Side(Whole(base, ours, theirs))
  ELSE MergedChunks(Chunks(base, ours, theirs))
==============================================================================
