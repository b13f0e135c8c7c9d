------------------------------- MODULE Evidence -------------------------------
(***************************************************************************)
(* What people put their name to beside a board: comments on its cards     *)
(* (internal/board) and evidence that somebody has checked                 *)
(* (internal/workflow), with the links evidence is attached to.            *)
(*                                                                         *)
(* A comment goes to the trash and back with its card, evidence and links  *)
(* on their own; an account that is deleted leaves what it signed unsigned,*)
(* in the database but not in the trash.  None of it touches columns or    *)
(* what a card holds, so that a behaviour is about the board or about      *)
(* these (`about`), with the trash, the accounts and the shelf of Board.   *)
(***************************************************************************)
EXTENDS Board

CONSTANTS
  Texts,         \* what a piece of evidence says
  LinkOf,        \* the proposition of each link
  FirstNotes, FirstEvidence

\* The rows of these tables, and what somebody checked.
Link == {None} \union DOMAIN LinkOf
NoteRow == [card : Nat \ {0}, by : SUBSET Person]
Check == [who : Person, text : Texts, link : Link]
EvidenceRow == [prop : Props, text : Texts, link : Link, verified : BOOLEAN, by : SUBSET Person,
                version : Nat \ {0}, checked : {None} \union Check]

\* The first comments are on cards there are, the first checks are of what they
\* stand beside, and both name the one account there is.
ASSUME EvidenceAssumption ==
  /\ None \notin NoteRow /\ None \notin Check /\ None \notin EvidenceRow
  /\ FirstNotes \in Seq(NoteRow) /\ FirstEvidence \in Seq(EvidenceRow)
  /\ \A n \in DOMAIN FirstNotes :
       FirstNotes[n].card \in DOMAIN FirstCards /\ FirstNotes[n].by \subseteq {[id |-> 1, made |-> Start]}
  /\ \A e \in DOMAIN FirstEvidence :
       LET row == FirstEvidence[e]
       IN  /\ row.version = 1 /\ row.by \subseteq {[id |-> 1, made |-> Start]}
           /\ row.verified => row.checked # None /\ row.checked.text = row.text /\ row.by \subseteq {row.checked.who}

VARIABLES
  about,    \* "board" or "desk"
  notes,    \* comments by id: [card, by], or None
  evidence, \* by id: [prop, text, link, verified, by, version, checked], or None;
            \* checked is what its verifier had before them: [who, text, link]
  links,    \* the links that are not in the trash
  refs,     \* by link: the evidence that named it when it went there
  shown,    \* by id: what each version of it held
  drawer    \* the trash of evidence: [id, row, at, restored]

desk == <<notes, evidence, links, refs, shown, drawer>>
allvars == <<vars, about, desk>>

Content(row) == [text |-> row.text, link |-> row.link]
DeskInit ==
  /\ Init
  /\ about \in {"board", "desk"}
  /\ notes = IF about = "desk" THEN FirstNotes ELSE <<>>
  /\ evidence = IF about = "desk" THEN FirstEvidence ELSE <<>>
  /\ links = DOMAIN LinkOf /\ refs = [l \in DOMAIN LinkOf |-> {}] /\ drawer = <<>>
  /\ shown = [e \in DOMAIN evidence |-> <<Content(evidence[e])>>]

\* What each version of a piece of evidence was seen to hold.
Shown == shown' = [e \in DOMAIN evidence' |->
  IF e \notin DOMAIN shown THEN <<Content(evidence'[e])>>
  ELSE IF evidence'[e] # None /\ evidence'[e].version > Len(shown[e])
  THEN Append(shown[e], Content(evidence'[e])) ELSE shown[e]]
Account(u) == [id |-> u, made |-> users[u]]

-------------------------------------------------------------------------------
\* What a step of the board does here.  Accounts go from what they signed, but
\* not from what lies in the trash: that is looked at when it comes back.
Left(by) == {a \in by : users'[a.id] # None}
BackBlind(by, at) == by  \* a bug: only assignees are looked at
SignedBack(by, at) == StillThere(by, at)
NotesAfter ==
  notes' = [n \in DOMAIN notes |->
    IF notes[n] = None \/ cards'[notes[n].card] = None THEN notes[n]
    ELSE IF cards[notes[n].card] = None
    THEN [notes[n] EXCEPT !.by = SignedBack(@, bin[CHOOSE b \in DOMAIN bin : bin[b] # bin'[b]].at)]
    ELSE [notes[n] EXCEPT !.by = Left(@)]]
EvidenceAfter ==
  /\ evidence' = [e \in DOMAIN evidence |->
       IF evidence[e] = None \/ shelf'[evidence[e].prop] = "gone" THEN None
       ELSE [evidence[e] EXCEPT !.by = Left(@)]]
  /\ links' = {l \in links : shelf'[LinkOf[l]] # "gone"}
Around ==
  \/ RestoreDeleted \/ CreateUser \/ (\E c \in Live(cards) : DeleteCard(c))
  \/ \E u \in Live(users) : DeleteUser(u)
  \/ \E p \in Props : ArchiveProposition(p) \/ RestoreProposition(p) \/ DeleteProposition(p)
BoardStep ==
  /\ \/ about = "board" /\ Next
     \/ about = "desk" /\ Around
  /\ NotesAfter /\ EvidenceAfter /\ UNCHANGED <<about, refs, shown, drawer>>

AtDesk(p) ==
  /\ about = "desk" /\ Command(p)
  /\ Sideways /\ Prompt /\ UNCHANGED <<places, log, told, about>>

\* Comments: one's own alone can be taken back.
PostComment(u, c) ==
  /\ AtDesk(cards[c].prop)
  /\ notes' = Append(notes, [card |-> c, by |-> {Account(u)}])
  /\ UNCHANGED <<evidence, links, refs, shown, drawer>>
DeleteComment(u, n) ==
  /\ AtDesk(cards[notes[n].card].prop) /\ \E a \in notes[n].by : a.id = u
  /\ notes' = [notes EXCEPT ![n] = None]
  /\ UNCHANGED <<evidence, links, refs, shown, drawer>>

\* SaveEvidence, of a new piece and of one there is.  A check that was made of
\* the same content stays its maker's.
sameLink(row, in) == row.link = in.link  \* a bug: a column has been forgotten
sameContent(row, in) == row.text = in.text /\ row.link = in.link
Signed(u, in) == IF in.verified THEN {Account(u)} ELSE {}
Seen(u, in) == IF in.verified THEN [who |-> Account(u), text |-> in.text, link |-> in.link] ELSE None
Wanted(p) == [text : Texts, link : {None} \union {l \in links : LinkOf[l] = p}, verified : BOOLEAN]
CreateEvidence(u, p) ==
  /\ AtDesk(p)
  /\ \E in \in Wanted(p) :
       evidence' = Append(evidence, [prop |-> p, text |-> in.text, link |-> in.link, verified |-> in.verified,
                                     by |-> Signed(u, in), version |-> 1, checked |-> Seen(u, in)])
  /\ Shown /\ UNCHANGED <<notes, links, refs, drawer>>
SaveEvidence(u, e, seen) ==
  LET row == evidence[e]
  IN  /\ AtDesk(row.prop) /\ seen = row.version
      /\ \E in \in Wanted(row.prop) :
         \E keeps \in {row.verified /\ in.verified /\ sameContent(row, in)} :
           evidence' = [evidence EXCEPT ![e] =
             [row EXCEPT !.text = in.text, !.link = in.link, !.verified = in.verified, !.version = @ + 1,
                         !.by = IF keeps THEN @ ELSE Signed(u, in),
                         !.checked = IF keeps THEN @ ELSE Seen(u, in)]]
      /\ Shown /\ UNCHANGED <<notes, links, refs, drawer>>
DeleteEvidence(e, seen) ==
  /\ AtDesk(evidence[e].prop) /\ seen = evidence[e].version
  /\ drawer' = Append(drawer, [id |-> e, row |-> evidence[e], at |-> now, restored |-> FALSE])
  /\ evidence' = [evidence EXCEPT ![e] = None]
  /\ UNCHANGED <<notes, links, refs, shown>>

\* Out of the trash, if what it names is there.
RestoreEvidence(n) ==
  LET b == drawer[n]
  IN  /\ AtDesk(b.row.prop) /\ ~ b.restored
      /\ b.row.link # None => b.row.link \in links
      /\ drawer' = [drawer EXCEPT ![n].restored = TRUE]
      /\ evidence' = [evidence EXCEPT ![b.id] =
           [b.row EXCEPT !.by = StillThere(@, b.at), !.version = @ + 1]]
      /\ Shown /\ UNCHANGED <<notes, links, refs>>

\* Links: what named one is let go, and takes it up again when it comes back.
DeleteLink(l) ==
  /\ AtDesk(LinkOf[l])
  /\ links' = links \ {l}
  /\ refs' = [refs EXCEPT ![l] = {e \in Live(evidence) : evidence[e].link = l}]
  /\ evidence' = [e \in DOMAIN evidence |-> IF e \in refs'[l] THEN [evidence[e] EXCEPT !.link = None] ELSE evidence[e]]
  /\ UNCHANGED <<notes, shown, drawer>>
RestoreLinkQuietly(l) ==  \* a bug: the version stays
  LET again == {e \in refs[l] \cap Live(evidence) : evidence[e].link = None}
  IN  /\ AtDesk(LinkOf[l])
      /\ \A e \in refs[l] \cap Live(evidence) : evidence[e].link \in {None, l}
      /\ links' = links \union {l}
      /\ evidence' = [e \in DOMAIN evidence |-> IF e \in again THEN [evidence[e] EXCEPT !.link = l] ELSE evidence[e]]
      /\ Shown /\ UNCHANGED <<notes, refs, drawer>>
RestoreLink(l) ==
  LET again == {e \in refs[l] \cap Live(evidence) : evidence[e].link = None}
  IN  /\ AtDesk(LinkOf[l])
      /\ \A e \in refs[l] \cap Live(evidence) : evidence[e].link \in {None, l}
      /\ links' = links \union {l}
      /\ evidence' = [e \in DOMAIN evidence |->
           IF e \in again THEN [evidence[e] EXCEPT !.link = l, !.version = @ + 1] ELSE evidence[e]]
      /\ Shown /\ UNCHANGED <<notes, refs, drawer>>

DeskNext ==
  \/ BoardStep
  \/ \E u \in Live(users) :
       \/ \E c \in Live(cards) : PostComment(u, c)
       \/ \E n \in {m \in Live(notes) : notes[m].card \in Live(cards)} : DeleteComment(u, n)
       \/ \E p \in Props : CreateEvidence(u, p)
       \/ \E e \in Live(evidence) : \E seen \in 1 .. evidence[e].version : SaveEvidence(u, e, seen)
  \/ \E e \in Live(evidence) : \E seen \in 1 .. evidence[e].version : DeleteEvidence(e, seen)
  \/ \E n \in DOMAIN drawer : RestoreEvidence(n)
  \/ (\E l \in links : DeleteLink(l)) \/ \E l \in DOMAIN LinkOf \ links : RestoreLink(l)

DeskSpec == DeskInit /\ [][DeskNext]_allvars

-------------------------------------------------------------------------------
\* A comment names the account that wrote it, or nobody, or one made in the very
\* second in which the comment went to the trash with its card.
AuthorsMeant ==
  \A n \in Live(notes) : notes[n].card \in Live(cards) =>
    \A a \in notes[n].by : Meant(a, Deletions(notes[n].card))

\* What is marked as checked was checked as it reads, and by the account it names,
\* or that one's id is an account's that was made in the second of its deletion.
Discards(e) == {drawer[n].at : n \in {m \in DOMAIN drawer : drawer[m].id = e}}
CheckersMeant ==
  \A e \in Live(evidence) : evidence[e].verified =>
    /\ evidence[e].checked # None /\ evidence[e].checked.text = evidence[e].text
    /\ \A a \in evidence[e].by : a = evidence[e].checked.who /\ Meant(a, Discards(e))

\* A version of a piece of evidence stands for one content, but for the link it
\* loses to the trash: an edit made of a version is of what its writer saw.
EvidenceTells ==
  \A e \in Live(evidence) :
    LET held == shown[e][evidence[e].version]
    IN  evidence[e].text = held.text /\ evidence[e].link \in {None, held.link}

\* What is checked was checked with the link it now has.
LinkWasSeen ==
  \A e \in Live(evidence) : evidence[e].verified => evidence[e].link \in {None, evidence[e].checked.link}

\* Whoever a card, a comment or a check names is who was named, through the
\* deletion of accounts, ids given again and the trash, but for the accounts that
\* were made in the very second of a deletion.
NamesMeant == AssigneesMeant /\ AuthorsMeant /\ CheckersMeant

\* An edit of a card or of evidence is made of what its writer saw.
EditsMeant == VersionsTell /\ EvidenceTells
===============================================================================
