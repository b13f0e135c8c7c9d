------------------------------ MODULE MCBoard ------------------------------
(* An instance of Board for TLC: the highest column id is p's, and so is   *)
(* the card, the template, which stands in it and is somebody's.           *)
EXTENDS Evidence, TLC

CONSTANTS p, q
FirstColumnsValue ==
  <<[prop |-> p, name |-> "a", pos |-> <<1>>], [prop |-> q, name |-> "a", pos |-> <<1>>],
    [prop |-> p, name |-> "a", pos |-> <<2>>]>>
FirstCardsValue ==
  <<[prop |-> p, col |-> 3, pos |-> <<1>>, title |-> "a", done |-> FALSE, version |-> 1,
     who |-> {[id |-> 1, made |-> Start]}, template |-> TRUE]>>

\* The card has a comment, and one piece of evidence was checked with its link.
CONSTANT l
LinkOfValue == l :> p
FirstNotesValue == <<[card |-> 1, by |-> {[id |-> 1, made |-> Start]}]>>
FirstEvidenceValue ==
  <<[prop |-> p, text |-> "a", link |-> l, verified |-> TRUE, by |-> {[id |-> 1, made |-> Start]}, version |-> 1,
     checked |-> [who |-> [id |-> 1, made |-> Start], text |-> "a", link |-> l]]>>
=============================================================================
