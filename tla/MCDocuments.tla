----------------------------- MODULE MCDocuments -----------------------------
(* An instance of Documents for TLC: two paragraphs, the first of two words *)
(* so that two people can change different words of one line.               *)
EXTENDS Reviews, TLC

FirstValue == << <<<<1, 2>>>>, <<<<3>>>> >>
\* One revision has been kept before the first step.
RevisedOnce == revisions # <<>>
Symmetric == Permutations(Users)
=============================================================================
