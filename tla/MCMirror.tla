------------------------------ MODULE MCMirror ------------------------------
(* An instance of Mirror for TLC: two paragraphs and two names.            *)
EXTENDS Mirror

FirstValue == << <<<<1>>>>, <<<<2>>>> >>
=============================================================================
