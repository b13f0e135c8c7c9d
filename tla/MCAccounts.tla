----------------------------- MODULE MCAccounts -----------------------------
(* An instance of Accounts for TLC: two accounts, one invitation at a time *)
(* and two requests at once.                                               *)
EXTENDS Accounts, TLC

Alike == Permutations(Workers) \cup Permutations(Emails)
=============================================================================
