----------------------------- MODULE CommandLog -----------------------------
(***************************************************************************)
(* What the command core promises the rest of the program, with no         *)
(* workers, locks or transactions: a log that only grows, in which a       *)
(* command remembered under its key is not performed again, and a feed     *)
(* that tells the log in order and has told all of it before the log       *)
(* grows again.  A restart may leave the end of the log untold.            *)
(***************************************************************************)
EXTENDS Naturals, Sequences

CONSTANT Keyless(_)  \* commands that carry no key are never remembered

VARIABLES
  log,    \* the commands performed
  spent,  \* the commands remembered
  told,   \* the positions of the log told since the last restart
  since   \* the length of the log at the last restart

vars == <<log, spent, told, since>>

Init == log = <<>> /\ spent = {} /\ told = <<>> /\ since = 0

(* Some commands are performed together; none of them is remembered.       *)
Perform ==
  LET new == (Len(log) + 1)..Len(log')
  IN  /\ since + Len(told) = Len(log)
      /\ Len(log') > Len(log)
      /\ SubSeq(log', 1, Len(log)) = log
      /\ \A i \in new : log'[i] \notin spent
      /\ \A i, j \in new : i # j /\ ~Keyless(log'[i]) => log'[i] # log'[j]
      /\ spent' \subseteq spent \cup {log'[i] : i \in new}
      /\ \A i \in new : Keyless(log'[i]) => log'[i] \notin spent'
      /\ UNCHANGED <<told, since>>

Tell ==
  /\ since + Len(told) < Len(log)
  /\ told' = Append(told, since + Len(told) + 1)
  /\ UNCHANGED <<log, spent, since>>

Forget ==
  /\ spent' \subseteq spent
  /\ UNCHANGED <<log, told, since>>

Restart ==
  /\ told' = <<>>
  /\ since' = Len(log)
  /\ UNCHANGED <<log, spent>>

Next == Perform \/ Tell \/ Forget \/ Restart

Spec == Init /\ [][Next]_vars
=============================================================================
