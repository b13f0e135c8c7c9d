------------------------------- MODULE MCMail -------------------------------
(* An instance of Mail for TLC: one number for invitations, given again    *)
(* when it is free, and one account that asks for resets.                  *)
EXTENDS Mail
=============================================================================
