------------------------------ MODULE MCNotify ------------------------------
(* An instance of Notify for TLC: a push channel with quiet hours over     *)
(* midnight and a mail channel collected into the digest.                  *)
EXTENDS Notify

MCQuietFrom == <<1, 0>>
MCQuietTo   == <<0, 0>>
MCTicked    == {<<"moved", 1>>, <<"mentioned", 2>>, <<"due", 2>>}

Budget == Len(log) + dated + edits + stops <= 3 /\ Len(log) + dated <= 2
=============================================================================
