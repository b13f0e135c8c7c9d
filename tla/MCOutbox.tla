------------------------------ MODULE MCOutbox ------------------------------
(* An instance of Outbox for TLC.                                          *)
EXTENDS Outbox
CONSTANTS t1, t2

(* Two commands and no more, or one and both a cut and a second try.  The  *)
(* second tab only drains, and the first command alone outlives a socket.  *)
Budget ==
  /\ made + cuts + agains <= (IF made = 2 THEN 2 ELSE 3)
  /\ \A k \in DOMAIN waiting[t2] : ~Live(waiting[t2][k])
  /\ \A f \in wire : f.idem = 1
=============================================================================
