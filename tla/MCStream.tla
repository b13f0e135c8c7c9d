------------------------------ MODULE MCStream ------------------------------
(* An instance of Stream for TLC: three events, reads and failures between them.    *)
EXTENDS Stream

Kind(p, entity, gone) == [prop |-> p, entity |-> entity, gone |-> gone]

MCKinds ==
  {Kind(Open, "card", FALSE), Kind(Open, "member", TRUE), Kind(Open, "member", FALSE),
   Kind(Other, "proposition", TRUE)}

Busy == Cardinality({k \in Reads : reads[k].pc # "idle"})
Budget == Len(events) + Busy + failures <= 3
=============================================================================
