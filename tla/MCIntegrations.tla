--------------------------- MODULE MCIntegrations ---------------------------
(* An instance of Integrations for TLC.  No request is different from      *)
(* another, and no property is about time.                                 *)
EXTENDS Integrations, TLC

Perms == Permutations(Requests)
=============================================================================
