----------------------------- MODULE MCUploads -----------------------------
(* An instance of Uploads for TLC: one file, of either size, since what    *)
(* files share is only createMu, the reservation and the sweep's list.     *)
EXTENDS Uploads

(* Three completions and deletes, or two and one crash or failure: what    *)
(* that leaves behind is then worked on.                                   *)
Budget == ops + crashes + failures <= 3 /\ crashes + failures <= 1
=============================================================================
