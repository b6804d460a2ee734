--------------------------- MODULE MCSpokeCleanup ---------------------------
(* Instances of SpokeCleanup for TLC. *)
EXTENDS SpokeCleanup, TLC
=============================================================================
