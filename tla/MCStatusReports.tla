---------------------------- MODULE MCStatusReports ----------------------------
(* Instances of StatusReports for TLC. *)
EXTENDS StatusReports, TLC
===============================================================================
