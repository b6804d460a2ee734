---------------------------- MODULE MCMaestroPull ----------------------------
(* Instances of MaestroPull for TLC. *)
EXTENDS MaestroPull, TLC

CONSTANTS c1, c2

\* No cluster is the hub itself, or the second one is.
NoneOrSecond == {{}, {c2} \cap Clusters}
==============================================================================
