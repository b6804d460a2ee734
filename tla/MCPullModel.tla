----------------------------- MODULE MCPullModel -----------------------------
(* Instances of PullModel for TLC. *)
EXTENDS PullModel, TLC

\* Pods are interchangeable, and so are clusters (safety runs only).
PullSymmetry == Permutations(Pods) \cup Permutations(Clusters)
=============================================================================
