------------------------- MODULE MCClusterSecrets -------------------------
(* Instances of ClusterSecrets for TLC. *)
EXTENDS ClusterSecrets, TLC

Push   == [mode |-> "push", ref |-> "msa", insecure |-> FALSE]
Custom == [mode |-> "push", ref |-> "custom", insecure |-> FALSE]
Legacy == [mode |-> "push", ref |-> "msa", insecure |-> TRUE]
Blank  == [mode |-> "blank", ref |-> "msa", insecure |-> FALSE]
Agent  == [mode |-> "agent", ref |-> "msa", insecure |-> FALSE]
Absent == [mode |-> "absent", ref |-> "msa", insecure |-> FALSE]

PullSpecs   == {Push, Blank, Agent}
AllSpecs    == {Push, Custom, Legacy, Blank, Agent, Absent}
===========================================================================
