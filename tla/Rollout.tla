------------------------------- MODULE Rollout -------------------------------
(***************************************************************************)
(* What either pull model promises for an Application, whichever way its   *)
(* ManifestWorks go: a cluster is offered a spec the hub has asked for,    *)
(* never an older one than before, and runs what it was offered; an offer  *)
(* is withdrawn only from an Application that is being deleted, and one    *)
(* that a finalizer holds is let go only after that.                       *)
(***************************************************************************)
EXTENDS Integers

CONSTANT Clusters

VARIABLES asked,     \* the Application: [exists, ending, held, cluster, ver]
          attached,  \* the managed clusters there are
          offered,   \* by cluster: the ManifestWork, [state, ver]
          runs       \* by cluster: the version of the spec it runs, 0 for none

NoOffer == [state |-> "none", ver |-> 0]

Init == /\ asked \in [exists : {TRUE}, ending : {FALSE}, held : BOOLEAN, cluster : Clusters,
                      ver : Nat]
        /\ attached = Clusters
        /\ offered = [c \in Clusters |-> NoOffer]
        /\ runs = [c \in Clusters |-> 0]

\* The hub asks for another spec, or for another cluster.
Ask == /\ asked.exists
       /\ asked'.ver >= asked.ver /\ asked'.cluster \in Clusters
       /\ asked' = [asked EXCEPT !.ver = asked'.ver, !.cluster = asked'.cluster]
       /\ UNCHANGED <<attached, offered, runs>>

\* The Application is deleted: it goes at once, unless a finalizer holds it.
End == /\ asked.exists /\ ~asked.ending
       /\ asked' = [asked EXCEPT !.exists = asked.held, !.ending = TRUE]
       /\ UNCHANGED <<attached, offered, runs>>

LetGo == /\ asked.exists /\ asked.ending /\ offered[asked.cluster].state # "live"
         /\ asked' = [asked EXCEPT !.exists = FALSE, !.held = FALSE]
         /\ UNCHANGED <<attached, offered, runs>>

\* An offer may be renewed while it is being withdrawn, and stays withdrawn.
Offer(c) == /\ \E v \in offered[c].ver .. asked.ver :
                 offered' = [offered EXCEPT
                   ![c] = [state |-> IF @.state = "none" THEN "live" ELSE @.state, ver |-> v]]
            /\ UNCHANGED <<asked, attached, runs>>

Withdraw(c) == /\ asked.ending /\ offered[c].state = "live"
               /\ offered' = [offered EXCEPT ![c].state = "deleting"]
               /\ UNCHANGED <<asked, attached, runs>>

Run(c) == /\ offered[c].state = "live" /\ runs[c] <= offered[c].ver
          /\ runs' = [runs EXCEPT ![c] = offered[c].ver]
          /\ UNCHANGED <<asked, attached, offered>>

Remove(c) == /\ offered[c].state = "deleting"
             /\ offered' = [offered EXCEPT ![c] = NoOffer]
             /\ runs' = [runs EXCEPT ![c] = 0]
             /\ UNCHANGED <<asked, attached>>

\* The offer to a detached cluster may go with its namespace; what it runs it keeps.
Detach(c) == /\ c \in attached /\ attached' = attached \ {c}
             /\ offered' \in {offered, [offered EXCEPT ![c] = NoOffer]}
             /\ UNCHANGED <<asked, runs>>

Next == \/ Ask \/ End \/ LetGo
        \/ \E c \in Clusters : Offer(c) \/ Withdraw(c) \/ Run(c) \/ Remove(c) \/ Detach(c)

Spec == Init /\ [][Next]_<<asked, attached, offered, runs>>
==============================================================================
