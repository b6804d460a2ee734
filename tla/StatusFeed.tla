------------------------------ MODULE StatusFeed ------------------------------
(***************************************************************************)
(* What the status feedback of the pull model promises, for each hub       *)
(* Application: the status shown is a feedback its managed cluster gave,   *)
(* whole; only the health may be the Progressing that is inserted for the  *)
(* ApplicationSet controller, and Healthy is shown only after it.          *)
(***************************************************************************)
EXTENDS Naturals

CONSTANT Apps

VARIABLES given,   \* the feedbacks the cluster of an Application gave so far
          shown    \* the status of the Application

NoStatus == [health |-> "none", ver |-> 0]

\* A feedback without revision leaves the revision that was shown.
Merge(old, f) == [health |-> f.health, ver |-> IF f.ver = 0 THEN old.ver ELSE f.ver]

Init == /\ given \in [Apps -> SUBSET [health : {"Unknown"}, ver : {0}]]
        /\ shown = [a \in Apps |-> NoStatus]

\* The cluster gives another feedback, or several clusters do.
Give == /\ \A a \in Apps : given[a] \subseteq given'[a]
        /\ UNCHANGED shown

Insert(a) == /\ shown' = [shown EXCEPT ![a].health = "Progressing"]
             /\ UNCHANGED given

Show(a) == /\ \E f \in given[a] :
                /\ f.health = "Healthy" => shown[a].health = "Progressing"
                /\ shown' = [shown EXCEPT ![a] = Merge(shown[a], f)]
           /\ UNCHANGED given

\* Applications are deleted and made again without status.
Restart == /\ \E S \in SUBSET Apps :
                shown' = [a \in Apps |-> IF a \in S THEN NoStatus ELSE shown[a]]
           /\ \A a \in Apps : given[a] \subseteq given'[a]

Next == Give \/ Restart \/ \E a \in Apps : Insert(a) \/ Show(a)

Spec == Init /\ [][Next]_<<given, shown>>
===============================================================================
