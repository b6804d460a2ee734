------------------------------ MODULE OlmInstall ------------------------------
(***************************************************************************)
(* The GitOps addon agent on an OpenShift cluster: every pass brings the   *)
(* OLM Subscription of the GitOps operator into the target namespace,      *)
(* moves it out of the namespaces of earlier releases, and repairs         *)
(* InstallPlans that went wrong.  Each call of a pass is a step; reading   *)
(* and writing are one step only where nobody else changes what was read.  *)
(* OLM, the operator, the catalog and the users are external.              *)
(***************************************************************************)
EXTENDS Naturals

CONSTANTS
  Target,        \* OLM_SUBSCRIPTION_NAMESPACE
  Old,           \* the namespaces of earlier releases that are not the target
  Specs,         \* the values of the four spec fields the agent compares
  Foreign,       \* those of a Subscription of someone else, or of another release
  OldStarts,     \* what a former release or a user left in an old namespace
  TargetStarts,  \* what there is in the target namespace
  Latest,        \* bound: the last version of the catalog
  Churn,         \* the kinds of change the environment may make
  MaxChanges,    \* bound: changes made by the environment
  MaxFaults      \* bound: failed calls and restarts of the agent

ASSUME OlmAssumption ==
  /\ Target \notin Old /\ Foreign \notin Specs
  /\ Latest \in Nat \ {0} /\ MaxChanges \in Nat /\ MaxFaults \in Nat
  /\ OldStarts \cup TargetStarts \subseteq {"nothing", "ours", "orphan", "users", "otherSpec"}

VARIABLES
  sub,       \* the Subscription of each namespace, with the phase of its InstallPlan
  csv,       \* the operator's ClusterServiceVersions of each namespace
  ready,     \* is the operator's Deployment available there?
  group,     \* an OperatorGroup exists in the target namespace
  webhook,   \* the ArgoCD CRD converts by webhook
  argo,      \* the ArgoCD CR of the policy exists
  service,   \* the default GitopsService exists
  latest,    \* the version of the catalog
  want,      \* the spec the environment of the agent asks for
  agent,     \* the pass of the agent
  changes, faults   \* consumption of the bounds

olmVars == <<sub, csv, ready, webhook>>
vars == <<olmVars, group, argo, service, latest, want, agent, changes, faults>>

NS == Old \cup {Target}
Versions == 1..Latest

\* Version 0 is no version.
Sub(owner, spec, plan, current, installed) ==
  [owner |-> owner, spec |-> spec, plan |-> plan, current |-> current, installed |-> installed]
NoSub  == Sub("none", Foreign, "none", 0, 0)
Plans  == {"none", "pending", "failed", "complete", "deleted", "missing"}

Exists(n) == sub[n].owner # "none"
Ours(n)   == sub[n].owner = "addon"       \* carries the gitopsaddon label

\* The locals of a pass.
NoPass == [pc |-> "idle", left |-> {}, ns |-> Target, csv |-> 0, listed |-> {}, read |-> NoSub]

Installed(kind, spec) ==
  CASE kind = "ours"      -> Sub("addon", spec, "complete", 1, 1)
    [] kind = "otherSpec" -> Sub("addon", Foreign, "complete", 1, 1)
    [] kind = "users"     -> Sub("user", Foreign, "complete", 1, 1)
    [] OTHER              -> NoSub

Init ==
  \E start \in [NS -> OldStarts \cup TargetStarts] :
    /\ \A n \in Old : start[n] \in OldStarts
    /\ start[Target] \in TargetStarts
    /\ want \in Specs
    /\ sub = [n \in NS |-> Installed(start[n], want)]
    /\ csv = [n \in NS |-> IF start[n] = "nothing" THEN {} ELSE {1}]
    /\ ready = [n \in NS |-> start[n] # "nothing"]
    /\ webhook \in BOOLEAN /\ group = (start[Target] # "nothing")
    /\ service = (\E n \in Old : start[n] # "nothing") /\ argo \in BOOLEAN
    /\ latest = 1 /\ agent = NoPass /\ changes = 0 /\ faults = 0

Fault   == faults < MaxFaults /\ faults' = faults + 1
Succeed == UNCHANGED faults

-----------------------------------------------------------------------------
(* OLM, the operator, the catalog, the policy and the users. *)

OlmUnchanged == UNCHANGED <<group, argo, service, latest, want, agent, changes, faults>>

\* OLM resolves a Subscription that has no InstallPlan, or whose operator has a successor.
Resolve(n) ==
  /\ Exists(n) /\ (n = Target => group)
  /\ \/ sub[n].plan = "none" /\ sub[n].installed = 0
     \/ /\ sub[n].plan \in {"complete", "deleted"} /\ sub[n].installed \in csv[n]
        /\ sub[n].current < latest
  /\ sub' = [sub EXCEPT ![n].plan = "pending", ![n].current = latest]
  /\ UNCHANGED <<csv, ready, webhook>> /\ OlmUnchanged

\* An InstallPlan finds the CSV present elsewhere ("ghost"), or applies the CRD, which sets
\* the webhook strategy, and validates the CRs: by the old strategy, and nobody may serve.
Execute(n) ==
  /\ Exists(n) /\ sub[n].plan = "pending"
  /\ LET v == sub[n].current IN
     \/ /\ \E m \in NS \ {n} : v \in csv[m]
        /\ \E i \in {sub[n].installed, v} :
             sub' = [sub EXCEPT ![n].plan = "complete", ![n].installed = i]
        /\ UNCHANGED <<csv, webhook>>
     \/ /\ \A m \in NS \ {n} : v \notin csv[m]
        /\ webhook' = TRUE
        /\ IF webhook /\ \A m \in NS : ~ready[m]
           THEN sub' = [sub EXCEPT ![n].plan = "failed"] /\ UNCHANGED csv
           ELSE /\ sub' = [sub EXCEPT ![n].plan = "complete"]
                /\ csv' = [csv EXCEPT ![n] = @ \cup {v}]
  /\ UNCHANGED ready /\ OlmUnchanged

\* A deleted InstallPlan is noticed unless the operator counts as installed.
NoticeMissing(n) ==
  /\ Exists(n) /\ sub[n].plan = "deleted" /\ sub[n].installed = 0
  /\ sub' = [sub EXCEPT ![n].plan = "missing"]
  /\ UNCHANGED <<csv, ready, webhook>> /\ OlmUnchanged

\* The status of the Subscription follows its CSV; a successor replaces the older ones.
Track(n) ==
  /\ Exists(n) /\ sub[n].current \in csv[n]
  /\ sub[n].installed # sub[n].current \/ csv[n] # {sub[n].current}
  /\ sub' = [sub EXCEPT ![n].installed = sub[n].current]
  /\ csv' = [csv EXCEPT ![n] = {sub[n].current}]
  /\ UNCHANGED <<ready, webhook>> /\ OlmUnchanged

\* The operator's Deployment follows the CSV, and a running operator sets its webhook.
Deploy(n) ==
  /\ ready[n] # (csv[n] # {}) \/ (ready[n] /\ ~webhook)
  /\ ready' = [ready EXCEPT ![n] = (csv[n] # {})]
  /\ webhook' = (webhook \/ csv[n] # {})
  /\ UNCHANGED <<sub, csv>> /\ OlmUnchanged

\* An operator of an earlier release, or of a user, keeps a default GitopsService.
DefaultService(n) ==
  /\ ready[n] /\ ~service /\ (n \in Old \/ sub[n].owner = "user")
  /\ service' = TRUE
  /\ UNCHANGED <<olmVars, group, argo, latest, want, agent, changes, faults>>

Plan(n) == Resolve(n) \/ Execute(n) \/ NoticeMissing(n)

Change(kind) == kind \in Churn /\ changes < MaxChanges /\ changes' = changes + 1

\* The policy of the hub makes the ArgoCD CR, once there is an operator.
PolicyApplies ==
  /\ ~argo /\ \E n \in NS : ready[n]
  /\ argo' = TRUE
  /\ UNCHANGED <<olmVars, group, service, latest, want, agent, changes, faults>>

CatalogMoves ==
  /\ Change("catalog") /\ latest < Latest /\ latest' = latest + 1
  /\ UNCHANGED <<olmVars, group, argo, service, want, agent, faults>>

\* Another spec in the GitOpsCluster is another environment: the agent's pod is replaced.
WantOther ==
  /\ Change("spec")
  /\ \E s \in Specs \ {want} : want' = s
  /\ agent' = NoPass
  /\ UNCHANGED <<olmVars, group, argo, service, latest, faults>>

\* A user removes our operator half: the CSV, the Subscription or the InstallPlan.
UserRemoves(n) ==
  /\ Change("user") /\ Ours(n)
  /\ \/ csv' = [csv EXCEPT ![n] = {}] /\ UNCHANGED sub
     \/ sub' = [sub EXCEPT ![n] = NoSub] /\ UNCHANGED csv
     \/ sub[n].plan \in {"pending", "complete"}
        /\ sub' = [sub EXCEPT ![n].plan = "deleted"] /\ UNCHANGED csv
  /\ UNCHANGED <<ready, webhook, group, argo, service, latest, want, agent, faults>>

Environment == \/ PolicyApplies \/ CatalogMoves \/ WantOther
               \/ \E n \in NS : \/ Plan(n) \/ Track(n) \/ Deploy(n) \/ DefaultService(n)
                                \/ UserRemoves(n)

-----------------------------------------------------------------------------
(* The agent: one pass every Interval seconds. *)

AgentUnchanged == UNCHANGED <<ready, argo, latest, want, changes>>
Go(pc) == agent' = [agent EXCEPT !.pc = pc]
PassFails == Fault /\ agent' = NoPass
Continue(pc) == Fault /\ Go(pc)        \* the error is logged and the pass goes on

StartPass ==
  /\ agent.pc = "idle"
  /\ agent' = [NoPass EXCEPT !.pc = "service"]
  /\ UNCHANGED <<sub, csv, webhook, group, service, faults>> /\ AgentUnchanged

\* The default GitopsService is stale once the policy's ArgoCD CR exists.
Stale == service /\ argo

DeleteDefaultService ==
  /\ agent.pc = "service"
  /\ \/ Succeed /\ service' = (service /\ ~Stale) /\ Go("prepare")
     \/ Continue("prepare") /\ UNCHANGED service
  /\ UNCHANGED <<sub, csv, webhook, group>> /\ AgentUnchanged

\* Detect OpenShift, ensure the namespace, and an OperatorGroup unless there is one.
Prepare ==
  /\ agent.pc = "prepare"
  /\ \/ Succeed /\ group' = TRUE /\ agent' = [agent EXCEPT !.pc = "migrate", !.left = Old]
     \/ PassFails /\ UNCHANGED group
  /\ UNCHANGED <<sub, csv, webhook, service>> /\ AgentUnchanged

\* [Mutant] Any Subscription of an old namespace is migrated.
MigrateAny(n) == IF Exists(n) THEN "deleteSub" ELSE "sweep"

\* [Mutant] With the Subscription gone, nothing is left to do in an old namespace.
SweepWithSub(n) == IF Ours(n) THEN "deleteSub" ELSE "migrate"

\* What to do in an old namespace: a user's Subscription means leave it alone.
MigrateTo(n) == CASE Ours(n) -> "deleteSub" [] ~Exists(n) -> "sweep" [] OTHER -> "migrate"

MigrateRead(n) ==
  /\ agent.pc = "migrate" /\ n \in agent.left
  /\ \/ /\ Succeed
        /\ agent' = [agent EXCEPT !.left = @ \ {n}, !.ns = n, !.pc = MigrateTo(n),
                                  !.csv = IF Ours(n) THEN sub[n].installed ELSE 0]
     \/ Fault /\ agent' = [agent EXCEPT !.left = @ \ {n}]
  /\ UNCHANGED <<sub, csv, webhook, group, service>> /\ AgentUnchanged

\* The CSV is taken from the status read before the Subscription is deleted.
MigrateDeleteSub ==
  /\ agent.pc = "deleteSub"
  /\ \/ /\ Succeed /\ sub' = [sub EXCEPT ![agent.ns] = NoSub]
        /\ Go(IF agent.csv = 0 THEN "sweep" ELSE "deleteCsv")
     \/ Fault /\ agent' = [agent EXCEPT !.pc = "migrate", !.csv = 0] /\ UNCHANGED sub
  /\ UNCHANGED <<csv, webhook, group, service>> /\ AgentUnchanged

MigrateDeleteCsv ==
  /\ agent.pc = "deleteCsv"
  /\ \/ Succeed /\ csv' = [csv EXCEPT ![agent.ns] = @ \ {agent.csv}]
     \/ Fault /\ UNCHANGED csv
  /\ agent' = [agent EXCEPT !.pc = "sweep", !.csv = 0]
  /\ UNCHANGED <<sub, webhook, group, service>> /\ AgentUnchanged

SweepList ==
  /\ agent.pc = "sweep"
  /\ \/ Succeed /\ agent' = [agent EXCEPT !.pc = "sweepCsv", !.listed = csv[agent.ns]]
     \/ Continue("migrate")
  /\ UNCHANGED <<sub, csv, webhook, group, service>> /\ AgentUnchanged

\* A CSV that a Subscription of the namespace names is not swept.
Claimed(n, v) == Exists(n) /\ v \in {sub[n].installed, sub[n].current}

SweepCsv(v) ==
  /\ agent.pc = "sweepCsv" /\ v \in agent.listed
  /\ \/ /\ Succeed
        /\ agent' = IF Claimed(agent.ns, v) THEN [agent EXCEPT !.listed = @ \ {v}]
                    ELSE [agent EXCEPT !.listed = @ \ {v}, !.pc = "sweepDelete", !.csv = v]
     \/ Fault /\ agent' = [agent EXCEPT !.listed = @ \ {v}]
  /\ UNCHANGED <<sub, csv, webhook, group, service>> /\ AgentUnchanged

SweepDelete ==
  /\ agent.pc = "sweepDelete"
  /\ \/ Succeed /\ csv' = [csv EXCEPT ![agent.ns] = @ \ {agent.csv}]
     \/ Fault /\ UNCHANGED csv
  /\ agent' = [agent EXCEPT !.pc = "sweepCsv", !.csv = 0]
  /\ UNCHANGED <<sub, webhook, group, service>> /\ AgentUnchanged

SweepEnd ==
  /\ agent.pc = "sweepCsv" /\ agent.listed = {}
  /\ Go("migrate")
  /\ UNCHANGED <<sub, csv, webhook, group, service, faults>> /\ AgentUnchanged

MigrateEnd ==
  /\ agent.pc = "migrate" /\ agent.left = {}
  /\ agent' = [agent EXCEPT !.pc = "failedPlan", !.ns = Target]
  /\ UNCHANGED <<sub, csv, webhook, group, service, faults>> /\ AgentUnchanged

\* Our InstallPlan that failed on the conversion webhook is deleted, for OLM to notice.
RecoverFailedPlan ==
  /\ agent.pc = "failedPlan"
  /\ \/ /\ Succeed
        /\ sub' = IF Ours(Target) /\ sub[Target].plan = "failed"
                  THEN [sub EXCEPT ![Target].plan = "deleted"] ELSE sub
     \/ Fault /\ UNCHANGED sub
  /\ Go("ghost")
  /\ UNCHANGED <<csv, webhook, group, service>> /\ AgentUnchanged

\* The CSV a Subscription expects: the one it moves to before the one it has.
Expected(s) == IF s.current # 0 THEN s.current ELSE s.installed

\* The look for ghosts ends without one.
NoGhost == agent' = [agent EXCEPT !.pc = "patch", !.read = NoSub]

\* A "ghost" may be of any Subscription of ours that expects a CSV ...
RecoverGhostRead ==
  /\ agent.pc = "ghost"
  /\ \/ /\ Succeed /\ Ours(Target) /\ Expected(sub[Target]) # 0
        /\ agent' = [agent EXCEPT !.pc = "ghostCsv", !.read = sub[Target]]
     \/ Succeed /\ ~(Ours(Target) /\ Expected(sub[Target]) # 0) /\ NoGhost
     \/ Fault /\ NoGhost
  /\ UNCHANGED <<sub, csv, webhook, group, service>> /\ AgentUnchanged

\* ... that is absent when it is looked for ...
RecoverGhostCsv ==
  /\ agent.pc = "ghostCsv"
  /\ \/ Succeed /\ Expected(agent.read) \in csv[Target] /\ NoGhost
     \/ Succeed /\ Expected(agent.read) \notin csv[Target] /\ Go("ghostStuck")
     \/ Fault /\ NoGhost
  /\ UNCHANGED <<sub, csv, webhook, group, service>> /\ AgentUnchanged

PlanPhases == {"pending", "failed", "complete"}

\* Is the InstallPlan that the Subscription named still the last one?
Newest == sub[Target].current = agent.read.current

\* Its phase by now; a plan that has a successor was complete or deleted before.
NamedPlan == IF agent.read.plan \notin PlanPhases THEN {"deleted"}
             ELSE IF Newest THEN {sub[Target].plan} ELSE {"complete", "deleted"}

\* [Mutant] Only an operator that OLM counts as installed can be a ghost.
StuckIfInstalled(phase) == agent.read.installed # 0

\* ... although OLM counted it as installed, or its plan is complete.
Stuck(phase) == agent.read.installed # 0 \/ phase = "complete"

\* A plan that cannot be read is like one that was deleted.
RecoverGhostStuck ==
  /\ agent.pc = "ghostStuck"
  /\ \E phase \in NamedPlan \cup {"deleted"} :
       /\ (phase \in NamedPlan /\ Succeed) \/ (phase = "deleted" /\ Fault)
       /\ \/ ~Stuck(phase) /\ NoGhost
          \/ Stuck(phase) /\ Go(IF phase \in PlanPhases THEN "ghostPlan" ELSE "ghostSub")
  /\ UNCHANGED <<sub, csv, webhook, group, service>> /\ AgentUnchanged

\* The plan that was read is deleted, and if that fails the Subscription all the same.
RecoverGhostPlan ==
  /\ agent.pc = "ghostPlan"
  /\ \/ /\ Succeed
        /\ sub' = IF Newest /\ sub[Target].plan \in PlanPhases
                  THEN [sub EXCEPT ![Target].plan = "deleted"] ELSE sub
     \/ Fault /\ UNCHANGED sub
  /\ Go("ghostSub")
  /\ UNCHANGED <<csv, webhook, group, service>> /\ AgentUnchanged

RecoverGhostSub ==
  /\ agent.pc = "ghostSub"
  /\ \/ Succeed /\ sub' = [sub EXCEPT ![Target] = NoSub]
     \/ Fault /\ UNCHANGED sub
  /\ NoGhost
  /\ UNCHANGED <<csv, webhook, group, service>> /\ AgentUnchanged

\* [Mutant] The CRD is patched on every pass.
AlwaysNeedsUpdate == TRUE

\* The Subscription is about to be created, replaced or changed.
NeedsUpdate == \/ ~Exists(Target)
               \/ Ours(Target) /\ (sub[Target].plan = "missing" \/ sub[Target].spec # want)

\* A failed Get counts as an update to come; a failed patch is only logged.
PatchWebhook ==
  /\ agent.pc = "patch"
  /\ \/ Succeed /\ webhook' = (webhook /\ ~NeedsUpdate)
     \/ Fault /\ (webhook' = FALSE \/ UNCHANGED webhook)
  /\ Go("apply")
  /\ UNCHANGED <<sub, csv, group, service>> /\ AgentUnchanged

\* The Subscription of ours that is deleted first, to be made anew.
Replaced == Ours(Target) /\ sub[Target].plan = "missing"

SpecChanged == Ours(Target) /\ sub[Target].spec # want

Apply ==
  /\ agent.pc = "apply"
  /\ \/ /\ ~Exists(Target) /\ Succeed /\ Go("create") /\ UNCHANGED sub
     \/ /\ Replaced /\ Succeed
        /\ sub' = [sub EXCEPT ![Target] = NoSub] /\ Go("create")
     \/ /\ ~Replaced /\ SpecChanged /\ Succeed
        /\ sub' = [sub EXCEPT ![Target].spec = want] /\ Go("wait")
     \/ /\ Exists(Target) /\ ~Replaced /\ ~SpecChanged /\ Succeed /\ Go("wait") /\ UNCHANGED sub
     \/ PassFails /\ UNCHANGED sub
  /\ UNCHANGED <<csv, webhook, group, service>> /\ AgentUnchanged

Create ==
  /\ agent.pc = "create"
  /\ \/ /\ ~Exists(Target) /\ Succeed /\ Go("wait")
        /\ sub' = [sub EXCEPT ![Target] = Sub("addon", want, "none", 0, 0)]
     \/ PassFails /\ UNCHANGED sub
  /\ UNCHANGED <<csv, webhook, group, service>> /\ AgentUnchanged

\* Wait for the operator, five minutes at most; the next pass comes either way.
Await ==
  /\ agent.pc = "wait"
  /\ agent' = NoPass
  /\ UNCHANGED <<sub, csv, webhook, group, service, faults>> /\ AgentUnchanged

Pass == \/ StartPass \/ DeleteDefaultService \/ Prepare
        \/ MigrateDeleteSub \/ MigrateDeleteCsv \/ MigrateEnd
        \/ SweepList \/ SweepDelete \/ SweepEnd
        \/ RecoverFailedPlan \/ RecoverGhostRead \/ RecoverGhostCsv \/ RecoverGhostStuck
        \/ RecoverGhostPlan \/ RecoverGhostSub
        \/ PatchWebhook \/ Apply \/ Create \/ Await
        \/ \E n \in Old : MigrateRead(n)
        \/ \E v \in Versions : SweepCsv(v)

Restart ==
  /\ agent.pc # "idle" /\ Fault /\ agent' = NoPass
  /\ UNCHANGED <<sub, csv, webhook, group, service>> /\ AgentUnchanged

Next == Environment \/ Pass \/ Restart

Spec == Init /\ [][Next]_vars

\* The agent's timer, OLM and the policy go on; and OLM does not notice a deleted
\* InstallPlan always between the agent's two reads of one pass, which are instants apart.
FairSpec == /\ Spec /\ WF_vars(Pass) /\ WF_vars(PolicyApplies)
            /\ \A n \in NS : WF_vars(Plan(n)) /\ WF_vars(Track(n)) /\ WF_vars(Deploy(n))
                        /\ SF_vars(NoticeMissing(n) /\ agent.pc # "apply")

-----------------------------------------------------------------------------
(* Properties. *)

Subscriptions == [owner : {"none", "addon", "user"}, spec : Specs \cup {Foreign}, plan : Plans,
                  current : 0..Latest, installed : 0..Latest]
Passes == [pc : {"idle", "service", "prepare", "migrate", "deleteSub", "deleteCsv", "sweep",
                 "sweepCsv", "sweepDelete", "failedPlan", "ghost", "ghostCsv", "ghostStuck",
                 "ghostPlan", "ghostSub", "patch", "apply", "create", "wait"},
           left : SUBSET Old, ns : NS, csv : 0..Latest, listed : SUBSET Versions,
           read : Subscriptions]

\* The variables have their types, and an InstallPlan that waits is for some version.
TypeOK ==
  /\ sub \in [NS -> Subscriptions]
  /\ \A n \in NS : sub[n].plan = "pending" => sub[n].current # 0
  /\ csv \in [NS -> SUBSET Versions] /\ ready \in [NS -> BOOLEAN]
  /\ group \in BOOLEAN /\ webhook \in BOOLEAN /\ argo \in BOOLEAN /\ service \in BOOLEAN
  /\ latest \in Versions /\ want \in Specs
  /\ agent \in Passes
  /\ changes \in 0..MaxChanges /\ faults \in 0..MaxFaults

\* A user's operator in an old namespace, where the agent does not look for one to be ready.
UsersOld == \E n \in Old : sub[n].owner = "user"

\* The agent never removes a user's Subscription, nor a CSV that Subscription installs.
UsersKept ==
  [][agent' # agent => \A n \in NS : sub[n].owner = "user" =>
       /\ sub'[n] = sub[n]
       /\ csv[n] \cap {sub[n].installed, sub[n].current} \subseteq csv'[n]]_vars

\* Whatever an earlier release, a failed InstallPlan or a half removal left behind, the
\* operator ends up running in the target namespace, with the spec the hub asks for.
OperatorArrives ==
  <>[](UsersOld \/ (/\ Exists(Target) /\ ready[Target]
                    /\ Ours(Target) => sub[Target].spec = want /\ latest \in csv[Target]))

\* No operator of an earlier release is left, not even as a CSV without Subscription, and the
\* default instance it made goes and is not made again, unless a user's operator makes it.
OldGoes ==
  <>[](/\ \A n \in Old : sub[n].owner # "user" => ~Exists(n) /\ csv[n] = {} /\ ~ready[n]
       /\ service => \E n \in NS : sub[n].owner = "user")

\* The agent and the operator do not fight: in the end neither changes what the other set.
Settles == <>[][UsersOld \/ UNCHANGED <<sub, csv, webhook>>]_vars
==============================================================================
