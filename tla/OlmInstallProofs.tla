--------------------------- MODULE OlmInstallProofs ---------------------------
(* What the agent never does to an operator of a user, for any namespaces and versions. *)
EXTENDS OlmInstall, TLAPS

Users(n) == sub[n].owner = "user"

\* What the agent is about to delete is not a user's: it has read that since it took it up, and
\* users do not make Subscriptions.
Targets ==
  /\ agent.pc \in {"deleteSub", "deleteCsv", "sweep", "sweepCsv", "sweepDelete"} =>
       ~Users(agent.ns)
  /\ agent.pc \in {"ghostCsv", "ghostStuck", "ghostPlan", "ghostSub"} => ~Users(Target)

IInv == TypeOK /\ Targets

\* What a step may do to the Subscriptions, and to everything else.
NoneBecomesUsers == \A n \in NS : sub'[n].owner = "user" => sub[n].owner = "user"
SubStep ==
  /\ sub' \in [NS -> Subscriptions]
  /\ \A n \in NS : sub'[n].plan = "pending" => sub'[n].current # 0
  /\ NoneBecomesUsers
CsvStep == csv' \in [NS -> SUBSET Versions]
SwitchStep == group' \in BOOLEAN /\ webhook' \in BOOLEAN /\ argo' \in BOOLEAN /\ service' \in BOOLEAN
ReadyStep == ready' \in [NS -> BOOLEAN]
WantStep == latest' \in Versions /\ want' \in Specs
AgentStep == agent' \in Passes
BoundsStep == changes' \in 0..MaxChanges /\ faults' \in 0..MaxFaults

\* The agent's part of UsersKept.
Kept ==
  \A n \in NS : sub[n].owner = "user" =>
       /\ sub'[n] = sub[n]
       /\ csv[n] \cap {sub[n].installed, sub[n].current} \subseteq csv'[n]

\* The value that stands for no Subscription.
LEMMA Nobody == NoSub \in Subscriptions /\ NoSub.owner # "user" /\ NoSub.plan # "pending"
BY OlmAssumption DEF OlmAssumption, NoSub, Sub, Subscriptions, Plans

\* At first no pass is under way.
LEMMA OlmInit == Init => IInv
<1> SUFFICES ASSUME Init PROVE IInv
  OBVIOUS
<1> USE OlmAssumption
<1>1. PICK start \in [NS -> OldStarts \cup TargetStarts] :
    /\ want \in Specs
    /\ sub = [n \in NS |-> Installed(start[n], want)]
    /\ csv = [n \in NS |-> IF start[n] = "nothing" THEN {} ELSE {1}]
    /\ ready = [n \in NS |-> start[n] # "nothing"]
    /\ webhook \in BOOLEAN /\ group = (start[Target] # "nothing")
    /\ service = (\E n \in Old : start[n] # "nothing") /\ argo \in BOOLEAN
    /\ latest = 1 /\ agent = NoPass /\ changes = 0 /\ faults = 0
  BY DEF Init
<1>2. 1 \in 0..Latest /\ 0 \in 0..Latest /\ 1 \in Versions
  BY DEF OlmAssumption, Versions
<1>3. ASSUME NEW kind
      PROVE  /\ Installed(kind, want) \in Subscriptions
             /\ Installed(kind, want).plan # "pending"
  BY <1>1, <1>2 DEF Installed, NoSub, Sub, Subscriptions, Plans
<1>4. sub \in [NS -> Subscriptions] /\ \A n \in NS : sub[n].plan # "pending"
  BY <1>1, <1>3
<1>5. csv \in [NS -> SUBSET Versions]
  BY <1>1, <1>2
<1>6. ready \in [NS -> BOOLEAN]
  BY <1>1
<1>7. group \in BOOLEAN
  BY <1>1
<1>8. service \in BOOLEAN
  BY <1>1
<1>9. agent \in Passes /\ agent.pc = "idle"
  BY <1>1, <1>2, Nobody DEF NoPass, Passes, NS
<1>10. changes \in 0..MaxChanges /\ faults \in 0..MaxFaults
  BY <1>1 DEF OlmAssumption
<1>11. latest \in Versions
  BY <1>1, <1>2
<1> QED BY <1>1, <1>4, <1>5, <1>6, <1>7, <1>8, <1>9, <1>10, <1>11 DEF IInv, TypeOK, Targets

\* A step keeps the types if it keeps those of each group of variables.
LEMMA OlmTogether ==
  ASSUME SubStep, CsvStep, SwitchStep, ReadyStep, WantStep, AgentStep, BoundsStep
  PROVE  TypeOK'
BY DEF SubStep, CsvStep, SwitchStep, ReadyStep, WantStep, AgentStep, BoundsStep, TypeOK

\* What a step leaves alone stays as it is.
LEMMA OlmFrames ==
  ASSUME IInv
  PROVE  /\ UNCHANGED sub => SubStep
         /\ UNCHANGED csv => CsvStep
         /\ UNCHANGED ready => ReadyStep
         /\ UNCHANGED <<latest, want>> => WantStep
         /\ UNCHANGED agent => AgentStep
         /\ UNCHANGED <<changes, faults>> => BoundsStep
         /\ UNCHANGED <<sub, csv>> => Kept
<1>1. UNCHANGED sub => SubStep
  BY DEF IInv, TypeOK, SubStep, NoneBecomesUsers
<1>2. UNCHANGED csv => CsvStep
  BY DEF IInv, TypeOK, CsvStep
<1>3. UNCHANGED ready => ReadyStep
  BY DEF IInv, TypeOK, ReadyStep
<1>4. UNCHANGED <<latest, want>> => WantStep
  BY DEF IInv, TypeOK, WantStep
<1>5. UNCHANGED agent => AgentStep
  BY DEF IInv, TypeOK, AgentStep
<1>6. UNCHANGED <<changes, faults>> => BoundsStep
  BY DEF IInv, TypeOK, BoundsStep
<1>7. UNCHANGED <<sub, csv>> => Kept
  BY DEF Kept
<1> QED BY <1>1, <1>2, <1>3, <1>4, <1>5, <1>6, <1>7

\* The same of the four switches.
LEMMA SwitchFrame ==
  ASSUME IInv
  PROVE  /\ UNCHANGED group => group' \in BOOLEAN
         /\ UNCHANGED webhook => webhook' \in BOOLEAN
         /\ UNCHANGED argo => argo' \in BOOLEAN
         /\ UNCHANGED service => service' \in BOOLEAN
BY DEF IInv, TypeOK

\* The bounds are kept by whatever consumes them.
LEMMA OlmBounds ==
  ASSUME IInv,
         \/ UNCHANGED changes /\ (Fault \/ Succeed)
         \/ UNCHANGED faults /\ \E k : Change(k)
  PROVE  BoundsStep
BY OlmAssumption DEF OlmAssumption, IInv, TypeOK, Change, Fault, Succeed, BoundsStep

\* A Subscription is written: it stays whose it is, or becomes nobody's or the agent's.
LEMMA SubWritten ==
  ASSUME IInv, NEW n \in NS, NEW s \in Subscriptions,
         s.plan = "pending" => s.current # 0,
         s.owner = "user" => Users(n),
         sub' = [sub EXCEPT ![n] = s]
  PROVE  SubStep
<1>1. sub' \in [NS -> Subscriptions]
  BY DEF IInv, TypeOK
<1>2. \A m \in NS : sub'[m] = IF m = n THEN s ELSE sub[m]
  BY DEF IInv, TypeOK
<1> QED BY <1>1, <1>2 DEF IInv, TypeOK, SubStep, NoneBecomesUsers, Users

\* Nothing that is the user's is touched where the Subscription that is written is not theirs.
LEMMA KeptElsewhere ==
  ASSUME IInv, NEW n \in NS, ~Users(n), NEW s, sub' = [sub EXCEPT ![n] = s], UNCHANGED csv
  PROVE  Kept
BY DEF IInv, TypeOK, Users, Kept

\* The Subscription and the ClusterServiceVersions of one namespace.
LEMMA SubsTyped ==
  ASSUME IInv, NEW n \in NS
  PROVE  /\ sub[n] \in Subscriptions
         /\ sub[n].plan = "pending" => sub[n].current # 0
         /\ csv[n] \in SUBSET Versions
BY DEF IInv, TypeOK

-----------------------------------------------------------------------------
(* The steps of a pass, one by one. *)

PCs == {"idle", "service", "prepare", "migrate", "deleteSub", "deleteCsv", "sweep", "sweepCsv",
        "sweepDelete", "failedPlan", "ghost", "ghostCsv", "ghostStuck", "ghostPlan", "ghostSub",
        "patch", "apply", "create", "wait"}
Aims == {"deleteSub", "deleteCsv", "sweep", "sweepCsv", "sweepDelete",
         "ghostCsv", "ghostStuck", "ghostPlan", "ghostSub"}

\* The locals of a pass.
LEMMA AgentTyped ==
  ASSUME IInv
  PROVE  /\ agent \in Passes /\ agent.pc \in PCs /\ agent.left \in SUBSET Old /\ agent.ns \in NS
         /\ agent.csv \in 0..Latest /\ agent.listed \in SUBSET Versions
         /\ agent.read \in Subscriptions
BY DEF IInv, TypeOK, Passes, PCs

\* A pass goes on and keeps its other locals.
LEMMA Goes ==
  ASSUME IInv, NEW pc \in PCs, Go(pc)
  PROVE  AgentStep /\ agent'.pc = pc /\ agent'.ns = agent.ns
BY DEF IInv, TypeOK, Passes, PCs, Go, AgentStep

\* A pass ends, or its pod is replaced.
LEMMA PassEnds ==
  ASSUME agent' = NoPass
  PROVE  AgentStep /\ agent'.pc = "idle"
BY OlmAssumption, Nobody DEF OlmAssumption, NoPass, Passes, NS, AgentStep

\* A step that leaves the agent not about to delete anything.
LEMMA NoAim == ASSUME agent'.pc \notin Aims PROVE Targets'
BY DEF Targets, Aims

\* A pass changes nothing of the environment's.
LEMMA PassTogether ==
  ASSUME IInv, AgentUnchanged, Fault \/ Succeed, SubStep, CsvStep,
         group' \in BOOLEAN, webhook' \in BOOLEAN, service' \in BOOLEAN,
         AgentStep, Targets'
  PROVE  IInv'
<1>1. ReadyStep /\ WantStep
  BY OlmFrames DEF AgentUnchanged
<1>2. BoundsStep
  BY OlmBounds DEF AgentUnchanged
<1>3. argo' \in BOOLEAN
  BY SwitchFrame DEF AgentUnchanged
<1>4. SwitchStep
  BY <1>3 DEF SwitchStep
<1> QED BY <1>1, <1>2, <1>4, OlmTogether DEF IInv

\* The steps that write neither a Subscription nor a ClusterServiceVersion.
LEMMA QuietStep ==
  ASSUME IInv, AgentUnchanged, Fault \/ Succeed, UNCHANGED <<sub, csv>>,
         group' \in BOOLEAN, webhook' \in BOOLEAN, service' \in BOOLEAN,
         AgentStep, Targets'
  PROVE  IInv' /\ Kept
<1>1. SubStep /\ CsvStep /\ Kept
  BY OlmFrames
<1> QED BY <1>1, PassTogether

\* The steps of a pass that write neither a Subscription nor a ClusterServiceVersion.
LEMMA OlmQuiet ==
  ASSUME IInv,
         \/ StartPass \/ DeleteDefaultService \/ Prepare \/ SweepList \/ SweepEnd \/ MigrateEnd
         \/ PatchWebhook \/ Await
  PROVE  IInv' /\ Kept
<1>1. CASE StartPass
  <2>1. AgentStep /\ agent'.pc = "service"
    BY <1>1, OlmAssumption, Nobody DEF StartPass, NoPass, Passes, NS, AgentStep, OlmAssumption
  <2>2. Targets'
    BY <2>1, NoAim DEF Aims
  <2> QED BY <1>1, <2>1, <2>2, QuietStep, SwitchFrame DEF StartPass, Succeed
<1>2. CASE DeleteDefaultService
  <2>1. Go("prepare") /\ (Fault \/ Succeed)
    BY <1>2 DEF DeleteDefaultService, Continue
  <2>2. AgentStep /\ agent'.pc = "prepare"
    BY <2>1, Goes DEF PCs
  <2>3. Targets'
    BY <2>2, NoAim DEF Aims
  <2>4. service' = (service /\ ~Stale) \/ service' = service
    BY <1>2, Zenon DEF DeleteDefaultService
  <2>5. service' \in BOOLEAN
    BY <2>4, SwitchFrame, Zenon
  <2> QED BY <1>2, <2>1, <2>2, <2>3, <2>5, QuietStep, SwitchFrame DEF DeleteDefaultService
<1>3. CASE Prepare
  <2>1. AgentStep /\ agent'.pc \in {"migrate", "idle"}
    <3>1. CASE agent' = NoPass
      BY <3>1, PassEnds
    <3>2. CASE agent' = [agent EXCEPT !.pc = "migrate", !.left = Old]
      BY <3>2, AgentTyped DEF Passes, AgentStep
    <3> QED BY <1>3, <3>1, <3>2 DEF Prepare, PassFails
  <2>2. Targets'
    BY <2>1, NoAim DEF Aims
  <2>3. group' = TRUE \/ group' = group
    BY <1>3, Zenon DEF Prepare
  <2>4. group' \in BOOLEAN
    BY <2>3, SwitchFrame, Zenon
  <2> QED BY <1>3, <2>1, <2>2, <2>4, QuietStep, SwitchFrame DEF Prepare, PassFails
<1>4. CASE SweepList
  <2>1. AgentStep /\ agent'.ns = agent.ns /\ agent'.pc \in {"sweepCsv", "migrate"}
    <3>1. CASE Go("migrate")
      BY <3>1, Goes DEF PCs
    <3>2. CASE agent' = [agent EXCEPT !.pc = "sweepCsv", !.listed = csv[agent.ns]]
      <4>1. csv[agent.ns] \in SUBSET Versions
        BY AgentTyped, SubsTyped
      <4> QED BY <3>2, <4>1, AgentTyped DEF Passes, AgentStep
    <3> QED BY <1>4, <3>1, <3>2 DEF SweepList, Continue
  <2>2. Targets'
    BY <1>4, <2>1 DEF SweepList, IInv, Targets, Users
  <2> QED BY <1>4, <2>1, <2>2, QuietStep, SwitchFrame DEF SweepList, Continue
<1>5. CASE SweepEnd
  <2>1. AgentStep /\ agent'.pc = "migrate"
    BY <1>5, Goes DEF SweepEnd, PCs
  <2>2. Targets'
    BY <2>1, NoAim DEF Aims
  <2> QED BY <1>5, <2>1, <2>2, QuietStep, SwitchFrame DEF SweepEnd, Succeed
<1>6. CASE MigrateEnd
  <2>1. AgentStep /\ agent'.pc = "failedPlan"
    BY <1>6, AgentTyped DEF MigrateEnd, Passes, NS, AgentStep
  <2>2. Targets'
    BY <2>1, NoAim DEF Aims
  <2> QED BY <1>6, <2>1, <2>2, QuietStep, SwitchFrame DEF MigrateEnd, Succeed
<1>7. CASE PatchWebhook
  <2>1. AgentStep /\ agent'.pc = "apply"
    BY <1>7, Goes DEF PatchWebhook, PCs
  <2>2. Targets'
    BY <2>1, NoAim DEF Aims
  <2>3. webhook' = (webhook /\ ~NeedsUpdate) \/ webhook' = FALSE \/ webhook' = webhook
    BY <1>7, Zenon DEF PatchWebhook
  <2>4. webhook' \in BOOLEAN
    BY <2>3, SwitchFrame, Zenon
  <2> QED BY <1>7, <2>1, <2>2, <2>4, QuietStep, SwitchFrame DEF PatchWebhook
<1>8. CASE Await
  <2>1. AgentStep /\ agent'.pc = "idle"
    BY <1>8, PassEnds DEF Await
  <2>2. Targets'
    BY <2>1, NoAim DEF Aims
  <2> QED BY <1>8, <2>1, <2>2, QuietStep, SwitchFrame DEF Await, Succeed
<1> QED BY <1>1, <1>2, <1>3, <1>4, <1>5, <1>6, <1>7, <1>8

\* The steps that write one Subscription, none of a user's.
LEMMA SubWriteStep ==
  ASSUME IInv, AgentUnchanged, Fault \/ Succeed, UNCHANGED <<csv, webhook, group, service>>,
         AgentStep, Targets',
         NEW n \in NS, ~Users(n), NEW s \in Subscriptions,
         s.plan = "pending" => s.current # 0, s.owner # "user",
         UNCHANGED sub \/ sub' = [sub EXCEPT ![n] = s]
  PROVE  IInv' /\ Kept
<1>1. SubStep
  BY SubWritten, OlmFrames
<1>2. CsvStep
  BY OlmFrames
<1>3. Kept
  BY KeptElsewhere, OlmFrames
<1> QED BY <1>1, <1>2, <1>3, PassTogether, SwitchFrame

\* The plan of a Subscription is deleted: everything else of it stays.
LEMMA PlanDeleted ==
  ASSUME IInv, NEW n \in NS
  PROVE  /\ [sub EXCEPT ![n].plan = "deleted"] = [sub EXCEPT ![n] = [sub[n] EXCEPT !.plan = "deleted"]]
         /\ [sub[n] EXCEPT !.plan = "deleted"] \in Subscriptions
         /\ [sub[n] EXCEPT !.plan = "deleted"].owner = sub[n].owner
         /\ [sub[n] EXCEPT !.plan = "deleted"].plan # "pending"
BY SubsTyped DEF IInv, TypeOK, Subscriptions, Plans

\* The namespaces are the target and the old ones.
LEMMA TargetIsOne == Target \in NS /\ Old \subseteq NS
BY DEF NS

\* What the read decides: only what is the agent's own is deleted.
LEMMA OlmMigrateRead ==
  ASSUME IInv, NEW n \in Old, MigrateRead(n)
  PROVE  IInv' /\ Kept
<1>1. CASE agent' = [agent EXCEPT !.left = @ \ {n}]
  <2>1. AgentStep /\ agent'.pc = "migrate"
    BY <1>1, AgentTyped DEF MigrateRead, Passes, AgentStep
  <2>2. Targets'
    BY <2>1, NoAim DEF Aims
  <2> QED BY <2>1, <2>2, QuietStep, SwitchFrame DEF MigrateRead
<1>2. CASE agent' = [agent EXCEPT !.left = @ \ {n}, !.ns = n, !.pc = MigrateTo(n),
                                  !.csv = IF Ours(n) THEN sub[n].installed ELSE 0]
  <2>1. MigrateTo(n) \in PCs /\ (MigrateTo(n) \in Aims => ~Users(n))
                                    /\ MigrateTo(n) \in {"deleteSub", "sweep", "migrate"}
    BY DEF MigrateTo, PCs, Aims, Ours, Exists, Users
  <2>2. (IF Ours(n) THEN sub[n].installed ELSE 0) \in 0..Latest
    BY TargetIsOne, SubsTyped, OlmAssumption DEF Subscriptions, OlmAssumption
  <2>3. AgentStep /\ agent'.pc = MigrateTo(n) /\ agent'.ns = n
    BY <1>2, <2>1, <2>2, AgentTyped, TargetIsOne DEF Passes, PCs, AgentStep
  <2>4. Targets'
    BY <2>1, <2>3 DEF Targets, Aims, Users, MigrateRead
  <2> QED BY <2>3, <2>4, QuietStep, SwitchFrame DEF MigrateRead
<1> QED BY <1>1, <1>2 DEF MigrateRead

\* A pass goes on and forgets the version it was to delete.
LEMMA CsvForgotten ==
  ASSUME IInv, NEW pc \in PCs, agent' = [agent EXCEPT !.pc = pc, !.csv = 0]
  PROVE  AgentStep /\ agent'.ns = agent.ns /\ agent'.pc = pc
<1>1. 0 \in 0..Latest
  BY OlmAssumption DEF OlmAssumption
<1>2. agent \in Passes
  BY AgentTyped
<1> QED BY <1>1, <1>2 DEF Passes, PCs, AgentStep

\* migrateSubscriptionFromNamespace deletes the Subscription it has read as the agent's.
LEMMA OlmMigrateDeleteSub == IInv /\ MigrateDeleteSub => IInv' /\ Kept
<1> SUFFICES ASSUME IInv, MigrateDeleteSub PROVE IInv' /\ Kept
  OBVIOUS
<1>1. agent.ns \in NS /\ ~Users(agent.ns)
  BY AgentTyped DEF MigrateDeleteSub, IInv, Targets
<1>2. AgentStep /\ agent'.ns = agent.ns /\ agent'.pc \in {"sweep", "deleteCsv", "migrate"}
  <2>1. CASE agent' = [agent EXCEPT !.pc = "migrate", !.csv = 0]
    BY <2>1, CsvForgotten DEF PCs
  <2>2. CASE Go(IF agent.csv = 0 THEN "sweep" ELSE "deleteCsv")
    BY <2>2, Goes DEF PCs
  <2> QED BY <2>1, <2>2 DEF MigrateDeleteSub
<1>3. UNCHANGED sub \/ sub' = [sub EXCEPT ![agent.ns] = NoSub]
  BY DEF MigrateDeleteSub
<1>4. ~Users(agent.ns)'
  <2>1. sub'[agent.ns].owner # "user"
    BY <1>1, <1>3, Nobody DEF IInv, TypeOK, Users
  <2> QED BY <1>2, <2>1 DEF Users
<1>5. Targets'
  BY <1>2, <1>4 DEF Targets, Users
<1> QED BY <1>1, <1>2, <1>3, <1>5, Nobody, SubWriteStep DEF MigrateDeleteSub

\* The steps that remove ClusterServiceVersions from one namespace.
LEMMA CsvWriteStep ==
  ASSUME IInv, AgentUnchanged, Fault \/ Succeed, UNCHANGED <<sub, webhook, group, service>>,
         AgentStep, Targets',
         NEW n \in NS, NEW v,
         Users(n) => v \notin {sub[n].installed, sub[n].current},
         UNCHANGED csv \/ csv' = [csv EXCEPT ![n] = @ \ {v}]
  PROVE  IInv' /\ Kept
<1>1. SubStep
  BY OlmFrames
<1>2. CsvStep
  BY SubsTyped DEF IInv, TypeOK, CsvStep
<1>3. Kept
  BY DEF IInv, TypeOK, Users, Kept
<1> QED BY <1>1, <1>2, <1>3, PassTogether, SwitchFrame

\* It deletes the version of that Subscription, in a namespace that has no user's.
LEMMA OlmMigrateDeleteCsv == IInv /\ MigrateDeleteCsv => IInv' /\ Kept
<1> SUFFICES ASSUME IInv, MigrateDeleteCsv PROVE IInv' /\ Kept
  OBVIOUS
<1>1. agent.ns \in NS /\ ~Users(agent.ns)
  BY AgentTyped DEF MigrateDeleteCsv, IInv, Targets
<1>2. AgentStep /\ agent'.pc = "sweep" /\ agent'.ns = agent.ns
  BY CsvForgotten DEF MigrateDeleteCsv, PCs
<1>3. Targets'
  BY <1>1, <1>2 DEF MigrateDeleteCsv, Targets, Users
<1> QED BY <1>1, <1>2, <1>3, CsvWriteStep DEF MigrateDeleteCsv

\* deleteRemainingGitOpsCSVs looks for Subscriptions that name a version, and goes on.
LEMMA OlmSweepCsv ==
  ASSUME IInv, NEW v \in Versions, SweepCsv(v)
  PROVE  IInv' /\ Kept
<1>1. AgentStep /\ agent'.pc \in {"sweepCsv", "sweepDelete"} /\ agent'.ns = agent.ns
  <2>1. v \in 0..Latest
    BY OlmAssumption DEF Versions, OlmAssumption
  <2>2. CASE agent' = [agent EXCEPT !.listed = @ \ {v}]
    BY <2>2, AgentTyped DEF SweepCsv, Passes, AgentStep
  <2>3. CASE agent' = [agent EXCEPT !.listed = @ \ {v}, !.pc = "sweepDelete", !.csv = v]
    BY <2>1, <2>3, AgentTyped DEF SweepCsv, Passes, AgentStep
  <2> QED BY <2>2, <2>3 DEF SweepCsv
<1>2. Targets'
  BY <1>1 DEF SweepCsv, IInv, Targets, Users
<1> QED BY <1>1, <1>2, QuietStep, SwitchFrame DEF SweepCsv

\* It deletes what none named, in a namespace that has no user's Subscription.
LEMMA OlmSweepDelete == IInv /\ SweepDelete => IInv' /\ Kept
<1> SUFFICES ASSUME IInv, SweepDelete PROVE IInv' /\ Kept
  OBVIOUS
<1>1. agent.ns \in NS /\ ~Users(agent.ns)
  BY AgentTyped DEF SweepDelete, IInv, Targets
<1>2. AgentStep /\ agent'.pc = "sweepCsv" /\ agent'.ns = agent.ns
  BY CsvForgotten DEF SweepDelete, PCs
<1>3. Targets'
  BY <1>1, <1>2 DEF SweepDelete, Targets, Users
<1> QED BY <1>1, <1>2, <1>3, CsvWriteStep DEF SweepDelete

\* The look for ghosts ends.
LEMMA GhostEnds ==
  ASSUME IInv, NoGhost
  PROVE  AgentStep /\ agent'.pc = "patch"
<1>1. agent \in Passes
  BY AgentTyped
<1> QED BY <1>1, Nobody DEF NoGhost, Passes, AgentStep

\* The recoveries delete the InstallPlan, or the Subscription, of the agent only.
LEMMA OlmRecover ==
  ASSUME IInv,
         \/ RecoverFailedPlan \/ RecoverGhostRead \/ RecoverGhostCsv \/ RecoverGhostStuck
         \/ RecoverGhostPlan \/ RecoverGhostSub
  PROVE  IInv' /\ Kept
<1>1. CASE RecoverFailedPlan
  <2>1. AgentStep /\ agent'.pc = "ghost"
    BY <1>1, Goes DEF RecoverFailedPlan, PCs
  <2>2. Targets'
    BY <2>1, NoAim DEF Aims
  <2>3. CASE UNCHANGED sub
    BY <1>1, <2>1, <2>2, <2>3, QuietStep, SwitchFrame DEF RecoverFailedPlan
  <2>4. CASE Ours(Target) /\ sub' = [sub EXCEPT ![Target].plan = "deleted"]
    <3> DEFINE s == [sub[Target] EXCEPT !.plan = "deleted"]
    <3>1. sub' = [sub EXCEPT ![Target] = s] /\ s \in Subscriptions /\ s.plan # "pending"
          /\ s.owner = sub[Target].owner
      BY <2>4, PlanDeleted, TargetIsOne, Zenon
    <3>2. ~Users(Target) /\ s.owner # "user"
      BY <2>4, <3>1 DEF Ours, Users
    <3> HIDE DEF s
    <3> QED BY <1>1, <2>1, <2>2, <3>1, <3>2, TargetIsOne, SubWriteStep DEF RecoverFailedPlan
  <2> QED BY <1>1, <2>3, <2>4 DEF RecoverFailedPlan
<1>2. CASE RecoverGhostRead
  <2>1. AgentStep /\ (agent'.pc = "patch" \/ (agent'.pc = "ghostCsv" /\ Ours(Target)))
    <3>1. CASE NoGhost
      BY <3>1, GhostEnds
    <3>2. CASE Ours(Target) /\ agent' = [agent EXCEPT !.pc = "ghostCsv", !.read = sub[Target]]
      <4>1. sub[Target] \in Subscriptions
        BY SubsTyped, TargetIsOne
      <4>2. agent \in Passes
        BY AgentTyped
      <4> QED BY <3>2, <4>1, <4>2 DEF Passes, AgentStep
    <3> QED BY <1>2, <3>1, <3>2 DEF RecoverGhostRead
  <2>2. Targets'
    BY <1>2, <2>1 DEF Targets, Ours, Users, RecoverGhostRead
  <2> QED BY <1>2, <2>1, <2>2, QuietStep, SwitchFrame DEF RecoverGhostRead
<1>5. CASE RecoverGhostCsv
  <2>1. AgentStep /\ agent'.pc \in {"patch", "ghostStuck"}
    BY <1>5, Goes, GhostEnds DEF RecoverGhostCsv, PCs
  <2>2. Targets'
    BY <1>5, <2>1 DEF IInv, Targets, Users, RecoverGhostCsv
  <2> QED BY <1>5, <2>1, <2>2, QuietStep, SwitchFrame DEF RecoverGhostCsv
<1>6. CASE RecoverGhostStuck
  <2>1. NoGhost \/ Go("ghostPlan") \/ Go("ghostSub")
    BY <1>6 DEF RecoverGhostStuck
  <2>2. AgentStep /\ agent'.pc \in {"patch", "ghostPlan", "ghostSub"}
    BY <2>1, Goes, GhostEnds DEF PCs
  <2>3. Targets'
    BY <1>6, <2>2 DEF IInv, Targets, Users, RecoverGhostStuck
  <2> QED BY <1>6, <2>2, <2>3, QuietStep, SwitchFrame DEF RecoverGhostStuck
<1>3. CASE RecoverGhostPlan
  <2>1. AgentStep /\ agent'.pc = "ghostSub"
    BY <1>3, Goes DEF RecoverGhostPlan, PCs
  <2>2. ~Users(Target)
    BY <1>3 DEF RecoverGhostPlan, IInv, Targets
  <2>3. CASE UNCHANGED sub
    <3>1. Targets'
      BY <2>1, <2>2, <2>3 DEF Targets, Users
    <3> QED BY <1>3, <2>1, <2>3, <3>1, QuietStep, SwitchFrame DEF RecoverGhostPlan
  <2>4. CASE sub' = [sub EXCEPT ![Target].plan = "deleted"]
    <3> DEFINE s == [sub[Target] EXCEPT !.plan = "deleted"]
    <3>1. sub' = [sub EXCEPT ![Target] = s] /\ s \in Subscriptions /\ s.plan # "pending"
          /\ s.owner = sub[Target].owner
      BY <2>4, PlanDeleted, TargetIsOne, Zenon
    <3>2. s.owner # "user"
      BY <2>2, <3>1 DEF Users
    <3> HIDE DEF s
    <3>3. sub'[Target] = s
      BY <3>1, TargetIsOne DEF IInv, TypeOK
    <3>4. Targets'
      BY <2>1, <3>2, <3>3 DEF Targets, Users
    <3> QED BY <1>3, <2>1, <2>2, <3>1, <3>2, <3>4, TargetIsOne, SubWriteStep DEF RecoverGhostPlan
  <2> QED BY <1>3, <2>3, <2>4 DEF RecoverGhostPlan
<1>4. CASE RecoverGhostSub
  <2>1. AgentStep /\ agent'.pc = "patch"
    BY <1>4, GhostEnds DEF RecoverGhostSub
  <2>2. Targets'
    BY <2>1, NoAim DEF Aims
  <2>3. ~Users(Target)
    BY <1>4 DEF RecoverGhostSub, IInv, Targets
  <2> QED BY <1>4, <2>1, <2>2, <2>3, Nobody, TargetIsOne, SubWriteStep DEF RecoverGhostSub
<1> QED BY <1>1, <1>2, <1>3, <1>4, <1>5, <1>6

\* What is replaced or changed is the agent's, and what is created replaces nothing.
LEMMA OlmApply ==
  ASSUME IInv, Apply \/ Create
  PROVE  IInv' /\ Kept
<1>1. AgentStep /\ agent'.pc \in {"create", "wait", "idle"}
  <2>1. CASE agent' = NoPass
    BY <2>1, PassEnds
  <2>2. CASE Go("create") \/ Go("wait")
    BY <2>2, Goes DEF PCs
  <2> QED BY <2>1, <2>2 DEF Apply, Create, PassFails
<1>2. Targets'
  BY <1>1, NoAim DEF Aims
<1>3. AgentUnchanged /\ (Fault \/ Succeed) /\ UNCHANGED <<csv, webhook, group, service>>
  BY DEF Apply, Create, PassFails
<1>4. CASE UNCHANGED sub
  BY <1>1, <1>2, <1>3, <1>4, QuietStep, SwitchFrame
<1>5. CASE Ours(Target) /\ sub' = [sub EXCEPT ![Target] = NoSub]
  <2>1. ~Users(Target)
    BY <1>5 DEF Ours, Users
  <2> QED BY <1>1, <1>2, <1>3, <1>5, <2>1, Nobody, TargetIsOne, SubWriteStep
<1>6. CASE Ours(Target) /\ sub' = [sub EXCEPT ![Target].spec = want]
  <2> DEFINE s == [sub[Target] EXCEPT !.spec = want]
  <2>1. sub[Target] \in Subscriptions /\ want \in Specs
        /\ (sub[Target].plan = "pending" => sub[Target].current # 0)
    BY SubsTyped, TargetIsOne DEF IInv, TypeOK
  <2>2. s \in Subscriptions /\ s.owner = sub[Target].owner /\ (s.plan = "pending" => s.current # 0)
    BY <2>1 DEF Subscriptions
  <2>3. ~Users(Target) /\ s.owner # "user"
    BY <1>6, <2>2 DEF Ours, Users
  <2>4. sub' = [sub EXCEPT ![Target] = s]
    BY <1>6
  <2> HIDE DEF s
  <2> QED BY <1>1, <1>2, <1>3, <2>2, <2>3, <2>4, TargetIsOne, SubWriteStep
<1>7. CASE ~Exists(Target) /\ sub' = [sub EXCEPT ![Target] = Sub("addon", want, "none", 0, 0)]
  <2> DEFINE s == Sub("addon", want, "none", 0, 0)
  <2>1. s \in Subscriptions /\ s.owner # "user" /\ s.plan # "pending"
    BY OlmAssumption DEF OlmAssumption, IInv, TypeOK, Sub, Subscriptions, Plans
  <2>2. ~Users(Target)
    BY <1>7 DEF Exists, Users
  <2> HIDE DEF s
  <2>3. sub' = [sub EXCEPT ![Target] = s]
    BY <1>7 DEF s
  <2> QED BY <1>1, <1>2, <1>3, <2>1, <2>2, <2>3, TargetIsOne, SubWriteStep
<1> QED BY <1>4, <1>5, <1>6, <1>7 DEF Apply, Create, Replaced, SpecChanged

\* Every step of a pass, and its end by a restart.
LEMMA OlmPass == IInv /\ (Pass \/ Restart) => IInv' /\ Kept
<1> SUFFICES ASSUME IInv, Pass \/ Restart PROVE IInv' /\ Kept
  OBVIOUS
<1>1. CASE Restart
  <2>1. AgentStep /\ agent'.pc = "idle"
    BY <1>1, PassEnds DEF Restart
  <2>2. Targets'
    BY <2>1, NoAim DEF Aims
  <2> QED BY <1>1, <2>1, <2>2, QuietStep, SwitchFrame DEF Restart
<1>2. CASE Pass
  BY <1>2, OlmQuiet, OlmMigrateRead, OlmMigrateDeleteSub, OlmMigrateDeleteCsv, OlmSweepCsv,
     OlmSweepDelete, OlmRecover, OlmApply DEF Pass
<1> QED BY <1>1, <1>2

-----------------------------------------------------------------------------
(* The steps of OLM, the operator, the catalog, the policy and the users. *)

\* They leave the agent alone, or replace its pod; and no Subscription becomes a user's.
LEMMA TargetsStay ==
  ASSUME IInv, SubStep, UNCHANGED agent \/ agent' = NoPass
  PROVE  AgentStep /\ Targets'
<1>1. CASE agent' = NoPass
  BY <1>1, PassEnds, NoAim DEF Aims
<1>2. CASE UNCHANGED agent
  <2>1. AgentStep /\ agent.ns \in NS /\ Target \in NS
    BY <1>2, OlmFrames, AgentTyped, TargetIsOne
  <2> QED BY <1>2, <2>1 DEF IInv, Targets, Users, SubStep, NoneBecomesUsers
<1> QED BY <1>1, <1>2

\* A step of the environment keeps the invariant if it keeps the types.
LEMMA EnvironmentTogether ==
  ASSUME IInv, UNCHANGED agent \/ agent' = NoPass, SubStep, CsvStep, SwitchStep, ReadyStep,
         WantStep, BoundsStep
  PROVE  IInv'
BY TargetsStay, OlmTogether DEF IInv

\* OLM writes the state of an InstallPlan, and the version it installs.
LEMMA OlmPlan ==
  ASSUME IInv, NEW n \in NS, Plan(n)
  PROVE  IInv'
<1>1. OlmUnchanged
  BY DEF Plan, Resolve, Execute, NoticeMissing
<1>2. UNCHANGED agent /\ WantStep /\ BoundsStep
  BY <1>1, OlmFrames DEF OlmUnchanged
<1>3. webhook' \in BOOLEAN
  <2>1. webhook' = webhook \/ webhook' = TRUE
    BY Zenon DEF Plan, Resolve, Execute, NoticeMissing
  <2> QED BY <2>1, SwitchFrame, Zenon
<1>4. SwitchStep
  BY <1>1, <1>3, SwitchFrame DEF OlmUnchanged, SwitchStep
<1>5. ReadyStep
  BY OlmFrames DEF Plan, Resolve, Execute, NoticeMissing
<1>6. /\ sub[n] \in Subscriptions /\ (sub[n].plan = "pending" => sub[n].current # 0)
      /\ csv[n] \in SUBSET Versions
  BY SubsTyped
<1>7. CsvStep
  <2>1. UNCHANGED csv \/ (sub[n].plan = "pending" /\ csv' = [csv EXCEPT ![n] = @ \cup {sub[n].current}])
    BY DEF Plan, Resolve, Execute, NoticeMissing
  <2>2. sub[n].plan = "pending" => sub[n].current \in Versions
    BY <1>6, OlmAssumption DEF OlmAssumption, Subscriptions, Versions
  <2> QED BY <1>6, <2>1, <2>2 DEF IInv, TypeOK, CsvStep
<1>8. PICK s : /\ sub' = [sub EXCEPT ![n] = s] /\ s \in Subscriptions /\ s.owner = sub[n].owner
               /\ (s.plan = "pending" => s.current # 0)
  <2>1. CASE sub' = [sub EXCEPT ![n].plan = "pending", ![n].current = latest]
    <3> DEFINE s == [sub[n] EXCEPT !.plan = "pending", !.current = latest]
    <3>1. latest \in 0..Latest /\ latest # 0
      BY OlmAssumption DEF OlmAssumption, IInv, TypeOK, Versions
    <3>2. s \in Subscriptions /\ s.owner = sub[n].owner /\ s.current # 0
      BY <1>6, <3>1 DEF Subscriptions, Plans
    <3>3. sub' = [sub EXCEPT ![n] = s]
      BY <2>1 DEF IInv, TypeOK
    <3> HIDE DEF s
    <3> QED BY <3>2, <3>3
  <2>2. ASSUME NEW i \in {sub[n].installed, sub[n].current},
               sub' = [sub EXCEPT ![n].plan = "complete", ![n].installed = i]
        PROVE  \E s : /\ sub' = [sub EXCEPT ![n] = s] /\ s \in Subscriptions
                      /\ s.owner = sub[n].owner /\ (s.plan = "pending" => s.current # 0)
    <3> DEFINE s == [sub[n] EXCEPT !.plan = "complete", !.installed = i]
    <3>1. s \in Subscriptions /\ s.owner = sub[n].owner /\ s.plan # "pending"
      BY <1>6 DEF Subscriptions, Plans
    <3>2. sub' = [sub EXCEPT ![n] = s]
      BY <2>2 DEF IInv, TypeOK
    <3> HIDE DEF s
    <3> QED BY <3>1, <3>2
  <2>3. ASSUME NEW p \in {"complete", "failed", "missing"}, sub' = [sub EXCEPT ![n].plan = p]
        PROVE  \E s : /\ sub' = [sub EXCEPT ![n] = s] /\ s \in Subscriptions
                      /\ s.owner = sub[n].owner /\ (s.plan = "pending" => s.current # 0)
    <3> DEFINE s == [sub[n] EXCEPT !.plan = p]
    <3>1. s \in Subscriptions /\ s.owner = sub[n].owner /\ s.plan # "pending"
      BY <1>6 DEF Subscriptions, Plans
    <3>2. sub' = [sub EXCEPT ![n] = s]
      BY <2>3 DEF IInv, TypeOK
    <3> HIDE DEF s
    <3> QED BY <3>1, <3>2
  <2>4. CASE Resolve(n)
    BY <2>1, <2>4 DEF Resolve
  <2>5. CASE Execute(n)
    BY <2>2, <2>3, <2>5 DEF Execute
  <2>6. CASE NoticeMissing(n)
    BY <2>3, <2>6 DEF NoticeMissing
  <2> QED BY <2>4, <2>5, <2>6 DEF Plan
<1>9. SubStep
  BY <1>8, SubWritten DEF Users
<1> QED BY <1>2, <1>4, <1>5, <1>7, <1>9, EnvironmentTogether

\* OLM has the status follow the version that is installed.
LEMMA OlmTrack ==
  ASSUME IInv, NEW n \in NS, Track(n)
  PROVE  IInv'
<1>1. sub[n] \in Subscriptions /\ (sub[n].plan = "pending" => sub[n].current # 0)
  BY SubsTyped
<1> DEFINE s == [sub[n] EXCEPT !.installed = sub[n].current]
<1>2. s \in Subscriptions /\ s.owner = sub[n].owner /\ (s.plan = "pending" => s.current # 0)
  BY <1>1 DEF Subscriptions
<1>3. sub' = [sub EXCEPT ![n] = s]
  BY DEF Track, IInv, TypeOK
<1> HIDE DEF s
<1>4. SubStep
  BY <1>2, <1>3, SubWritten DEF Users
<1>5. CsvStep
  <2>1. sub[n].current \in Versions
    BY SubsTyped DEF Track
  <2> QED BY <2>1 DEF Track, IInv, TypeOK, CsvStep
<1>6. SwitchStep
  BY SwitchFrame DEF Track, OlmUnchanged, SwitchStep
<1> QED BY <1>4, <1>5, <1>6, OlmFrames, EnvironmentTogether DEF Track, OlmUnchanged

\* A user removes something of the agent's.
LEMMA OlmUserRemoves ==
  ASSUME IInv, NEW n \in NS, UserRemoves(n)
  PROVE  IInv'
<1>1. SubStep
  <2>1. CASE UNCHANGED sub
    BY <2>1, OlmFrames
  <2>2. CASE sub' = [sub EXCEPT ![n] = NoSub]
    BY <2>2, Nobody, SubWritten
  <2>3. CASE sub' = [sub EXCEPT ![n].plan = "deleted"]
    <3> DEFINE s == [sub[n] EXCEPT !.plan = "deleted"]
    <3>1. sub' = [sub EXCEPT ![n] = s] /\ s \in Subscriptions /\ s.plan # "pending"
          /\ s.owner = sub[n].owner
      BY <2>3, PlanDeleted, Zenon
    <3> HIDE DEF s
    <3> QED BY <3>1, SubWritten DEF Users
  <2> QED BY <2>1, <2>2, <2>3 DEF UserRemoves
<1>2. CsvStep
  BY DEF UserRemoves, IInv, TypeOK, CsvStep
<1>3. SwitchStep
  BY SwitchFrame DEF UserRemoves, SwitchStep
<1>4. BoundsStep
  BY OlmBounds DEF UserRemoves
<1> QED BY <1>1, <1>2, <1>3, <1>4, OlmFrames, EnvironmentTogether DEF UserRemoves

\* Every step of OLM, the operator, the catalog, the policy and the users.
LEMMA OlmEnvironment == IInv /\ Environment => IInv'
<1> SUFFICES ASSUME IInv, Environment PROVE IInv'
  OBVIOUS
<1>1. CASE PolicyApplies
  <2>1. SwitchStep
    BY <1>1, SwitchFrame DEF PolicyApplies, olmVars, SwitchStep
  <2> QED BY <1>1, <2>1, OlmFrames, EnvironmentTogether DEF PolicyApplies, olmVars
<1>2. CASE CatalogMoves
  <2>1. SwitchStep
    BY <1>2, SwitchFrame DEF CatalogMoves, olmVars, SwitchStep
  <2>2. WantStep
    BY <1>2, OlmAssumption DEF OlmAssumption, CatalogMoves, IInv, TypeOK, Versions, WantStep
  <2>3. BoundsStep
    BY <1>2, OlmBounds DEF CatalogMoves
  <2> QED BY <1>2, <2>1, <2>2, <2>3, OlmFrames, EnvironmentTogether DEF CatalogMoves, olmVars
<1>3. CASE WantOther
  <2>1. SwitchStep
    BY <1>3, SwitchFrame DEF WantOther, olmVars, SwitchStep
  <2>2. WantStep
    BY <1>3 DEF WantOther, IInv, TypeOK, WantStep
  <2>3. BoundsStep
    BY <1>3, OlmBounds DEF WantOther
  <2> QED BY <1>3, <2>1, <2>2, <2>3, OlmFrames, EnvironmentTogether DEF WantOther, olmVars
<1>4. ASSUME NEW n \in NS, Plan(n) PROVE IInv'
  BY <1>4, OlmPlan
<1>5. ASSUME NEW n \in NS, Track(n) PROVE IInv'
  BY <1>5, OlmTrack
<1>6. ASSUME NEW n \in NS, Deploy(n) PROVE IInv'
  <2>1. ReadyStep
    BY <1>6 DEF Deploy, IInv, TypeOK, ReadyStep
  <2>2. webhook' \in BOOLEAN
    BY <1>6 DEF Deploy
  <2>3. SwitchStep
    BY <1>6, <2>2, SwitchFrame DEF Deploy, OlmUnchanged, SwitchStep
  <2> QED BY <1>6, <2>1, <2>3, OlmFrames, EnvironmentTogether DEF Deploy, OlmUnchanged
<1>7. ASSUME NEW n \in NS, DefaultService(n) PROVE IInv'
  <2>1. service' \in BOOLEAN
    BY <1>7 DEF DefaultService
  <2>2. SwitchStep
    BY <1>7, <2>1, SwitchFrame DEF DefaultService, olmVars, SwitchStep
  <2> QED BY <1>7, <2>2, OlmFrames, EnvironmentTogether DEF DefaultService, olmVars
<1>8. ASSUME NEW n \in NS, UserRemoves(n) PROVE IInv'
  BY <1>8, OlmUserRemoves
<1> QED BY <1>1, <1>2, <1>3, <1>4, <1>5, <1>6, <1>7, <1>8 DEF Environment

\* A replaced pod is not a step of the agent: what there is in the cluster stays.
LEMMA EnvironmentKeeps ==
  ASSUME Environment, agent' # agent
  PROVE  Kept
<1>1. WantOther
  BY DEF Environment, PolicyApplies, CatalogMoves, Plan, Resolve, Execute, NoticeMissing, Track,
         Deploy, DefaultService, UserRemoves, OlmUnchanged
<1> QED BY <1>1 DEF WantOther, olmVars, Kept

-----------------------------------------------------------------------------
\* Every step keeps the invariant, and one of the agent's spares what is a user's.
LEMMA OlmNext == IInv /\ [Next]_vars => IInv' /\ (agent' # agent => Kept)
<1> SUFFICES ASSUME IInv, [Next]_vars PROVE IInv' /\ (agent' # agent => Kept)
  OBVIOUS
<1>1. CASE Environment
  BY <1>1, OlmEnvironment, EnvironmentKeeps
<1>2. CASE Pass \/ Restart
  BY <1>2, OlmPass
<1>3. CASE UNCHANGED vars
  <2>1. SwitchStep
    BY <1>3, SwitchFrame DEF vars, olmVars, SwitchStep
  <2>2. IInv'
    BY <1>3, <2>1, OlmFrames, EnvironmentTogether DEF vars, olmVars
  <2> QED BY <1>3, <2>2 DEF vars
<1> QED BY <1>1, <1>2, <1>3 DEF Next

\* Between the read of a Subscription and its deletion, and the deletion of its CSV, the
\* namespace's Subscription is not a user's (migrateSubscriptionFromNamespace,
\* recoverFromGhostCompleteInstallPlan).
THEOREM OlmInvariant == Spec => []IInv
BY OlmInit, OlmNext, PTL DEF Spec

\* Subscriptions, ClusterServiceVersions and the locals of a pass have their types.
THEOREM OlmTypeCorrect == Spec => []TypeOK
<1>1. IInv => TypeOK
  BY DEF IInv
<1> QED BY <1>1, OlmInvariant, PTL

\* No step of the agent changes a user's Subscription or removes a ClusterServiceVersion it
\* installs: the migration out of the old namespaces, the sweep of orphaned versions and the
\* repair of ghosts stop at what carries no gitopsaddon label.
THEOREM OlmUsersKept == Spec => UsersKept
<1>1. IInv /\ [Next]_vars =>
      [agent' # agent => \A n \in NS : sub[n].owner = "user" =>
         /\ sub'[n] = sub[n]
         /\ csv[n] \cap {sub[n].installed, sub[n].current} \subseteq csv'[n]]_vars
  BY OlmNext DEF Kept
<1> QED BY <1>1, OlmInvariant, PTL DEF Spec, UsersKept
===============================================================================
