--------------------------- MODULE ClusterSecrets ---------------------------
(***************************************************************************)
(* The GitOpsCluster controller's registration of managed clusters with    *)
(* Argo CD: one worker that, for every request, lists the cluster secrets  *)
(* it owns, reconciles every GitOpsCluster (push, blank pull-model or      *)
(* agent mode) and finally deletes the secrets nobody claimed.  Every call *)
(* to the API server is a step of its own: users, the placement            *)
(* controller, the managed service accounts and the hub's other            *)
(* controllers act between two of them, each call may fail, and the pod    *)
(* may die.  All GitOpsClusters modelled here share one Argo CD namespace. *)
(***************************************************************************)
EXTENDS Naturals, FiniteSets

CONSTANTS
  Clusters,        \* managed cluster names
  GitOpsClusters,  \* GitOpsCluster resources
  Requests,        \* keys of the work queue; every key reconciles everything
  Specs,           \* the specs users give to a GitOpsCluster
  Churn,           \* the kinds of change the environment may make
  MaxChanges,      \* bound: changes made by the environment
  MaxFaults,       \* bound: failed API calls (other than the two lists below)
  MaxListFaults,   \* bound: failures of the two lists a pass starts with
  MaxCrashes       \* bound: crashes of the controller pod

ASSUME SpecsAssumption ==
  Specs \subseteq [mode : {"absent", "push", "blank", "agent"},
                   ref : {"msa", "custom"}, insecure : BOOLEAN]
ASSUME BoundsAssumption ==
  /\ MaxChanges \in Nat /\ MaxFaults \in Nat
  /\ MaxListFaults \in Nat /\ MaxCrashes \in Nat

VARIABLES
  present,       \* ManagedClusters that exist
  decisions,     \* the clusters the placement of a GitOpsCluster selects
  spec,          \* the spec of a GitOpsCluster, mode "absent" when deleted
  token,         \* version of a cluster's service account token, 0 if none
  access,        \* "proxy": the service CA exists; "direct": an API URL is known
  proxyService,  \* the cluster-proxy service exists
  longLived,     \* names of the long-lived secrets in the cluster's namespace
  refs,          \* <<c, server>> named by some Application's destination.server
  secrets,       \* the Argo CD namespace: secrets of a cluster, by name
  registered,    \* condition ClustersRegistered of a GitOpsCluster
  queue,         \* requests queued now or by RequeueAfter
  pc,            \* where the worker is
  req,           \* the request being reconciled
  orphans,       \* secrets listed when the pass began and not claimed since
  todo,          \* GitOpsClusters the pass has still to reconcile
  passFailed,    \* some GitOpsCluster of the pass returned an error
  plan,          \* what the pass knows of the GitOpsCluster it works on
  cluster,       \* the cluster being imported, or whose orphan is checked
  slot,          \* name of the secret being written or deleted as an orphan
  new,           \* the secret built for the cluster
  olds,          \* names of other secrets of the cluster found after the write
  old,           \* the one being removed
  absentInPass,  \* history: clusters that did not exist at some instant of the pass
  steadyRefs,    \* history: Application references that lasted the whole pass
  changes, faults, listFaults, crashes   \* consumption of the bounds

envVars    == <<present, decisions, spec, token, access, proxyService, longLived, refs>>
clusterPc  == <<slot, new, olds, old>>
passVars   == <<req, orphans, todo, passFailed>>
history    == <<absentInPass, steadyRefs>>
bounds     == <<changes, listFaults, crashes>>     \* all but faults
vars       == <<envVars, secrets, registered, queue, pc, passVars, plan, cluster,
                clusterPc, history, bounds, faults>>

(***************************************************************************)
(* Secrets.  The name of a secret of cluster c in the Argo CD namespace:   *)
(* "plain" is <c>-cluster-secret, "msa" <c>-application-manager-cluster-   *)
(* secret, "custom" the same with another service account, "agent"         *)
(* cluster-<c>, "user" any name a user picked.                             *)
(***************************************************************************)
Slots   == {"plain", "msa", "custom", "agent", "user"}
Sources == {"none", "proxy", "msa", "legacy", "blank", "agent", "user"}
Secret  == [src : Sources, token : Nat, typed : BOOLEAN]   \* typed: Argo CD sees it
Gone    == [src |-> "none", token |-> 0, typed |-> FALSE]

\* Label apps.open-cluster-management.io/acm-cluster: agent secrets do not have it.
Acm(s)  == s.src \in {"proxy", "msa", "legacy", "blank"}

ServerOf(s) == CASE s.src = "proxy" -> "proxyURL"
                 [] s.src = "blank" -> "dummyURL"
                 [] s.src = "agent" -> "agentURL"
                 [] OTHER           -> "apiURL"

\* GetAllManagedClusterSecretsInArgo: both labels are required.
GetAllManagedClusterSecretsInArgo ==
  {cs \in Clusters \X Slots : LET s == secrets[cs[1]][cs[2]] IN s.typed /\ Acm(s)}

\* GetAllNonAcmManagedClusterSecretsInArgo: clusters with a typed secret that
\* lacks the ACM label.
GetAllNonAcmManagedClusterSecretsInArgo ==
  {c \in Clusters : \E n \in Slots : secrets[c][n].typed /\ ~Acm(secrets[c][n])}

\* A failed API call consumes one of the faults.
Fault   == faults < MaxFaults /\ faults' = faults + 1
Succeed == UNCHANGED faults

\* A watch event enqueues a request, unless it is missed.
MayNotify == \/ \E r \in Requests : queue' = queue \cup {r}
             \/ UNCHANGED queue

-----------------------------------------------------------------------------
NoPlan == [g |-> "none", mode |-> "absent", ref |-> "msa", insecure |-> FALSE,
           all |-> {}, left |-> {}, nonAcm |-> {}, proxySeen |-> FALSE, failed |-> FALSE]

Init ==
  /\ present = Clusters
  /\ decisions = [g \in GitOpsClusters |-> Clusters]
  /\ spec \in [GitOpsClusters -> Specs]
  /\ token = [c \in Clusters |-> 1]
  /\ access = [c \in Clusters |-> {"proxy", "direct"}]
  /\ proxyService \in BOOLEAN
  /\ longLived \in {[c \in Clusters |-> {}], [c \in Clusters |-> {"plain"}],
                    [c \in Clusters |-> {"plain", "msa"}]}
  /\ refs = {}
  /\ secrets = [c \in Clusters |-> [n \in Slots |-> Gone]]
  /\ registered = [g \in GitOpsClusters |-> "Unknown"]
  /\ queue = Requests
  /\ pc = "idle" /\ req \in Requests /\ orphans = {} /\ todo = {} /\ passFailed = FALSE
  /\ plan = NoPlan /\ cluster \in Clusters
  /\ slot = "plain" /\ new = Gone /\ olds = {} /\ old = "plain"
  /\ absentInPass = {} /\ steadyRefs = {}
  /\ changes = 0 /\ faults = 0 /\ listFaults = 0 /\ crashes = 0

-----------------------------------------------------------------------------
(* The environment: users, placement, service accounts, the hub. *)

Change(kind) == kind \in Churn /\ changes < MaxChanges /\ changes' = changes + 1

EnvUnchanged == UNCHANGED <<registered, pc, passVars, plan, cluster, clusterPc,
                            faults, listFaults, crashes>>

\* The ManagedCluster is deleted, its namespace with it.
DeleteManagedCluster(c) ==
  /\ Change("cluster") /\ c \in present
  /\ present' = present \ {c}
  /\ token' = [token EXCEPT ![c] = 0] /\ longLived' = [longLived EXCEPT ![c] = {}]
  /\ absentInPass' = IF pc = "idle" THEN {} ELSE absentInPass \cup {c}
  /\ MayNotify
  /\ UNCHANGED <<decisions, spec, access, proxyService, refs, secrets, steadyRefs>>
  /\ EnvUnchanged

CreateManagedCluster(c) ==
  /\ Change("cluster") /\ c \notin present
  /\ present' = present \cup {c}
  /\ MayNotify
  /\ UNCHANGED <<decisions, spec, token, access, proxyService, longLived, refs,
                 secrets, history>>
  /\ EnvUnchanged

\* The placement selects or drops a cluster.
Decide(g, c) ==
  /\ Change("decision")
  /\ decisions' = [decisions EXCEPT ![g] = IF c \in @ THEN @ \ {c} ELSE @ \cup {c}]
  /\ MayNotify
  /\ UNCHANGED <<present, spec, token, access, proxyService, longLived, refs,
                 secrets, history>>
  /\ EnvUnchanged

\* A user creates, edits or deletes a GitOpsCluster.
EditGitOpsCluster(g, sp) ==
  /\ Change("spec") /\ sp # spec[g]
  /\ spec' = [spec EXCEPT ![g] = sp]
  /\ MayNotify
  /\ UNCHANGED <<present, decisions, token, access, proxyService, longLived, refs,
                 secrets, history>>
  /\ EnvUnchanged

\* The service account's token is issued or refreshed in place.
RotateToken(c) ==
  /\ Change("token") /\ c \in present
  /\ token' = [token EXCEPT ![c] = @ + 1]
  /\ MayNotify
  /\ UNCHANGED <<present, decisions, spec, access, proxyService, longLived, refs,
                 secrets, history>>
  /\ EnvUnchanged

\* Client config, service CA or proxy service come and go; the last two are not watched.
ChangeAccess(c) ==
  /\ Change("access")
  /\ \/ /\ \E a \in {"proxy", "direct"} :
             access' = [access EXCEPT ![c] = IF a \in @ THEN @ \ {a} ELSE @ \cup {a}]
        /\ UNCHANGED proxyService
     \/ proxyService' = ~proxyService /\ UNCHANGED access
  /\ MayNotify
  /\ UNCHANGED <<present, decisions, spec, token, longLived, refs, secrets, history>>
  /\ EnvUnchanged

\* An Application starts or stops naming a server URL of the cluster.
EditApplication(c, server) ==
  /\ Change("app")
  /\ IF <<c, server>> \in refs
       THEN refs' = refs \ {<<c, server>>} /\ steadyRefs' = steadyRefs \ {<<c, server>>}
       ELSE refs' = refs \cup {<<c, server>>} /\ UNCHANGED steadyRefs
  /\ UNCHANGED <<present, decisions, spec, token, access, proxyService, longLived,
                 secrets, queue, absentInPass>>
  /\ EnvUnchanged

\* A user registers the cluster by hand, or withdraws that registration.
EditUserSecret(c) ==
  /\ Change("user")
  /\ secrets' = [secrets EXCEPT ![c]["user"] =
                   IF @.src = "none" THEN [src |-> "user", token |-> 0, typed |-> TRUE]
                                     ELSE Gone]
  /\ MayNotify
  /\ UNCHANGED <<envVars, history>>
  /\ EnvUnchanged

Environment ==
  \/ \E c \in Clusters :
       \/ DeleteManagedCluster(c) \/ CreateManagedCluster(c)
       \/ RotateToken(c) \/ ChangeAccess(c) \/ EditUserSecret(c)
       \/ \E g \in GitOpsClusters : Decide(g, c)
       \/ \E server \in {"proxyURL", "apiURL", "dummyURL"} : EditApplication(c, server)
  \/ \E g \in GitOpsClusters, sp \in Specs : EditGitOpsCluster(g, sp)

-----------------------------------------------------------------------------
(* One pass of Reconcile. *)

\* What a pass that could not even list does about its next run: nothing.
AfterListFailure(r) == queue' = queue \ {r}

Begin(r) ==
  /\ pc = "idle" /\ r \in queue
  /\ queue' = queue \ {r} /\ req' = r
  /\ orphans' = GetAllManagedClusterSecretsInArgo
  /\ todo' = {g \in GitOpsClusters : spec[g].mode # "absent"}
  /\ passFailed' = FALSE
  /\ absentInPass' = Clusters \ present /\ steadyRefs' = refs
  /\ pc' = "next"
  /\ UNCHANGED <<envVars, secrets, registered, plan, cluster, clusterPc, bounds, faults>>

\* Either list fails: the request is dropped without a requeue.
BeginFails(r) ==
  /\ pc = "idle" /\ r \in queue
  /\ listFaults < MaxListFaults /\ listFaults' = listFaults + 1
  /\ AfterListFailure(r)
  /\ UNCHANGED <<envVars, secrets, registered, pc, passVars, plan, cluster, clusterPc,
                 history, changes, crashes, faults>>

\* The GitOpsCluster is read again; if it is gone it is skipped.
SkipGitOpsCluster(g) ==
  /\ pc = "next" /\ g \in todo /\ spec[g].mode = "absent"
  /\ todo' = todo \ {g}
  /\ UNCHANGED <<envVars, secrets, registered, queue, pc, req, orphans, passFailed, plan,
                 cluster, clusterPc, history, bounds, faults>>

\* Everything before the import fails at some point (validation, Argo CD not
\* verified, addon resources, ...), or GetManagedClusters cannot resolve one of
\* the selected clusters: nothing is imported for this GitOpsCluster.  When the
\* first status write finds the object changed or gone, that is no error.
StartFails(g) ==
  /\ pc = "next" /\ g \in todo /\ spec[g].mode # "absent"
  /\ \/ ~(decisions[g] \subseteq present) /\ Succeed /\ passFailed' = TRUE
     \/ Fault /\ passFailed' \in {TRUE, passFailed}
  /\ todo' = todo \ {g}
  /\ UNCHANGED <<envVars, secrets, registered, queue, pc, req, orphans, plan, cluster,
                 clusterPc, history, bounds>>

\* Spec and ManagedClusters are read once, for the whole import.
Start(g) ==
  /\ pc = "next" /\ g \in todo /\ spec[g].mode # "absent"
  /\ decisions[g] \subseteq present
  /\ todo' = todo \ {g}
  /\ plan' = [g |-> g, mode |-> spec[g].mode, ref |-> spec[g].ref,
              insecure |-> spec[g].insecure, all |-> decisions[g], left |-> decisions[g],
              nonAcm |-> {}, proxySeen |-> FALSE, failed |-> FALSE]
  /\ pc' = "import"
  /\ Succeed
  /\ UNCHANGED <<envVars, secrets, registered, queue, req, orphans, passFailed, cluster,
                 clusterPc, history, bounds>>

\* The import itself fails as a whole: the non-ACM secrets could not be listed,
\* or the agent's CA, server address or local-cluster secret is missing.
ImportFails ==
  /\ pc = "import" /\ Fault
  /\ registered' \in {registered, [registered EXCEPT ![plan.g] = "False"]}
  /\ passFailed' = TRUE
  /\ pc' = "next" /\ plan' = NoPlan
  /\ UNCHANGED <<envVars, secrets, queue, req, orphans, todo, cluster, clusterPc,
                 history, bounds>>

\* The user-made secrets and the proxy service are looked up once for all
\* clusters; a failed look-up of the proxy counts as "no proxy".
BeginImport ==
  /\ pc = "import"
  /\ \/ plan.mode = "agent" /\ Succeed /\ UNCHANGED plan
     \/ /\ plan.mode # "agent"
        /\ \E seen \in {proxyService, FALSE} :
             /\ IF seen = proxyService THEN Succeed ELSE Fault
             /\ plan' = [plan EXCEPT !.nonAcm = GetAllNonAcmManagedClusterSecretsInArgo,
                                     !.proxySeen = seen]
  /\ pc' = "pick"
  /\ UNCHANGED <<envVars, secrets, registered, queue, passVars, cluster, clusterPc, history,
                 bounds>>

\* saveClusterSecret keeps the cluster's default names off the orphan list.
SaveClusterSecret(c) == orphans' = orphans \ {<<c, "plain">>, <<c, "msa">>}

\* The sources usable for a cluster right now, in the order they are tried.
Usable(c) ==
  IF plan.mode = "blank" THEN {"blank"}
  ELSE {src \in {"proxy", "msa", "legacy"} :
          \/ /\ src = "proxy" /\ plan.proxySeen /\ ~plan.insecure
             /\ "proxy" \in access[c] /\ token[c] > 0
          \/ src = "msa" /\ "direct" \in access[c] /\ token[c] > 0
          \/ src = "legacy" /\ longLived[c] # {}}

Rank(src) == CASE src = "blank" -> 0 [] src = "proxy" -> 1 [] src = "msa" -> 2 [] OTHER -> 3

\* createClusterSecretWithFallback takes the first usable source; a failed read
\* makes it fall through to a later one.
Chosen(c, src) ==
  /\ src \in Usable(c)
  /\ IF \E better \in Usable(c) : Rank(better) < Rank(src) THEN Fault ELSE Succeed

\* [Mutant] A long-lived secret is given a name no other step knows.
SlotForUnknown(c, src) == IF src # "legacy" THEN plan.ref ELSE "longlived"

\* A long-lived secret keeps its name, the others carry the service account's.
SlotFor(c, src) ==
  IF src # "legacy" THEN plan.ref
  ELSE IF "plain" \in longLived[c] THEN "plain" ELSE "msa"

TokenFor(c, src) == IF src \in {"proxy", "msa"} THEN token[c] ELSE 0

\* The cluster cannot be imported: user-made secrets exist, or every option
\* fails.  The others are still imported.
PushSkips(c) ==
  /\ pc = "pick" /\ plan.mode \in {"push", "blank"} /\ c \in plan.left
  /\ IF c \in plan.nonAcm \/ Usable(c) = {} THEN Succeed ELSE plan.mode # "blank" /\ Fault
  /\ SaveClusterSecret(c)
  /\ plan' = [plan EXCEPT !.left = @ \ {c}, !.failed = TRUE]
  /\ UNCHANGED <<envVars, secrets, registered, queue, pc, req, todo, passFailed, cluster,
                 clusterPc, history, bounds>>

\* The secret is built, with the token as it is now.
PushBuild(c, src) ==
  /\ pc = "pick" /\ plan.mode \in {"push", "blank"} /\ c \in plan.left \ plan.nonAcm
  /\ Chosen(c, src)
  /\ cluster' = c /\ slot' = SlotFor(c, src)
  /\ new' = [src |-> src, token |-> TokenFor(c, src), typed |-> TRUE]
  /\ pc' = "write"
  /\ UNCHANGED <<envVars, secrets, registered, queue, passVars, plan, olds, old, history,
                 bounds>>

\* What an iteration knew of its cluster ends with it.
ForgetCluster == slot' = "plain" /\ new' = Gone /\ olds' = {} /\ old' = "plain"

\* It is created, or replaces the one of that name whatever its version.
PushWrite ==
  /\ pc = "write" /\ Succeed
  /\ secrets' = [secrets EXCEPT ![cluster][slot] = new]
  /\ pc' = "longlived"
  /\ UNCHANGED <<envVars, registered, queue, passVars, plan, cluster, clusterPc, history,
                 bounds>>

PushWriteFails ==
  /\ pc = "write" /\ Fault
  /\ SaveClusterSecret(cluster)
  /\ plan' = [plan EXCEPT !.left = @ \ {cluster}, !.failed = TRUE]
  /\ pc' = "pick" /\ ForgetCluster
  /\ UNCHANGED <<envVars, secrets, registered, queue, req, todo, passFailed, cluster,
                 history, bounds>>

\* cleanupOldClusterSecrets: service account based secrets make the long-lived
\* one unnecessary; a failed delete is only logged.
CleanupOldClusterSecrets ==
  /\ pc = "longlived"
  /\ \/ /\ new.src \in {"proxy", "msa"} /\ Succeed
        /\ longLived' = [longLived EXCEPT ![cluster] = @ \ {"plain"}]
     \/ new.src \notin {"proxy", "msa"} /\ Succeed /\ UNCHANGED longLived
     \/ new.src \in {"proxy", "msa"} /\ Fault /\ UNCHANGED longLived
  /\ pc' = "list"
  /\ UNCHANGED <<present, decisions, spec, token, access, proxyService, refs, secrets,
                 registered, queue, passVars, plan, cluster, clusterPc, history, bounds>>

-----------------------------------------------------------------------------
(* cleanupOldArgoClusterSecrets: remove the cluster's secrets of other names. *)

\* [Mutant] The list is filtered by the name of the new secret, so finds no other.
OtherNamesMissed(c, n) == {}

OtherNames(c, n) == {m \in Slots \ {n} : LET s == secrets[c][m] IN s.typed /\ Acm(s)}

ListOld ==
  /\ pc = "list"
  /\ \/ olds' = OtherNames(cluster, slot) /\ Succeed
     \/ olds' = {} /\ Fault
  /\ pc' = "old"
  /\ UNCHANGED <<envVars, secrets, registered, queue, passVars, plan, cluster, slot, new, old,
                 history, bounds>>

\* [Mutant] The comparison of the servers is inverted.
KeepsSameServerOnly(n) == /\ ServerOf(secrets[cluster][n]) = ServerOf(new)
                          /\ <<cluster, ServerOf(secrets[cluster][n])>> \in refs

\* A different server that an Application still names keeps the secret.
Keeps(n) == /\ ServerOf(secrets[cluster][n]) # ServerOf(new)
            /\ <<cluster, ServerOf(secrets[cluster][n])>> \in refs

\* When the Applications cannot be listed the secret counts as named.
KeepOld(n) ==
  /\ pc = "old" /\ n \in olds
  /\ \/ Keeps(n) /\ Succeed
     \/ ServerOf(secrets[cluster][n]) # ServerOf(new) /\ Fault
  /\ olds' = olds \ {n}
  /\ UNCHANGED <<envVars, secrets, registered, queue, pc, passVars, plan, cluster, slot, new,
                 old, history, bounds>>

CheckOld(n) ==
  /\ pc = "old" /\ n \in olds /\ ~Keeps(n)
  /\ olds' = olds \ {n} /\ old' = n
  /\ pc' = "delabel"
  /\ Succeed
  /\ UNCHANGED <<envVars, secrets, registered, queue, passVars, plan, cluster, slot, new,
                 history, bounds>>

\* Removing the Argo CD label looks like a deletion to the filtered watch.
Delabel ==
  /\ pc = "delabel"
  /\ \/ /\ Succeed
        /\ secrets' = [secrets EXCEPT ![cluster][old].typed = FALSE]
        /\ pc' = "delete" /\ MayNotify
     \/ Fault /\ pc' = "old" /\ UNCHANGED <<secrets, queue>>
  /\ UNCHANGED <<envVars, registered, passVars, plan, cluster, clusterPc, history, bounds>>

DeleteOld ==
  /\ pc = "delete"
  /\ \/ Succeed /\ secrets' = [secrets EXCEPT ![cluster][old] = Gone] /\ pc' = "old"
     \/ Fault /\ pc' = "relabel" /\ UNCHANGED secrets
  /\ UNCHANGED <<envVars, registered, queue, passVars, plan, cluster, clusterPc, history,
                 bounds>>

\* [Mutant] The relabelling patch is computed against the wrong base: no difference.
RelabelledFromWrongBase(s) == s

Relabelled(s) == [s EXCEPT !.typed = TRUE]

\* After a failed delete the label is put back, if that works.
Relabel ==
  /\ pc = "relabel"
  /\ \/ Succeed /\ secrets' = [secrets EXCEPT ![cluster][old] = Relabelled(@)]
     \/ Fault /\ UNCHANGED secrets
  /\ pc' = "old"
  /\ UNCHANGED <<envVars, registered, queue, passVars, plan, cluster, clusterPc, history,
                 bounds>>

\* The new secret is claimed.
FinishCluster ==
  /\ pc = "old" /\ olds = {}
  /\ orphans' = orphans \ {<<cluster, slot>>}
  /\ plan' = [plan EXCEPT !.left = @ \ {cluster}]
  /\ pc' = "pick" /\ ForgetCluster
  /\ UNCHANGED <<envVars, secrets, registered, queue, req, todo, passFailed, cluster,
                 history, bounds, faults>>

-----------------------------------------------------------------------------
(* CreateArgoCDAgentClusters, one cluster at a time. *)

\* The write changes certificate and password every time, and is seen by the
\* controller's own watch on Argo CD cluster secrets.
AgentEvent == MayNotify

AgentWrite(c) ==
  /\ pc = "pick" /\ plan.mode = "agent" /\ c \in plan.left
  /\ orphans' = orphans \ {<<c, "agent">>}
  /\ secrets' = [secrets EXCEPT ![c]["agent"] =
                   [src |-> "agent", token |-> 0, typed |-> TRUE]]
  /\ cluster' = c
  /\ plan' = [plan EXCEPT !.left = @ \ {c}]
  /\ pc' = "blank"
  /\ AgentEvent
  /\ Succeed
  /\ UNCHANGED <<envVars, registered, req, todo, passFailed, clusterPc, history, bounds>>

\* A cluster whose secret could not be made is logged and passed over.
AgentSkips(c) ==
  /\ pc = "pick" /\ plan.mode = "agent" /\ c \in plan.left
  /\ Fault
  /\ orphans' = orphans \ {<<c, "agent">>}
  /\ plan' = [plan EXCEPT !.left = @ \ {c}]
  /\ UNCHANGED <<envVars, secrets, registered, queue, pc, req, todo, passFailed, cluster,
                 clusterPc, history, bounds>>

\* [Mutant] Only the traditional name is considered.
BlankNamesPlainOnly(c) ==
  {n \in {"plain"} : secrets[c][n].src = "blank" /\ secrets[c][n].typed}

\* deleteBlankClusterSecretsForCluster stops at the first delete that fails.
BlankNames(c) == {n \in Slots : secrets[c][n].src = "blank" /\ secrets[c][n].typed}

DeleteBlankClusterSecrets ==
  /\ pc = "blank"
  /\ \E done \in SUBSET BlankNames(cluster) :
       /\ IF done = BlankNames(cluster) THEN Succeed ELSE Fault
       /\ secrets' = [secrets EXCEPT ![cluster] =
                        [n \in Slots |-> IF n \in done THEN Gone ELSE @[n]]]
       /\ IF done = {} THEN UNCHANGED queue ELSE MayNotify
  /\ pc' = "pick"
  /\ UNCHANGED <<envVars, registered, passVars, plan, cluster, clusterPc, history, bounds>>

\* [Mutant] The error of an import is lost.
OutcomeLost == "True"

\* The outcome is written to the status; a failed status write leaves the old one.
Outcome == IF plan.failed THEN "False" ELSE "True"

FinishGitOpsCluster ==
  /\ pc = "pick" /\ plan.left = {}
  /\ \/ /\ Succeed /\ registered' = [registered EXCEPT ![plan.g] = Outcome]
        /\ passFailed' = (passFailed \/ plan.failed)
     \/ Fault /\ UNCHANGED registered /\ passFailed' = TRUE
  /\ pc' = "next" /\ plan' = NoPlan
  /\ UNCHANGED <<envVars, secrets, queue, req, orphans, todo, cluster, clusterPc,
                 history, bounds>>

-----------------------------------------------------------------------------
(* cleanupOrphanSecrets, and the end of the pass. *)

BeginCleanup ==
  /\ pc = "next" /\ todo = {}
  /\ pc' = "orphans"
  /\ UNCHANGED <<envVars, secrets, registered, queue, passVars, plan, cluster, clusterPc,
                 history, bounds, faults>>

\* [Mutant] Whatever was not claimed is deleted.
DeletableIfUnclaimed(c) == TRUE

\* Only a cluster whose ManagedCluster is gone loses its secret.
Deletable(c) == c \notin present

\* The secret or the ManagedCluster could not be read, or the cluster exists.
KeepOrphan(c, n) ==
  /\ pc = "orphans" /\ <<c, n>> \in orphans
  /\ IF secrets[c][n].src = "none" \/ ~Deletable(c) THEN Succeed ELSE Fault
  /\ orphans' = orphans \ {<<c, n>>}
  /\ UNCHANGED <<envVars, secrets, registered, queue, pc, req, todo, passFailed, plan,
                 cluster, clusterPc, history, bounds>>

CheckOrphan(c, n) ==
  /\ pc = "orphans" /\ <<c, n>> \in orphans
  /\ secrets[c][n].src # "none" /\ Deletable(c)
  /\ orphans' = orphans \ {<<c, n>>}
  /\ cluster' = c /\ slot' = n
  /\ pc' = "orphan"
  /\ UNCHANGED <<envVars, secrets, registered, queue, req, todo, passFailed, plan, new, olds,
                 old, history, bounds, faults>>

DeleteOrphan ==
  /\ pc = "orphan"
  /\ \/ /\ Succeed /\ MayNotify
        /\ secrets' = [secrets EXCEPT ![cluster][slot] = Gone]
     \/ Fault /\ UNCHANGED <<secrets, queue>>
  /\ pc' = "orphans" /\ ForgetCluster
  /\ UNCHANGED <<envVars, registered, passVars, plan, cluster, history, bounds>>

\* [Mutant] A pass without error does not come back.
AfterPassOnlyOnError == queue' = IF passFailed THEN queue \cup {req} ELSE queue

\* Failed or not, the request comes back: after 5 minutes, 10, or the interval of
\* the failing GitOpsCluster.
AfterPass == queue' = queue \cup {req}

EndPass ==
  /\ pc = "orphans" /\ orphans = {}
  /\ AfterPass
  /\ pc' = "idle" /\ passFailed' = FALSE
  /\ absentInPass' = {} /\ steadyRefs' = {}
  /\ UNCHANGED <<envVars, secrets, registered, req, orphans, todo, plan, cluster, clusterPc,
                 bounds, faults>>

\* The pod dies and comes back; its informers enqueue every object.
Crash ==
  /\ crashes < MaxCrashes /\ crashes' = crashes + 1
  /\ pc' = "idle" /\ queue' = Requests /\ plan' = NoPlan /\ ForgetCluster
  /\ orphans' = {} /\ todo' = {} /\ passFailed' = FALSE
  /\ absentInPass' = {} /\ steadyRefs' = {}
  /\ UNCHANGED <<envVars, secrets, registered, req, cluster, changes, listFaults, faults>>

Reconcile ==
  \/ \E r \in Requests : Begin(r) \/ BeginFails(r)
  \/ \E g \in GitOpsClusters : SkipGitOpsCluster(g) \/ StartFails(g) \/ Start(g)
  \/ ImportFails \/ BeginImport
  \/ \E c \in Clusters :
       \/ PushSkips(c) \/ \E src \in Sources : PushBuild(c, src)
       \/ AgentWrite(c) \/ AgentSkips(c)
       \/ \E n \in Slots : KeepOrphan(c, n) \/ CheckOrphan(c, n)
  \/ PushWrite \/ PushWriteFails \/ CleanupOldClusterSecrets
  \/ ListOld \/ (\E n \in Slots : KeepOld(n) \/ CheckOld(n))
  \/ Delabel \/ DeleteOld \/ Relabel \/ FinishCluster
  \/ DeleteBlankClusterSecrets \/ FinishGitOpsCluster
  \/ BeginCleanup \/ DeleteOrphan \/ EndPass

Next == Environment \/ Reconcile \/ Crash

Spec == Init /\ [][Next]_vars

\* The worker keeps working and its timers fire; nothing is promised of users,
\* faults or crashes, whose number is bounded.
FairSpec == Spec /\ WF_vars(Reconcile)

-----------------------------------------------------------------------------
(* Properties. *)

ImportPCs == {"import", "pick", "write", "longlived", "list", "old", "delabel", "delete",
              "relabel", "blank"}
PCs == ImportPCs \cup {"idle", "next", "orphans", "orphan"}

Plan == [g : GitOpsClusters \cup {"none"}, mode : {"absent", "push", "blank", "agent"},
         ref : {"msa", "custom"}, insecure : BOOLEAN, all : SUBSET Clusters,
         left : SUBSET Clusters, nonAcm : SUBSET Clusters, proxySeen : BOOLEAN,
         failed : BOOLEAN]

\* The variables have their types (one invariant for the whole module).
TypeOK ==
  /\ present \subseteq Clusters
  /\ decisions \in [GitOpsClusters -> SUBSET Clusters]
  /\ spec \in [GitOpsClusters -> Specs]
  /\ token \in [Clusters -> Nat]
  /\ access \in [Clusters -> SUBSET {"proxy", "direct"}]
  /\ proxyService \in BOOLEAN
  /\ longLived \in [Clusters -> SUBSET {"plain", "msa"}]
  /\ refs \subseteq Clusters \X {"proxyURL", "apiURL", "dummyURL"}
  /\ secrets \in [Clusters -> [Slots -> Secret]]
  /\ registered \in [GitOpsClusters -> {"Unknown", "True", "False"}]
  /\ queue \subseteq Requests /\ req \in Requests
  /\ pc \in PCs
  /\ orphans \subseteq Clusters \X Slots
  /\ todo \subseteq GitOpsClusters /\ passFailed \in BOOLEAN
  /\ plan \in Plan /\ (pc \in ImportPCs => plan.g \in GitOpsClusters)
  /\ cluster \in Clusters /\ slot \in Slots /\ new \in Secret
  /\ olds \subseteq Slots /\ old \in Slots
  /\ absentInPass \subseteq Clusters
  /\ steadyRefs \subseteq refs
  /\ changes \in 0..MaxChanges /\ faults \in 0..MaxFaults
  /\ listFaults \in 0..MaxListFaults /\ crashes \in 0..MaxCrashes

\* The controller has registered c: Argo CD sees one of its secrets for c.
Registered(c) == \E n \in Slots \ {"user"} : secrets[c][n].typed

\* While secrets are renamed, replaced, de-labelled, relabelled and swept, a
\* cluster whose ManagedCluster existed throughout the pass is visible to Argo CD
\* at every instant once it is registered: the ApplicationSet generators never see
\* it disappear (import_clusters.go, comment of cleanupOldArgoClusterSecrets).
RegisteredStays ==
  [][\A c \in Clusters :
       Registered(c) => Registered(c)' \/ c \in absentInPass]_vars

\* An old secret is never removed while an Application that existed for the whole
\* pass names its server, unless the new secret has that same server.
ReferencedServerStays ==
  [][\A c \in Clusters, n \in Slots :
       /\ pc \notin {"orphan", "blank"}
       /\ secrets[c][n].typed /\ ~secrets'[c][n].typed /\ n # "user"
       => \/ <<c, ServerOf(secrets[c][n])>> \notin steadyRefs'
          \/ ServerOf(new) = ServerOf(secrets[c][n])]_vars

\* Status "True" for a push or blank pass means that every selected cluster has a
\* secret with credentials from that very mode, whatever failed on the way.
SuccessMeansRegistered ==
  [][\A g \in GitOpsClusters :
       /\ pc = "pick" /\ pc' = "next" /\ plan.g = g /\ plan.mode # "agent"
       /\ registered'[g] = "True" /\ registered[g] # "True"
       => \A c \in plan.all : \E n \in {"plain", "msa", "custom"} :
             /\ secrets[c][n].typed
             /\ plan.mode = "blank" <=> secrets[c][n].src = "blank"]_vars

\* A de-labelled secret is invisible to every later list.  It outlives its deletion
\* only through a crash, or when both the delete and the relabel failed.
StrandedNeedsTwoFailures ==
  (\E c \in Clusters, n \in Slots : secrets[c][n].src # "none" /\ ~secrets[c][n].typed)
  => pc \in {"delete", "relabel"} \/ crashes > 0 \/ faults >= 2

\* What the users ask for c: all GitOpsClusters that select it are in these modes, and
\* every cluster they select exists.
Wanted(c, modes) ==
  /\ c \in present
  /\ \E g \in GitOpsClusters : spec[g].mode \in modes /\ c \in decisions[g]
  /\ \A g \in GitOpsClusters : /\ spec[g].mode \in modes \cup {"absent"}
                               /\ decisions[g] \subseteq present

Importable(c) == /\ Wanted(c, {"push"}) /\ secrets[c]["user"] = Gone
                 /\ token[c] > 0 /\ "direct" \in access[c]

HasFresh(c) == \E n \in {"msa", "custom"} : /\ secrets[c][n].typed
                                            /\ secrets[c][n].src \in {"proxy", "msa"}
                                            /\ secrets[c][n].token = token[c]

\* Once the environment is quiet, Argo CD holds the current token of every cluster
\* imported in push mode, although every watch event may have been missed
\* (gitopscluster_controller.go, "Periodic requeue ensures credentials are refreshed").
FreshCredentials ==
  \A c \in Clusters :
    <>[](Importable(c) /\ c \notin GetAllNonAcmManagedClusterSecretsInArgo => HasFresh(c))

\* The secrets of a cluster whose ManagedCluster stays deleted are removed.
OrphansForgotten ==
  \A c \in Clusters : <>[](c \notin present =>
                             \A n \in Slots : ~(secrets[c][n].typed /\ Acm(secrets[c][n])))

\* Argo CD refuses two clusters of the same name: with one GitOpsCluster importing
\* it, a cluster ends with one secret, or with those an Application still names.
PushEndsUnique ==
  \A c \in Clusters :
    <>[](Importable(c) /\ c \notin GetAllNonAcmManagedClusterSecretsInArgo
         => \A m, n \in {"plain", "msa", "custom"} :
              secrets[c][m].typed /\ secrets[c][n].typed =>
                \/ m = n
                \/ \E k \in {m, n} : <<c, ServerOf(secrets[c][k])>> \in refs)

\* In agent mode Argo CD ends with the agent's secret and no blank placeholder, also when
\* the controller fails or dies between the write and the delete.
AgentReplacesBlank ==
  \A c \in Clusters : <>[](Wanted(c, {"agent"}) =>
                             /\ secrets[c]["agent"].typed
                             /\ \A n \in Slots : ~(secrets[c][n].typed
                                                    /\ secrets[c][n].src = "blank"))
=============================================================================
