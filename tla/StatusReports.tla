---------------------------- MODULE StatusReports ----------------------------
(***************************************************************************)
(* The way back of the pull model.  Three programs, of one worker each:    *)
(*   gitopssyncresc pages through the search index and writes one file per *)
(*     ApplicationSet into a directory;                                    *)
(*   multiclusterstatusaggregation merges these files with the feedback of *)
(*     the ManifestWorks into one report per ApplicationSet, and removes   *)
(*     files, ManifestWorks and reports of ApplicationSets that are gone;  *)
(*   the Application status controller copies the reports' conditions into *)
(*     the hub Applications, a Healthy one in two updates.                 *)
(* Each call is a step of its own.  The controllers that make Applications *)
(* and ManifestWorks, the work agents and the search index are external.   *)
(***************************************************************************)
EXTENDS Naturals, FiniteSets

CONSTANTS
  AppSets,      \* names of ApplicationSets
  Clusters,     \* managed clusters; an ApplicationSet has one Application for each
  Trimmed,      \* the names that end in one of the letters of ".yaml"
  Healths,      \* what the clusters report as health
  Churn,        \* the kinds of change the environment may make
  MaxChanges,   \* bound: changes made by the environment
  MaxFaults,    \* bound: failed calls
  MaxCrashes    \* bound: crashes of one of the three programs

ASSUME ReportsAssumption ==
  /\ Trimmed \subseteq AppSets
  /\ Healths \subseteq {"Healthy", "Degraded", "Progressing"}
  /\ MaxChanges \in Nat /\ MaxFaults \in Nat /\ MaxCrashes \in Nat

VARIABLES
  appsets,    \* ApplicationSets that exist
  apps,       \* the hub Applications: whether one exists, and its status
  works,      \* the ManifestWork of each, with the status feedback
  search,     \* the search index: is the Application there, with error conditions?
  disabled,   \* the pull model is disabled in multicluster-integrations-config
  files,      \* the files of the shared directory
  reports,    \* MulticlusterApplicationSetReports
  sPc, found, shifted, sTodo, sFile,         \* gitopssyncresc
  aPc, map, aTodo, missing, wTodo, failed,   \* multiclusterstatusaggregation
  rPc, pending, rSet, conds, rTodo, rCur, oldStatus, fresh,   \* status controller
  given,      \* history: feedbacks each cluster gave
  away,       \* history: ApplicationSets missing at some instant of the cleanup
  here,       \* history: ApplicationSets existing at some instant of the cleanup
  changes, faults, crashes   \* consumption of the bounds

envVars    == <<appsets, apps, works, search, disabled>>
syncVars   == <<sPc, found, shifted, sTodo, sFile>>
aggVars    == <<aPc, map, aTodo, missing, wTodo, failed>>
statusVars == <<rPc, rSet, conds, rTodo, rCur, oldStatus>>
history    == <<given, away, here>>
vars == <<envVars, files, reports, syncVars, aggVars, statusVars, pending, fresh, history,
          changes, faults, crashes>>

Pairs    == AppSets \X Clusters
Verdicts == {"none", "ok", "error"}      \* none: the index, or a file, has no such entry
NoStatus == [health |-> "none", ver |-> 0]
Unknown  == [health |-> "Unknown", ver |-> 0]

Status   == [health : Healths \cup {"none", "Unknown", "Progressing"}, ver : Nat]
App      == [exists : BOOLEAN, status : Status]
Work     == [state : {"none", "live", "deleting"}, feedback : Status]
NoWork   == [state |-> "none", feedback |-> NoStatus]

\* A cluster condition of a report; one that comes from a file only names no Application.
Cond     == [feedback : Status, search : Verdicts, named : BOOLEAN]
NoCond   == [feedback |-> NoStatus, search |-> "none", named |-> FALSE]
NoReport == [exists |-> FALSE, conds |-> [c \in Clusters |-> NoCond]]

NoEntries == [c \in Clusters |-> "none"]
NoFile    == [state |-> "absent", entries |-> NoEntries]
TornFile  == [state |-> "torn", entries |-> NoEntries]     \* truncated, not yet written

Fault   == faults < MaxFaults /\ faults' = faults + 1
Succeed == UNCHANGED faults

\* Each program reads the configuration live; one that cannot be read counts as enabled.
Enabled == IF disabled THEN Fault ELSE Succeed

Init ==
  /\ appsets = AppSets /\ disabled = FALSE
  /\ apps = [p \in Pairs |-> [exists |-> TRUE, status |-> NoStatus]]
  /\ works = [p \in Pairs |-> [state |-> "live", feedback |-> NoStatus]]
  /\ search = [a \in AppSets |-> [c \in Clusters |-> "ok"]]
  /\ files = [a \in AppSets |-> NoFile] /\ reports = [a \in AppSets |-> NoReport]
  /\ sPc = "idle" /\ found = [a \in AppSets |-> NoEntries] /\ shifted = FALSE
  /\ sTodo = {} /\ sFile \in AppSets
  /\ aPc = "idle" /\ map = [p \in Pairs |-> NoWork] /\ aTodo = {} /\ missing = {}
  /\ wTodo = {} /\ failed = {}
  /\ rPc = "idle" /\ pending = {} /\ rSet \in AppSets /\ rCur \in Clusters
  /\ conds = NoReport.conds /\ rTodo = {} /\ oldStatus = NoStatus /\ fresh = FALSE
  /\ given = [p \in Pairs |-> {Unknown}] /\ away = {} /\ here = {}
  /\ changes = 0 /\ faults = 0 /\ crashes = 0

-----------------------------------------------------------------------------
(* The environment. *)

Change(kind) == kind \in Churn /\ changes < MaxChanges /\ changes' = changes + 1

EnvUnchanged == UNCHANGED <<files, reports, syncVars, aggVars, statusVars, pending,
                            faults, crashes>>

\* Writing an Application makes the version the status controller read stale.
Stale(S) == fresh' = (fresh /\ <<rSet, rCur>> \notin S)

\* The ApplicationSet goes with its Applications; the propagation controller deletes
\* the ManifestWorks of those that have the finalizer.
DeleteAppSet(a) ==
  /\ Change("appset") /\ a \in appsets
  /\ appsets' = appsets \ {a}
  /\ apps' = [p \in Pairs |-> IF p[1] = a THEN [exists |-> FALSE, status |-> NoStatus]
                                          ELSE apps[p]]
  /\ \E S \in SUBSET {p \in Pairs : p[1] = a /\ works[p].state = "live"} :
       works' = [p \in Pairs |-> IF p \in S THEN [works[p] EXCEPT !.state = "deleting"]
                                            ELSE works[p]]
  /\ away' = IF aPc = "idle" THEN away ELSE away \cup {a}
  /\ Stale({a} \X Clusters)
  /\ UNCHANGED <<search, disabled, given, here>> /\ EnvUnchanged

CreateAppSet(a) ==
  /\ Change("appset") /\ a \notin appsets
  /\ appsets' = appsets \cup {a}
  /\ apps' = [p \in Pairs |-> IF p[1] = a THEN [exists |-> TRUE, status |-> NoStatus]
                                          ELSE apps[p]]
  /\ here' = IF aPc = "idle" THEN here ELSE here \cup {a}
  /\ Stale({a} \X Clusters)
  /\ UNCHANGED <<works, search, disabled, given, away>> /\ EnvUnchanged

\* An Application without ManifestWork gets one.
Propagate(p) ==
  /\ apps[p].exists /\ works[p].state = "none" /\ ~disabled
  /\ works' = [works EXCEPT ![p] = [state |-> "live", feedback |-> NoStatus]]
  /\ UNCHANGED <<appsets, apps, search, disabled, fresh, history, changes>> /\ EnvUnchanged

\* The work agent removes what a deleted ManifestWork delivered.
Retire(p) ==
  /\ works[p].state = "deleting"
  /\ works' = [works EXCEPT ![p] = NoWork]
  /\ UNCHANGED <<appsets, apps, search, disabled, fresh, history, changes>> /\ EnvUnchanged

\* The cluster reports another health, at another revision.
Feedback(p, h) ==
  /\ Change("work") /\ works[p].state = "live"
  /\ LET f == [health |-> h, ver |-> changes'] IN
       /\ works' = [works EXCEPT ![p].feedback = f]
       /\ given' = [given EXCEPT ![p] = @ \cup {f}]
  /\ UNCHANGED <<appsets, apps, search, disabled, fresh, away, here>> /\ EnvUnchanged

\* Somebody else writes the Application: an edit, a refresh, a cleared operation.
EditApplication(p) ==
  /\ Change("app") /\ apps[p].exists
  /\ Stale({p})
  /\ UNCHANGED <<envVars, history>> /\ EnvUnchanged

\* The index learns of an Application, of its errors, or of its end; pages read with an
\* offset may then miss another one.
EditSearch(p, v) ==
  /\ Change("search") /\ v # search[p[1]][p[2]]
  /\ search' = [search EXCEPT ![p[1]][p[2]] = v]
  /\ shifted' = (sPc = "pages")
  /\ UNCHANGED <<appsets, apps, works, disabled, files, reports, sPc, found, sTodo, sFile,
                 aggVars, statusVars, pending, fresh, history, faults, crashes>>

DisablePullModel ==
  /\ Change("config") /\ ~disabled
  /\ disabled' = TRUE
  /\ UNCHANGED <<appsets, apps, works, search, fresh, history>> /\ EnvUnchanged

Environment ==
  \/ \E a \in AppSets : DeleteAppSet(a) \/ CreateAppSet(a)
  \/ \E p \in Pairs : \/ Propagate(p) \/ Retire(p) \/ EditApplication(p)
                      \/ \E h \in Healths : Feedback(p, h)
                      \/ \E v \in Verdicts : EditSearch(p, v)
  \/ DisablePullModel

-----------------------------------------------------------------------------
(* gitopssyncresc: syncResources. *)

SyncUnchanged == UNCHANGED <<envVars, reports, aggVars, statusVars, pending, fresh, history,
                             changes, crashes>>

\* The locals of a pass end with it.
SyncIdle == /\ sPc' = "idle" /\ found' = [a \in AppSets |-> NoEntries]
            /\ shifted' = FALSE /\ sTodo' = {}

SyncBegin ==
  /\ sPc = "idle" /\ Enabled
  /\ sPc' = "pages"
  /\ UNCHANGED <<files, found, shifted, sTodo, sFile>> /\ SyncUnchanged

Unseen == {p \in Pairs : /\ search[p[1]][p[2]] # "none"
                         /\ found[p[1]][p[2]] = "none"}

\* A page brings an Application with its conditions, as they are now.
SyncPage(p) ==
  /\ sPc = "pages" /\ p \in Unseen /\ Succeed
  /\ found' = [found EXCEPT ![p[1]][p[2]] = search[p[1]][p[2]]]
  /\ UNCHANGED <<files, sPc, shifted, sTodo, sFile>> /\ SyncUnchanged

\* [Mutant] Only ApplicationSets without file are written.
ToWriteNew == {a \in AppSets : found[a] # NoEntries /\ files[a].state = "absent"}

ToWrite == {a \in AppSets : found[a] # NoEntries}

\* The last page was short, or a query failed: what was found is written all the same.
SyncPagesEnd ==
  /\ sPc = "pages"
  /\ IF Unseen = {} \/ shifted THEN Succeed ELSE Fault
  /\ sTodo' = ToWrite /\ shifted' = FALSE
  /\ sPc' = "files"
  /\ UNCHANGED <<files, found, sFile>> /\ SyncUnchanged

\* WriteFile truncates, then writes; the first error ends the pass.
WriteFile(a) ==
  /\ sPc = "files" /\ a \in sTodo
  /\ sFile' = a
  /\ \/ /\ Succeed /\ files' = [files EXCEPT ![a] = TornFile]
        /\ sPc' = "writing" /\ sTodo' = sTodo \ {a} /\ UNCHANGED <<found, shifted>>
     \/ Fault /\ SyncIdle /\ UNCHANGED files
  /\ SyncUnchanged

\* A file that was removed in between stays removed.
WriteFileEnd ==
  /\ sPc = "writing"
  /\ \/ /\ Succeed /\ sPc' = "files" /\ UNCHANGED <<found, shifted, sTodo>>
        /\ files' = [files EXCEPT ![sFile] =
             IF @.state = "absent" THEN @ ELSE [state |-> "whole", entries |-> found[sFile]]]
     \/ Fault /\ SyncIdle /\ UNCHANGED files
  /\ UNCHANGED sFile /\ SyncUnchanged

SyncEnd ==
  /\ sPc = "files" /\ sTodo = {}
  /\ SyncIdle
  /\ UNCHANGED <<files, sFile, faults>> /\ SyncUnchanged

SyncResources == \/ SyncBegin \/ SyncPagesEnd \/ WriteFileEnd \/ SyncEnd
                 \/ (\E p \in Pairs : SyncPage(p)) \/ (\E a \in AppSets : WriteFile(a))

-----------------------------------------------------------------------------
(* multiclusterstatusaggregation: houseKeeping. *)

AggUnchanged == UNCHANGED <<appsets, apps, search, disabled, syncVars, statusVars, fresh,
                            given, changes, crashes>>

NoWorks == [p \in Pairs |-> NoWork]

\* The locals of a pass end with it.
AggIdle == /\ aPc' = "idle" /\ map' = NoWorks /\ aTodo' = {} /\ missing' = {}
           /\ wTodo' = {} /\ failed' = {} /\ away' = {} /\ here' = {}

\* The list of ManifestWorks fails or is one snapshot; the cleanup runs in both cases.
TickBegin ==
  /\ aPc = "idle" /\ Enabled
  /\ map' = works
  /\ aPc' = "reports"
  /\ aTodo' = {a \in AppSets : \E c \in Clusters : works[<<a, c>>].state # "none"}
  /\ away' = AppSets \ appsets /\ here' = appsets
  /\ UNCHANGED <<works, files, reports, pending, missing, wTodo, failed>> /\ AggUnchanged

ListWorksFails ==
  /\ aPc = "idle" /\ ~disabled /\ Fault
  /\ aPc' = "reports" /\ aTodo' = {}
  /\ away' = AppSets \ appsets /\ here' = appsets
  /\ UNCHANGED <<works, files, reports, pending, map, missing, wTodo, failed>> /\ AggUnchanged

\* [Mutant] The feedback as it is, without a default.
Raw(f) == f

\* Without feedback the health and sync status are Unknown.
Read(f) == IF f = NoStatus THEN Unknown ELSE f

\* The condition of a cluster: the feedback of its ManifestWork, the verdict of the file.
Combined(a) ==
  [c \in Clusters |->
     LET w == map[<<a, c>>] IN
       [feedback |-> IF w.state = "none" THEN NoStatus ELSE Read(w.feedback),
        search   |-> files[a].entries[c],
        named    |-> w.state # "none"]]

\* Create if missing, read the file, update if anything differs.
AggReport(a) ==
  /\ aPc = "reports" /\ a \in aTodo
  /\ aTodo' = aTodo \ {a}
  /\ \/ /\ Succeed
        /\ reports' = [reports EXCEPT ![a] = [exists |-> TRUE, conds |-> Combined(a)]]
     \/ Fault /\ UNCHANGED reports
     \/ /\ Fault /\ ~reports[a].exists
        /\ reports' = [reports EXCEPT ![a].exists = TRUE]
  /\ pending' = IF reports' # reports THEN pending \cup {a} ELSE pending
  /\ UNCHANGED <<works, files, aPc, map, missing, wTodo, failed, away, here>> /\ AggUnchanged

AggReportsEnd ==
  /\ aPc = "reports" /\ aTodo = {}
  /\ aPc' = "files"
  /\ aTodo' = {a \in AppSets : files[a].state # "absent"} /\ map' = NoWorks
  /\ UNCHANGED <<works, files, reports, pending, missing, wTodo, failed, away, here, faults>>
  /\ AggUnchanged

\* The name that is looked up lost more than its suffix when it is in Trimmed.
LooksMissing(a) == a \notin appsets \/ a \in Trimmed

CheckFile(a) ==
  /\ aPc = "files" /\ a \in aTodo
  /\ aTodo' = aTodo \ {a}
  /\ \/ Succeed /\ missing' = IF LooksMissing(a) THEN missing \cup {a} ELSE missing
     \/ Fault /\ UNCHANGED missing
  /\ UNCHANGED <<works, files, reports, pending, aPc, map, wTodo, failed, away, here>>
  /\ AggUnchanged

\* A shortened name names no file; then the reports are listed.
RemoveFiles ==
  /\ aPc = "files" /\ aTodo = {}
  /\ files' = [a \in AppSets |-> IF a \in missing \ Trimmed THEN NoFile ELSE files[a]]
  /\ \/ /\ Succeed /\ aPc' = "check"
        /\ aTodo' = {a \in AppSets : reports[a].exists} /\ missing' = {}
        /\ UNCHANGED <<map, wTodo, failed, away, here>>
     \/ Fault /\ AggIdle
  /\ UNCHANGED <<works, reports, pending>> /\ AggUnchanged

\* [Mutant] Any error of the Get counts as not found.
GoneOrError(a) == \/ a \notin appsets /\ Succeed
                  \/ Fault

\* The ApplicationSet of a report is not found.
Gone(a) == a \notin appsets /\ Succeed

CheckReport(a) ==
  /\ aPc = "check" /\ a \in aTodo
  /\ aTodo' = aTodo \ {a}
  /\ \/ Gone(a) /\ missing' = missing \cup {a}
     \/ a \in appsets /\ Succeed /\ UNCHANGED missing
     \/ Fault /\ UNCHANGED missing
  /\ UNCHANGED <<works, files, reports, pending, aPc, map, wTodo, failed, away, here>>
  /\ AggUnchanged

Named(a) == {p \in {a} \X Clusters : reports[a].conds[p[2]].named}

CheckEnd ==
  /\ aPc = "check" /\ aTodo = {}
  /\ aPc' = "delete"
  /\ wTodo' = UNION {Named(a) : a \in missing} /\ failed' = {}
  /\ UNCHANGED <<works, files, reports, pending, map, aTodo, missing, away, here, faults>>
  /\ AggUnchanged

\* [Mutant] A ManifestWork that is gone already counts as a failure.
NotFoundFails(p) == /\ works[p].state = "none" /\ Succeed
                    /\ failed' = failed \cup {p[1]} /\ UNCHANGED works

NotFoundIsFine(p) == /\ works[p].state = "none" /\ Succeed
                     /\ UNCHANGED <<works, failed>>

\* [Mutant] The failure is logged only.
ForgetFailure(p) == Fault /\ UNCHANGED <<works, failed>>

KeepFailure(p) == Fault /\ failed' = failed \cup {p[1]} /\ UNCHANGED works

\* Get and delete, by name, with the finalizers of the ManifestWork.
DeleteWork(p) ==
  /\ aPc = "delete" /\ p \in wTodo
  /\ wTodo' = wTodo \ {p}
  /\ \/ /\ works[p].state # "none" /\ Succeed
        /\ works' = [works EXCEPT ![p].state = "deleting"] /\ UNCHANGED failed
     \/ NotFoundIsFine(p)
     \/ KeepFailure(p)
  /\ UNCHANGED <<files, reports, pending, aPc, map, aTodo, missing, away, here>>
  /\ AggUnchanged

\* The error of this delete is dropped.
DeleteReport(a) ==
  /\ aPc = "delete" /\ a \in missing /\ wTodo \cap ({a} \X Clusters) = {}
  /\ missing' = missing \ {a}
  /\ \/ a \in failed /\ Succeed /\ UNCHANGED <<reports, pending>>
     \/ /\ a \notin failed /\ Succeed
        /\ reports' = [reports EXCEPT ![a] = NoReport] /\ pending' = pending \cup {a}
     \/ a \notin failed /\ Fault /\ UNCHANGED <<reports, pending>>
  /\ UNCHANGED <<works, files, aPc, map, aTodo, wTodo, failed, away, here>> /\ AggUnchanged

TickEnd ==
  /\ aPc = "delete" /\ missing = {}
  /\ AggIdle
  /\ UNCHANGED <<works, files, reports, pending, faults>> /\ AggUnchanged

HouseKeeping ==
  \/ TickBegin \/ ListWorksFails \/ AggReportsEnd \/ RemoveFiles \/ CheckEnd \/ TickEnd
  \/ \E a \in AppSets : AggReport(a) \/ CheckFile(a) \/ CheckReport(a) \/ DeleteReport(a)
  \/ \E p \in Pairs : DeleteWork(p)

-----------------------------------------------------------------------------
(* The Application status controller: Reconcile. *)

StatusUnchanged == UNCHANGED <<appsets, works, search, disabled, files, reports, syncVars,
                               aggVars, history, changes, crashes>>

\* The locals of a reconcile, and of the handling of one condition, end with it.
Rest == rPc' = "idle" /\ conds' = NoReport.conds /\ rTodo' = {}
Forget == oldStatus' = NoStatus /\ fresh' = FALSE

Requeue == Rest /\ Forget /\ pending' = pending \cup {rSet}

StatusBegin(a) ==
  /\ rPc = "idle" /\ a \in pending
  /\ rSet' = a
  /\ \/ /\ Enabled
        /\ conds' = reports[a].conds
        /\ rTodo' = {c \in Clusters : reports[a].conds[c].named}
        /\ rPc' = "apps" /\ pending' = pending \ {a}
     \/ /\ disabled /\ Succeed
        /\ pending' = pending \ {a} /\ UNCHANGED <<conds, rTodo, rPc>>
     \/ ~disabled /\ Fault /\ UNCHANGED <<conds, rTodo, rPc, pending>>
  /\ UNCHANGED <<apps, rCur, oldStatus, fresh>> /\ StatusUnchanged

\* [Mutant] A Healthy status is written at once.
AlwaysLast(c) == "second"

\* Healthy is written after Progressing, for the ApplicationSet controller.
FirstWrite(c) == IF conds[c].feedback.health = "Healthy" THEN "first" ELSE "second"

\* A missing Application is skipped.
StatusGet(c) ==
  /\ rPc = "apps" /\ c \in rTodo
  /\ rCur' = c
  /\ \/ /\ Succeed /\ rTodo' = rTodo \ {c} /\ apps[<<rSet, c>>].exists
        /\ oldStatus' = apps[<<rSet, c>>].status /\ fresh' = TRUE
        /\ rPc' = FirstWrite(c)
        /\ UNCHANGED <<conds, pending>>
     \/ /\ Succeed /\ rTodo' = rTodo \ {c} /\ ~apps[<<rSet, c>>].exists
        /\ UNCHANGED <<conds, oldStatus, fresh, rPc, pending>>
     \/ Fault /\ Requeue
  /\ UNCHANGED <<apps, rSet>> /\ StatusUnchanged

\* A stale version conflicts on every retry: the same object is sent again.
WriteApp(status) ==
  /\ fresh /\ Succeed
  /\ apps' = [apps EXCEPT ![<<rSet, rCur>>].status = status]

WriteFails == /\ IF fresh THEN Fault ELSE Succeed
              /\ Requeue /\ UNCHANGED apps

StatusFirst ==
  /\ rPc = "first"
  /\ \/ /\ WriteApp([oldStatus EXCEPT !.health = "Progressing"])
        /\ rPc' = "second" /\ UNCHANGED <<pending, conds, rTodo, oldStatus, fresh>>
     \/ WriteFails
  /\ UNCHANGED <<rSet, rCur>> /\ StatusUnchanged

NewStatus == LET f == conds[rCur].feedback
             IN [health |-> f.health, ver |-> IF f.ver = 0 THEN oldStatus.ver ELSE f.ver]

\* [Mutant] Without forceUpdate.
MayOnlyDiffer == NewStatus # oldStatus

MustWrite == \/ NewStatus # oldStatus
             \/ conds[rCur].feedback.health = "Healthy"     \* forceUpdate

StatusSecond ==
  /\ rPc = "second"
  /\ \/ /\ MustWrite /\ WriteApp(NewStatus)
        /\ rPc' = "apps" /\ Forget /\ UNCHANGED <<pending, conds, rTodo>>
     \/ MustWrite /\ WriteFails
     \/ /\ ~MustWrite /\ Succeed
        /\ rPc' = "apps" /\ Forget /\ UNCHANGED <<apps, pending, conds, rTodo>>
  /\ UNCHANGED <<rSet, rCur>> /\ StatusUnchanged

StatusEnd ==
  /\ rPc = "apps" /\ rTodo = {}
  /\ Rest
  /\ UNCHANGED <<apps, pending, rSet, rCur, oldStatus, fresh, faults>>
  /\ StatusUnchanged

\* The informer hands every report to the controller again (SyncPeriod, ten hours).
Resync ==
  /\ rPc = "idle" /\ pending = {}
  /\ pending' = {a \in AppSets : reports[a].exists}
  /\ UNCHANGED <<apps, rPc, rSet, conds, rTodo, rCur, oldStatus, fresh, faults>>
  /\ StatusUnchanged

UpdateStatus ==
  \/ StatusFirst \/ StatusSecond \/ StatusEnd
  \/ \E a \in AppSets : StatusBegin(a)
  \/ \E c \in Clusters : StatusGet(c)

-----------------------------------------------------------------------------
(* A program crashes between two calls and starts again. *)

SyncCrash == sPc # "idle" /\ SyncIdle /\ UNCHANGED <<aggVars, statusVars, pending, fresh, away, here>>
AggCrash == aPc # "idle" /\ AggIdle /\ UNCHANGED <<found, shifted, sPc, sTodo, statusVars, pending, fresh>>
StatusCrash ==
  /\ rPc # "idle" /\ Rest /\ Forget
  /\ pending' = {a \in AppSets : reports[a].exists}
  /\ UNCHANGED <<found, shifted, sPc, sTodo, aggVars, rSet, rCur, away, here>>

Crash ==
  /\ crashes < MaxCrashes /\ crashes' = crashes + 1
  /\ SyncCrash \/ AggCrash \/ StatusCrash
  /\ UNCHANGED <<envVars, files, reports, sFile, given, changes, faults>>

Next == Environment \/ SyncResources \/ HouseKeeping \/ UpdateStatus \/ Resync \/ Crash

Spec == Init /\ [][Next]_vars

\* Tickers, a worker with a queue, the informer's resync, and the work agents go on; and
\* the housekeeping does not read a file only while it is written, which takes an instant:
\* a write that has begun can end first, and a read then comes before the next write.
FairSpec == Spec /\ WF_vars(SyncResources) /\ WF_vars(HouseKeeping)
                 /\ WF_vars(UpdateStatus) /\ WF_vars(Resync)
                 /\ SF_vars(WriteFileEnd /\ aPc = "reports" /\ aTodo # {})
                 /\ SF_vars(sPc # "writing" /\ \E a \in AppSets : AggReport(a))
                 /\ \A p \in Pairs : WF_vars(Retire(p))

-----------------------------------------------------------------------------
(* Properties. *)

\* Every variable of the three programs keeps to its set, and a condition that names an
\* Application has a health: the default where the ManifestWork has none.
TypeOK ==
  /\ appsets \subseteq AppSets /\ disabled \in BOOLEAN
  /\ apps \in [Pairs -> App] /\ works \in [Pairs -> Work] /\ map \in [Pairs -> Work]
  /\ search \in [AppSets -> [Clusters -> Verdicts]]
  /\ found \in [AppSets -> [Clusters -> Verdicts]]
  /\ files \in [AppSets -> [state : {"absent", "torn", "whole"},
                            entries : [Clusters -> Verdicts]]]
  /\ reports \in [AppSets -> [exists : BOOLEAN, conds : [Clusters -> Cond]]]
  /\ \A a \in AppSets, c \in Clusters :
       reports[a].conds[c].named => reports[a].conds[c].feedback.health # "none"
  /\ sPc \in {"idle", "pages", "files", "writing"} /\ shifted \in BOOLEAN
  /\ sTodo \subseteq AppSets /\ sFile \in AppSets
  /\ aPc \in {"idle", "reports", "files", "check", "delete"}
  /\ aTodo \subseteq AppSets /\ missing \subseteq AppSets /\ failed \subseteq AppSets
  /\ wTodo \subseteq Pairs
  /\ rPc \in {"idle", "apps", "first", "second"} /\ pending \subseteq AppSets
  /\ rSet \in AppSets /\ conds \in [Clusters -> Cond] /\ rTodo \subseteq Clusters
  /\ rCur \in Clusters /\ oldStatus \in Status /\ fresh \in BOOLEAN
  /\ given \in [Pairs -> SUBSET Status] /\ away \subseteq AppSets /\ here \subseteq AppSets
  /\ changes \in 0..MaxChanges /\ faults \in 0..MaxFaults /\ crashes \in 0..MaxCrashes

\* Refinement: three programs, files and two updates show what StatusFeed promises.
Feed == INSTANCE StatusFeed WITH Apps <- Pairs, given <- given,
                                 shown <- [p \in Pairs |-> apps[p].status]
FollowsFeed == Feed!Spec

\* The housekeeping deletes the ManifestWorks of an ApplicationSet only if that was away at
\* some instant of the same pass: neither a failed Get nor an old report suffices.
WorkDeletedOnlyForMissing ==
  [][\A p \in Pairs : (aPc = "delete" /\ aPc' = "delete" /\ wTodo' # wTodo
                       /\ works[p].state = "live" /\ works'[p].state = "deleting")
                      => p[1] \in away]_vars

\* A report is the only record of the ManifestWorks an ApplicationSet left: it goes after
\* they are deleted, unless the ApplicationSet came back during the pass.
ReportGoesLast ==
  [][\A a \in AppSets : (reports[a].exists /\ ~reports'[a].exists) =>
       \/ a \in here
       \/ \A c \in Clusters : reports[a].conds[c].named => works[<<a, c>>].state # "live"]_vars

Matches(status, f) == status.health = f.health /\ (f.ver # 0 => status.ver = f.ver)

\* Once nothing changes, an Application with a ManifestWork shows its feedback whenever the
\* status controller is between two reports: it is not left at the inserted Progressing.
StatusConverges ==
  /\ []<>(rPc = "idle")
  /\ <>[](\A p \in Pairs :
       (rPc = "idle" /\ ~disabled /\ apps[p].exists /\ works[p].state = "live")
       => Matches(apps[p].status, Read(works[p].feedback)))

\* The verdicts of the index reach the report, past torn files, missed pages and crashes.
\* Again and again only: each read of a torn file takes them out of the report.
ReportConverges ==
  \A p \in Pairs :
    []<>((~disabled /\ search[p[1]] # NoEntries /\ p[1] \in appsets /\ works[p].state = "live")
         => reports[p[1]].conds[p[2]].search = search[p[1]][p[2]])

\* An ApplicationSet that is gone leaves no ManifestWork, no report and no file behind.
OrphansGo ==
  <>[](\A a \in AppSets : (~disabled /\ a \notin appsets) =>
         /\ ~reports[a].exists /\ \A c \in Clusters : works[<<a, c>>].state = "none"
         /\ (search[a] = NoEntries /\ a \notin Trimmed) => files[a].state = "absent")
==============================================================================
