------------------------- MODULE StatusReportsProofs -------------------------
(* That the three programs implement StatusFeed, for any ApplicationSets and clusters. *)
EXTENDS StatusReports, TLAPS

(* Types, by owner. *)
TSearch == /\ appsets \subseteq AppSets /\ disabled \in BOOLEAN
           /\ search \in [AppSets -> [Clusters -> Verdicts]]
TApps == apps \in [Pairs -> App]
TWorks == works \in [Pairs -> Work]
TSync == /\ found \in [AppSets -> [Clusters -> Verdicts]]
         /\ sPc \in {"idle", "pages", "files", "writing"} /\ shifted \in BOOLEAN
         /\ sTodo \subseteq AppSets /\ sFile \in AppSets
TFiles == files \in [AppSets -> [state : {"absent", "torn", "whole"},
                                 entries : [Clusters -> Verdicts]]]
TAgg == /\ aPc \in {"idle", "reports", "files", "check", "delete"}
        /\ aTodo \subseteq AppSets /\ missing \subseteq AppSets /\ failed \subseteq AppSets
        /\ wTodo \subseteq Pairs /\ away \subseteq AppSets /\ here \subseteq AppSets
TMap == map \in [Pairs -> Work]
TReports == reports \in [AppSets -> [exists : BOOLEAN, conds : [Clusters -> Cond]]]
TStatus == /\ rPc \in {"idle", "apps", "first", "second"}
           /\ rSet \in AppSets /\ conds \in [Clusters -> Cond] /\ rTodo \subseteq Clusters
           /\ rCur \in Clusters /\ oldStatus \in Status
TFresh == pending \subseteq AppSets /\ fresh \in BOOLEAN
TGiven == /\ given \in [Pairs -> SUBSET Status]
          /\ \A p \in Pairs : Unknown \in given[p] /\ \A f \in given[p] : f.health # "none"
TBounds == changes \in 0..MaxChanges /\ faults \in 0..MaxFaults /\ crashes \in 0..MaxCrashes

(* The way of a feedback: at each place it is one that its own cluster gave. *)
FWorks == \A p \in Pairs : Read(works[p].feedback) \in given[p]
FMap == \A p \in Pairs : Read(map[p].feedback) \in given[p]
FReports == \A a \in AppSets, c \in Clusters :
              reports[a].conds[c].named => reports[a].conds[c].feedback \in given[<<a, c>>]
FConds == \A c \in Clusters : conds[c].named => conds[c].feedback \in given[<<rSet, c>>]

Healthy(c) == conds[c].feedback.health = "Healthy"

\* The Application that is worked on is named by the report, and before its first write Healthy;
\* between two reports nothing is left of the one before.
FTodo == /\ \A c \in rTodo : conds[c].named
         /\ rPc = "idle" => \A c \in Clusters : ~conds[c].named
         /\ rPc \in {"first", "second"} => conds[rCur].named
         /\ rPc = "first" => Healthy(rCur)

\* What was read is still there while the version is: as it was, or with what was inserted.
FFresh == fresh =>
  /\ rPc \in {"first", "second"}
  /\ apps[<<rSet, rCur>>].status =
       IF rPc = "second" /\ Healthy(rCur) THEN [oldStatus EXCEPT !.health = "Progressing"]
                                          ELSE oldStatus

Types == /\ TSearch /\ TApps /\ TWorks /\ TSync /\ TFiles /\ TAgg /\ TMap /\ TReports
         /\ TStatus /\ TFresh /\ TGiven /\ TBounds
Flow == FWorks /\ FMap /\ FReports /\ FConds /\ FTodo /\ FFresh
IInv == Types /\ Flow

GivenGrows == \A p \in Pairs : given[p] \subseteq given'[p]

\* A step of the programs is one of StatusFeed, or leaves it as it is.
FeedStep == [Feed!Next]_<<given, [p \in Pairs |-> apps[p].status]>>

-----------------------------------------------------------------------------
\* The types by owner make up the type invariant.
LEMMA ReportsTyped == IInv => TypeOK
BY DEF IInv, Types, Flow, TypeOK, TSearch, TApps, TWorks, TSync, TFiles, TAgg, TMap, TReports,
       TStatus, TFresh, TGiven, TBounds, FReports, Pairs

\* The values the variables start from.
LEMMA Constants ==
  /\ NoStatus \in Status /\ Unknown \in Status /\ Unknown.health # "none"
  /\ Read(NoStatus) = Unknown
  /\ NoWork \in Work /\ NoWork.feedback = NoStatus
  /\ NoCond \in Cond /\ ~NoCond.named
  /\ NoReport.conds \in [Clusters -> Cond] /\ \A c \in Clusters : ~NoReport.conds[c].named
  /\ NoReport \in [exists : BOOLEAN, conds : [Clusters -> Cond]]
  /\ NoEntries \in [Clusters -> Verdicts]
<1>1. NoStatus \in Status /\ Unknown \in Status /\ Unknown.health # "none"
  BY DEF NoStatus, Unknown, Status
<1>2. Read(NoStatus) = Unknown
  BY DEF Read
<1>3. NoWork \in Work /\ NoWork.feedback = NoStatus
  BY <1>1 DEF NoWork, Work
<1>4. NoCond \in Cond /\ ~NoCond.named
  BY <1>1 DEF NoCond, Cond, Verdicts
<1>5. NoReport.conds = [c \in Clusters |-> NoCond]
  BY DEF NoReport
<1>6. NoReport.conds \in [Clusters -> Cond] /\ \A c \in Clusters : ~NoReport.conds[c].named
  BY <1>4, <1>5
<1>7. NoReport \in [exists : BOOLEAN, conds : [Clusters -> Cond]]
  BY <1>4 DEF NoReport
<1>8. NoEntries \in [Clusters -> Verdicts]
  BY DEF NoEntries, Verdicts
<1> QED BY <1>1, <1>2, <1>3, <1>4, <1>6, <1>7, <1>8

\* What a step leaves alone stays as it is.
LEMMA ReportsFrames ==
  ASSUME IInv
  PROVE  /\ UNCHANGED <<appsets, disabled, search>> => TSearch'
         /\ UNCHANGED apps => TApps'
         /\ UNCHANGED works => TWorks'
         /\ UNCHANGED syncVars => TSync'
         /\ UNCHANGED files => TFiles'
         /\ UNCHANGED <<aPc, aTodo, missing, wTodo, failed, away, here>> => TAgg'
         /\ UNCHANGED map => TMap'
         /\ UNCHANGED reports => TReports'
         /\ UNCHANGED statusVars => TStatus'
         /\ UNCHANGED <<pending, fresh>> => TFresh'
         /\ UNCHANGED given => TGiven' /\ GivenGrows
         /\ UNCHANGED <<changes, faults, crashes>> => TBounds'
<1>1. UNCHANGED <<appsets, disabled, search>> => TSearch'
  BY DEF IInv, Types, TSearch
<1>2. UNCHANGED apps => TApps'
  BY DEF IInv, Types, TApps
<1>3. UNCHANGED works => TWorks'
  BY DEF IInv, Types, TWorks
<1>4. UNCHANGED syncVars => TSync'
  BY DEF IInv, Types, TSync, syncVars
<1>5. UNCHANGED files => TFiles'
  BY DEF IInv, Types, TFiles
<1>6. UNCHANGED <<aPc, aTodo, missing, wTodo, failed, away, here>> => TAgg'
  BY DEF IInv, Types, TAgg
<1>7. UNCHANGED map => TMap'
  BY DEF IInv, Types, TMap
<1>8. UNCHANGED reports => TReports'
  BY DEF IInv, Types, TReports
<1>9. UNCHANGED statusVars => TStatus'
  BY DEF IInv, Types, TStatus, statusVars
<1>10. UNCHANGED <<pending, fresh>> => TFresh'
  BY DEF IInv, Types, TFresh
<1>11. UNCHANGED given => TGiven' /\ GivenGrows
  BY DEF IInv, Types, TGiven, GivenGrows
<1>12. UNCHANGED <<changes, faults, crashes>> => TBounds'
  BY DEF IInv, Types, TBounds
<1> QED BY <1>1, <1>2, <1>3, <1>4, <1>5, <1>6, <1>7, <1>8, <1>9, <1>10, <1>11, <1>12

\* A feedback stays given.
LEMMA FlowFrames ==
  ASSUME IInv, GivenGrows
  PROVE  /\ UNCHANGED works => FWorks'
         /\ UNCHANGED map => FMap'
         /\ UNCHANGED reports => FReports'
         /\ UNCHANGED <<conds, rSet>> => FConds'
         /\ UNCHANGED <<conds, rTodo, rPc, rCur>> => FTodo'
         /\ UNCHANGED <<apps, rSet, conds, rPc, rCur, oldStatus>> /\ (fresh' => fresh) => FFresh'
<1>1. UNCHANGED works => FWorks'
  BY DEF IInv, Flow, FWorks, GivenGrows, Read
<1>2. UNCHANGED map => FMap'
  BY DEF IInv, Flow, FMap, GivenGrows, Read
<1>3. UNCHANGED reports => FReports'
  BY DEF IInv, Flow, FReports, GivenGrows, Pairs
<1>4. UNCHANGED <<conds, rSet>> => FConds'
  BY DEF IInv, Types, TStatus, Flow, FConds, GivenGrows, Pairs
<1>5. UNCHANGED <<conds, rTodo, rPc, rCur>> => FTodo'
  BY DEF IInv, Flow, FTodo, Healthy
<1>6. UNCHANGED <<apps, rSet, conds, rPc, rCur, oldStatus>> /\ (fresh' => fresh) => FFresh'
  BY DEF IInv, Flow, FFresh, Healthy
<1> QED BY <1>1, <1>2, <1>3, <1>4, <1>5, <1>6

\* Unless an Application is written, StatusFeed sees at most feedbacks that are given.
LEMMA FeedGives ==
  ASSUME GivenGrows, UNCHANGED apps
  PROVE  FeedStep
BY DEF GivenGrows, FeedStep, Feed!Next, Feed!Give

\* At first no feedback has been given but Unknown, and nothing is under way.
LEMMA ReportsInit == Init => IInv
<1> SUFFICES ASSUME Init PROVE IInv
  OBVIOUS
<1> USE Constants
<1>1. TSearch
  BY DEF Init, TSearch, Verdicts
<1>2. TApps /\ TWorks /\ TMap
  BY DEF Init, TApps, TWorks, TMap, App, Work
<1>3. TSync
  BY DEF Init, TSync
<1>4. TFiles
  BY DEF Init, TFiles, NoFile
<1>5. TAgg
  BY DEF Init, TAgg
<1>6. TReports
  BY DEF Init, TReports
<1>7. TStatus /\ TFresh
  BY DEF Init, TStatus, TFresh
<1>8. TGiven
  BY DEF Init, TGiven
<1>9. TBounds
  BY ReportsAssumption DEF Init, TBounds, ReportsAssumption
<1>10. FWorks /\ FMap
  BY DEF Init, FWorks, FMap
<1>11. FReports /\ FConds
  BY DEF Init, FReports, FConds
<1>12. FTodo /\ FFresh
  BY DEF Init, FTodo, FFresh
<1> QED BY <1>1, <1>2, <1>3, <1>4, <1>5, <1>6, <1>7, <1>8, <1>9, <1>10, <1>11, <1>12
        DEF IInv, Types, Flow

-----------------------------------------------------------------------------
(* The environment. *)

\* Each kind of step uses up one bound at most.
LEMMA Counted ==
  ASSUME IInv,
         \/ UNCHANGED <<faults, crashes>> /\ \E k : Change(k)
         \/ UNCHANGED <<changes, crashes>> /\ (Fault \/ Succeed \/ Enabled)
         \/ UNCHANGED <<changes, faults>> /\ crashes < MaxCrashes /\ crashes' = crashes + 1
  PROVE  TBounds'
BY ReportsAssumption DEF ReportsAssumption, IInv, Types, TBounds, Change, Fault, Succeed, Enabled

\* What the environment leaves alone.
LEMMA EnvironmentTogether ==
  ASSUME IInv, EnvUnchanged, fresh' \in BOOLEAN, fresh' => fresh, TSearch', TApps', TWorks', TAgg',
         TGiven', TBounds', GivenGrows, FWorks', FFresh', UNCHANGED map
  PROVE  IInv'
<1>1. UNCHANGED <<files, reports, syncVars, statusVars, pending>>
  BY DEF EnvUnchanged
<1>2. TSync' /\ TFiles' /\ TMap' /\ TReports' /\ TStatus'
  BY <1>1, ReportsFrames
<1>3. TFresh'
  BY <1>1 DEF IInv, Types, TFresh
<1>4. UNCHANGED <<rPc, rSet, conds, rTodo, rCur, oldStatus, reports>>
  BY <1>1 DEF statusVars
<1>5. FMap' /\ FReports' /\ FConds' /\ FTodo'
  BY <1>4, FlowFrames
<1> QED BY <1>2, <1>3, <1>5 DEF IInv, Types, Flow

\* The environment writes no local of a program.
LEMMA MapStays == EnvUnchanged => UNCHANGED <<map, statusVars, aPc, aTodo, missing, wTodo, failed>>
BY DEF EnvUnchanged, aggVars

\* The Applications of an ApplicationSet go, or come: none of them is the one at hand.
LEMMA AppSetMoves ==
  ASSUME IInv, NEW a \in AppSets, NEW e \in BOOLEAN,
         apps' = [p \in Pairs |-> IF p[1] = a THEN [exists |-> e, status |-> NoStatus] ELSE apps[p]],
         Stale({a} \X Clusters), UNCHANGED statusVars, UNCHANGED given
  PROVE  TApps' /\ fresh' \in BOOLEAN /\ (fresh' => fresh) /\ FFresh' /\ FeedStep
<1>1. fresh' \in BOOLEAN /\ (fresh' => fresh /\ <<rSet, rCur>> \notin {a} \X Clusters)
  BY DEF Stale, IInv, Types, TFresh
<1>2. TApps'
  BY Constants DEF IInv, Types, TApps, App
<1>3. rSet \in AppSets /\ rCur \in Clusters /\ <<rSet, rCur>> \in Pairs
  BY DEF IInv, Types, TStatus, Pairs
<1>4. fresh' => rSet # a
  BY <1>1, <1>3
<1>5. fresh' => apps'[<<rSet, rCur>>] = apps[<<rSet, rCur>>]
  BY <1>3, <1>4
<1>6. UNCHANGED <<rPc, rSet, conds, rCur, oldStatus>>
  BY DEF statusVars
<1>7. FFresh'
  BY <1>1, <1>5, <1>6 DEF IInv, Flow, FFresh, Healthy
<1>8. FeedStep
  <2> DEFINE S == {p \in Pairs : p[1] = a}
             shown == [p \in Pairs |-> apps[p].status]
  <2>1. S \in SUBSET Pairs
    OBVIOUS
  <2>2. shown' = [p \in Pairs |-> IF p \in S THEN Feed!NoStatus ELSE shown[p]]
    BY DEF Feed!NoStatus, NoStatus
  <2>3. \A p \in Pairs : given[p] \subseteq given'[p]
    OBVIOUS
  <2> HIDE DEF S, shown
  <2>4. Feed!Restart
    BY <2>1, <2>2, <2>3 DEF Feed!Restart, shown
  <2> QED BY <2>4 DEF FeedStep, Feed!Next
<1> QED BY <1>1, <1>2, <1>7, <1>8

\* Every step of the environment; a feedback that is given is new to StatusFeed.
LEMMA ReportsEnvironment == IInv /\ Environment => IInv' /\ FeedStep
<1> SUFFICES ASSUME IInv, Environment PROVE IInv' /\ FeedStep
  OBVIOUS
<1>1. ASSUME NEW a \in AppSets, DeleteAppSet(a) PROVE IInv' /\ FeedStep
  <2>1. UNCHANGED <<search, disabled, given, here>> /\ EnvUnchanged
    BY <1>1 DEF DeleteAppSet
  <2>2. TApps' /\ fresh' \in BOOLEAN /\ (fresh' => fresh) /\ FFresh' /\ FeedStep
    BY <1>1, <2>1, MapStays, AppSetMoves DEF DeleteAppSet
  <2>3. TSearch' /\ TAgg'
    BY <1>1, <2>1, MapStays DEF DeleteAppSet, IInv, Types, TSearch, TAgg
  <2>4. PICK S \in SUBSET Pairs :
          works' = [p \in Pairs |-> IF p \in S THEN [works[p] EXCEPT !.state = "deleting"] ELSE works[p]]
    BY <1>1 DEF DeleteAppSet
  <2>5. TWorks'
    BY <2>4 DEF IInv, Types, TWorks, Work
  <2>6. \A p \in Pairs : works'[p].feedback = works[p].feedback
    BY <2>4 DEF IInv, Types, TWorks, Work
  <2>7. FWorks'
    BY <2>1, <2>6 DEF IInv, Flow, FWorks, Read
  <2>8. TBounds'
    BY <1>1, Counted DEF DeleteAppSet, EnvUnchanged
  <2> QED BY <2>1, <2>2, <2>3, <2>5, <2>7, <2>8, MapStays, ReportsFrames, EnvironmentTogether
<1>2. ASSUME NEW a \in AppSets, CreateAppSet(a) PROVE IInv' /\ FeedStep
  <2>1. UNCHANGED <<works, search, disabled, given, away>> /\ EnvUnchanged
    BY <1>2 DEF CreateAppSet
  <2>2. TApps' /\ fresh' \in BOOLEAN /\ (fresh' => fresh) /\ FFresh' /\ FeedStep
    BY <1>2, <2>1, MapStays, AppSetMoves DEF CreateAppSet
  <2>3. TSearch' /\ TAgg'
    BY <1>2, <2>1, MapStays DEF CreateAppSet, IInv, Types, TSearch, TAgg
  <2>4. TBounds'
    BY <1>2, Counted DEF CreateAppSet, EnvUnchanged
  <2> QED BY <2>1, <2>2, <2>3, <2>4, MapStays, ReportsFrames, FlowFrames, EnvironmentTogether
<1>3. ASSUME NEW p \in Pairs, Propagate(p) \/ Retire(p) PROVE IInv' /\ FeedStep
  <2>1. UNCHANGED <<appsets, apps, search, disabled, fresh, history, changes>> /\ EnvUnchanged
    BY <1>3 DEF Propagate, Retire
  <2>2. PICK s \in {"none", "live"} :
          works' = [works EXCEPT ![p] = [state |-> s, feedback |-> NoStatus]]
    BY <1>3 DEF Propagate, Retire, NoWork
  <2>3. TWorks'
    BY <2>2, Constants DEF IInv, Types, TWorks, Work
  <2>4. FWorks'
    <3>1. \A q \in Pairs : works'[q].feedback = works[q].feedback \/ works'[q].feedback = NoStatus
      BY <2>2 DEF IInv, Types, TWorks
    <3>2. UNCHANGED given
      BY <2>1 DEF history
    <3> QED BY <3>1, <3>2, Constants DEF IInv, Flow, FWorks, Types, TGiven, Read
  <2>5. UNCHANGED <<given, away, here, changes, faults, crashes, fresh, apps>>
    BY <2>1 DEF history, EnvUnchanged
  <2>6. fresh' \in BOOLEAN
    BY <2>5 DEF IInv, Types, TFresh
  <2>7. TSearch' /\ TAgg' /\ TApps' /\ TGiven' /\ GivenGrows /\ TBounds'
    BY <2>1, <2>5, MapStays, ReportsFrames
  <2>8. FFresh' /\ FeedStep
    BY <2>1, <2>5, <2>7, MapStays, FlowFrames, FeedGives DEF statusVars
  <2> QED BY <2>1, <2>3, <2>4, <2>5, <2>6, <2>7, <2>8, MapStays, EnvironmentTogether
<1>4. ASSUME NEW p \in Pairs, EditApplication(p) PROVE IInv' /\ FeedStep
  <2>1. UNCHANGED <<envVars, history>> /\ EnvUnchanged
    BY <1>4 DEF EditApplication
  <2>2. UNCHANGED <<appsets, apps, works, search, disabled, given, away, here>>
    BY <2>1 DEF envVars, history
  <2>3. fresh' \in BOOLEAN /\ (fresh' => fresh)
    BY <1>4 DEF EditApplication, Stale, IInv, Types, TFresh
  <2>4. TBounds'
    BY <1>4, <2>1, Counted DEF EditApplication, EnvUnchanged
  <2>5. TSearch' /\ TAgg' /\ TApps' /\ TWorks' /\ TGiven' /\ GivenGrows
    BY <2>1, <2>2, MapStays, ReportsFrames
  <2>6. FFresh' /\ FWorks' /\ FeedStep
    BY <2>1, <2>2, <2>3, <2>5, MapStays, FlowFrames, FeedGives DEF statusVars
  <2> QED BY <2>1, <2>3, <2>4, <2>5, <2>6, MapStays, EnvironmentTogether
<1>5. ASSUME NEW p \in Pairs, NEW h \in Healths, Feedback(p, h) PROVE IInv' /\ FeedStep
  <2> DEFINE f == [health |-> h, ver |-> changes']
  <2>1. UNCHANGED <<appsets, apps, search, disabled, fresh, away, here>> /\ EnvUnchanged
    BY <1>5 DEF Feedback
  <2>2. TBounds'
    BY <1>5, <2>1, Counted DEF Feedback, EnvUnchanged
  <2>3. f \in Status /\ f.health # "none"
    <3>1. changes' \in Nat
      BY <2>2, ReportsAssumption DEF TBounds, ReportsAssumption
    <3>2. h \in {"Healthy", "Degraded", "Progressing"}
      BY ReportsAssumption DEF ReportsAssumption
    <3> QED BY <3>1, <3>2 DEF Status
  <2>4. works' = [works EXCEPT ![p].feedback = f] /\ given' = [given EXCEPT ![p] = @ \cup {f}]
    BY <1>5 DEF Feedback
  <2> HIDE DEF f
  <2>5. TGiven' /\ GivenGrows
    BY <2>3, <2>4 DEF IInv, Types, TGiven, GivenGrows
  <2>6. TWorks'
    BY <2>3, <2>4 DEF IInv, Types, TWorks, Work
  <2>7. f \in given'[p] /\ Read(f) = f
    BY <2>3, <2>4 DEF IInv, Types, TGiven, Read, NoStatus
  <2>8. \A q \in Pairs : works'[q].feedback = IF q = p THEN f ELSE works[q].feedback
    BY <2>4 DEF IInv, Types, TWorks, Work
  <2>9. FWorks'
    BY <2>5, <2>7, <2>8 DEF IInv, Flow, FWorks, GivenGrows, Read
  <2>10. fresh' \in BOOLEAN
    BY <2>1 DEF IInv, Types, TFresh
  <2>11. TSearch' /\ TAgg' /\ TApps'
    BY <2>1, MapStays, ReportsFrames
  <2>12. FFresh' /\ FeedStep
    BY <2>1, <2>5, MapStays, FlowFrames, FeedGives DEF statusVars
  <2> QED BY <2>1, <2>2, <2>5, <2>6, <2>9, <2>10, <2>11, <2>12, MapStays, EnvironmentTogether
<1>6. ASSUME NEW p \in Pairs, NEW v \in Verdicts, EditSearch(p, v) PROVE IInv' /\ FeedStep
  <2>1. UNCHANGED <<appsets, apps, works, disabled, files, reports, sPc, found, sTodo, sFile,
                    aggVars, statusVars, pending, fresh, history, faults, crashes>>
    BY <1>6 DEF EditSearch
  <2>2. TSearch'
    <3>1. p[1] \in AppSets /\ p[2] \in Clusters
      BY DEF Pairs
    <3> QED BY <1>6, <2>1, <3>1 DEF EditSearch, IInv, Types, TSearch
  <2>3. TSync'
    BY <1>6, <2>1 DEF EditSearch, IInv, Types, TSync
  <2>4. TBounds'
    BY <1>6, <2>1, Counted DEF EditSearch
  <2>5. UNCHANGED <<map, aPc, aTodo, missing, wTodo, failed, given, away, here,
                    rPc, rSet, conds, rTodo, rCur, oldStatus>>
    BY <2>1 DEF aggVars, statusVars, history
  <2>6. /\ TApps' /\ TWorks' /\ TFiles' /\ TAgg' /\ TMap' /\ TReports' /\ TStatus' /\ TFresh' /\ TGiven'
        /\ GivenGrows
    BY <2>1, <2>5, ReportsFrames
  <2>7. FWorks' /\ FMap' /\ FReports' /\ FConds' /\ FTodo' /\ FFresh' /\ FeedStep
    BY <2>1, <2>5, <2>6, FlowFrames, FeedGives
  <2> QED BY <2>2, <2>3, <2>4, <2>6, <2>7 DEF IInv, Types, Flow
<1>7. CASE DisablePullModel
  <2>1. UNCHANGED <<appsets, apps, works, search, fresh, history>> /\ EnvUnchanged
    BY <1>7 DEF DisablePullModel
  <2>2. TSearch'
    BY <1>7, <2>1 DEF DisablePullModel, IInv, Types, TSearch
  <2>3. TBounds'
    BY <1>7, <2>1, Counted DEF DisablePullModel, EnvUnchanged
  <2>4. UNCHANGED <<given, away, here>>
    BY <2>1 DEF history
  <2>5. fresh' \in BOOLEAN
    BY <2>1 DEF IInv, Types, TFresh
  <2>6. TAgg' /\ TApps' /\ TWorks' /\ TGiven' /\ GivenGrows
    BY <2>1, <2>4, MapStays, ReportsFrames
  <2>7. FFresh' /\ FWorks' /\ FeedStep
    BY <2>1, <2>6, MapStays, FlowFrames, FeedGives DEF statusVars
  <2> QED BY <2>1, <2>2, <2>3, <2>5, <2>6, <2>7, MapStays, EnvironmentTogether
<1> QED BY <1>1, <1>2, <1>3, <1>4, <1>5, <1>6, <1>7 DEF Environment

-----------------------------------------------------------------------------
(* gitopssyncresc: it writes files, and no feedback passes through them. *)

\* A step of gitopssyncresc that keeps its types is a stutter of StatusFeed.
LEMMA SyncTogether ==
  ASSUME IInv, SyncUnchanged, TSync', TFiles', Fault \/ Succeed \/ Enabled
  PROVE  IInv' /\ FeedStep
<1>1. UNCHANGED <<appsets, apps, works, search, disabled, reports, aggVars, statusVars, pending,
                  fresh, given, away, here, changes, crashes>>
  BY DEF SyncUnchanged, envVars, history
<1>2. UNCHANGED <<map, aPc, aTodo, missing, wTodo, failed, rPc, rSet, conds, rTodo, rCur, oldStatus>>
  BY <1>1 DEF aggVars, statusVars
<1>3. /\ TSearch' /\ TApps' /\ TWorks' /\ TAgg' /\ TMap' /\ TReports' /\ TStatus' /\ TFresh' /\ TGiven'
      /\ GivenGrows
  BY <1>1, <1>2, ReportsFrames
<1>4. TBounds'
  BY <1>1, Counted
<1>5. FWorks' /\ FMap' /\ FReports' /\ FConds' /\ FTodo' /\ FFresh' /\ FeedStep
  BY <1>1, <1>2, <1>3, FlowFrames, FeedGives
<1> QED BY <1>3, <1>4, <1>5 DEF IInv, Types, Flow

\* A pass of gitopssyncresc ends.
LEMMA SyncEnds ==
  ASSUME IInv, SyncIdle, UNCHANGED sFile
  PROVE  TSync'
BY Constants DEF SyncIdle, IInv, Types, TSync

\* One file is written.
LEMMA FileWritten ==
  ASSUME IInv, NEW a \in AppSets, NEW f \in [state : {"absent", "torn", "whole"},
                                             entries : [Clusters -> Verdicts]],
         files' = [files EXCEPT ![a] = f]
  PROVE  TFiles'
BY DEF IInv, Types, TFiles

\* Every step of gitopssyncresc.
LEMMA ReportsSync == IInv /\ SyncResources => IInv' /\ FeedStep
<1> SUFFICES ASSUME IInv, SyncResources PROVE IInv' /\ FeedStep
  OBVIOUS
<1>1. CASE SyncBegin
  <2>1. TSync'
    BY <1>1 DEF SyncBegin, IInv, Types, TSync
  <2>2. TFiles'
    BY <1>1, ReportsFrames DEF SyncBegin
  <2> QED BY <1>1, <2>1, <2>2, SyncTogether DEF SyncBegin
<1>2. CASE SyncPagesEnd
  <2>1. TSync'
    BY <1>2 DEF SyncPagesEnd, ToWrite, IInv, Types, TSync
  <2>2. TFiles'
    BY <1>2, ReportsFrames DEF SyncPagesEnd
  <2> QED BY <1>2, <2>1, <2>2, SyncTogether DEF SyncPagesEnd
<1>3. CASE WriteFileEnd
  <2>1. TSync'
    <3>1. CASE SyncIdle
      BY <1>3, <3>1, SyncEnds DEF WriteFileEnd
    <3>2. CASE sPc' = "files" /\ UNCHANGED <<found, shifted, sTodo, sFile>>
      BY <3>2 DEF IInv, Types, TSync
    <3> QED BY <1>3, <3>1, <3>2 DEF WriteFileEnd
  <2>2. TFiles'
    <3> DEFINE f == IF files[sFile].state = "absent" THEN files[sFile]
                    ELSE [state |-> "whole", entries |-> found[sFile]]
    <3>1. sFile \in AppSets /\ f \in [state : {"absent", "torn", "whole"},
                                      entries : [Clusters -> Verdicts]]
      BY DEF IInv, Types, TFiles, TSync
    <3>2. UNCHANGED files \/ files' = [files EXCEPT ![sFile] = f]
      BY <1>3 DEF WriteFileEnd
    <3> HIDE DEF f
    <3> QED BY <3>1, <3>2, FileWritten, ReportsFrames
  <2> QED BY <1>3, <2>1, <2>2, SyncTogether DEF WriteFileEnd
<1>4. CASE SyncEnd
  <2>1. TSync' /\ TFiles'
    BY <1>4, SyncEnds, ReportsFrames DEF SyncEnd
  <2> QED BY <1>4, <2>1, SyncTogether DEF SyncEnd, Succeed
<1>5. ASSUME NEW p \in Pairs, SyncPage(p) PROVE IInv' /\ FeedStep
  <2>1. TSync'
    <3>1. p[1] \in AppSets /\ p[2] \in Clusters
      BY DEF Pairs
    <3> QED BY <1>5, <3>1 DEF SyncPage, IInv, Types, TSync, TSearch
  <2>2. TFiles'
    BY <1>5, ReportsFrames DEF SyncPage
  <2> QED BY <1>5, <2>1, <2>2, SyncTogether DEF SyncPage
<1>6. ASSUME NEW a \in AppSets, WriteFile(a) PROVE IInv' /\ FeedStep
  <2>1. TSync'
    <3>1. UNCHANGED <<found, shifted>> \/ SyncIdle
      BY <1>6 DEF WriteFile
    <3>2. CASE ~SyncIdle
      BY <1>6, <3>1, <3>2 DEF WriteFile, IInv, Types, TSync
    <3>3. CASE SyncIdle
      BY <1>6, <3>3, Constants DEF WriteFile, SyncIdle, IInv, Types, TSync
    <3> QED BY <3>2, <3>3
  <2>2. TFiles'
    <3>1. TornFile \in [state : {"absent", "torn", "whole"}, entries : [Clusters -> Verdicts]]
      BY Constants DEF TornFile
    <3>2. UNCHANGED files \/ files' = [files EXCEPT ![a] = TornFile]
      BY <1>6 DEF WriteFile
    <3> QED BY <3>1, <3>2, FileWritten, ReportsFrames
  <2> QED BY <1>6, <2>1, <2>2, SyncTogether DEF WriteFile
<1> QED BY <1>1, <1>2, <1>3, <1>4, <1>5, <1>6 DEF SyncResources

-----------------------------------------------------------------------------
(* multiclusterstatusaggregation: a feedback goes from its ManifestWork into the map, and from
   there into the report of its ApplicationSet. *)

\* So is a step of the aggregation, if what it puts into the map or a report was given.
LEMMA AggTogether ==
  ASSUME IInv, AggUnchanged, Fault \/ Succeed \/ Enabled, TWorks', FWorks', TFiles', TReports',
         FReports', TMap', FMap', TAgg', pending' \subseteq AppSets
  PROVE  IInv' /\ FeedStep
<1>1. UNCHANGED <<appsets, apps, search, disabled, syncVars, statusVars, fresh, given, changes, crashes>>
  BY DEF AggUnchanged
<1>2. UNCHANGED <<rPc, rSet, conds, rTodo, rCur, oldStatus>>
  BY <1>1 DEF statusVars
<1>3. TSearch' /\ TApps' /\ TSync' /\ TStatus' /\ TGiven' /\ GivenGrows
  BY <1>1, ReportsFrames
<1>4. TBounds'
  BY <1>1, Counted
<1>5. TFresh'
  BY <1>1 DEF IInv, Types, TFresh
<1>6. FConds' /\ FTodo' /\ FFresh' /\ FeedStep
  BY <1>1, <1>2, <1>3, FlowFrames, FeedGives
<1> QED BY <1>3, <1>4, <1>5, <1>6 DEF IInv, Types, Flow

\* The steps that change nothing but the locals of the pass.
LEMMA AggLocal ==
  ASSUME IInv, AggUnchanged, Fault \/ Succeed \/ Enabled,
         UNCHANGED <<works, files, reports, pending>>, TMap', FMap', TAgg'
  PROVE  IInv' /\ FeedStep
<1>1. GivenGrows
  BY ReportsFrames DEF AggUnchanged
<1>2. TWorks' /\ FWorks' /\ TFiles' /\ TReports' /\ FReports'
  BY <1>1, ReportsFrames, FlowFrames
<1>3. pending' \subseteq AppSets
  BY DEF IInv, Types, TFresh
<1> QED BY <1>2, <1>3, AggTogether

\* The map is kept, taken from the ManifestWorks, or dropped.
LEMMA MapFrame ==
  ASSUME IInv, UNCHANGED given, UNCHANGED map \/ map' = works \/ map' = NoWorks
  PROVE  TMap' /\ FMap'
<1>1. CASE UNCHANGED map
  BY <1>1, ReportsFrames, FlowFrames
<1>2. CASE map' = works
  BY <1>2 DEF IInv, Types, TWorks, TMap, Flow, FWorks, FMap, Read
<1>3. CASE map' = NoWorks
  <2>1. TMap'
    BY <1>3, Constants DEF NoWorks, TMap
  <2>2. \A p \in Pairs : map'[p].feedback = NoStatus
    BY <1>3, Constants DEF NoWorks
  <2> QED BY <2>1, <2>2, Constants DEF FMap, Read, IInv, Types, TGiven
<1> QED BY <1>1, <1>2, <1>3

\* A pass of the aggregation ends.
LEMMA AggEnds == AggIdle => TAgg' /\ map' = NoWorks
BY DEF AggIdle, TAgg

\* A pass goes on from one of its stages to the next.
LEMMA ReportsPass ==
  ASSUME IInv,
         TickBegin \/ ListWorksFails \/ AggReportsEnd \/ CheckEnd \/ TickEnd
  PROVE  IInv' /\ FeedStep
<1>1. CASE TickBegin
  <2>1. TAgg'
    BY <1>1 DEF TickBegin, IInv, Types, TAgg, TSearch
  <2>2. TMap' /\ FMap'
    BY <1>1, MapFrame DEF TickBegin, AggUnchanged
  <2> QED BY <1>1, <2>1, <2>2, AggLocal DEF TickBegin
<1>2. CASE ListWorksFails
  <2>1. TAgg'
    BY <1>2 DEF ListWorksFails, IInv, Types, TAgg, TSearch
  <2>2. TMap' /\ FMap'
    BY <1>2, MapFrame DEF ListWorksFails, AggUnchanged
  <2> QED BY <1>2, <2>1, <2>2, AggLocal DEF ListWorksFails
<1>3. CASE AggReportsEnd
  <2>1. TAgg'
    BY <1>3 DEF AggReportsEnd, IInv, Types, TAgg
  <2>2. TMap' /\ FMap'
    BY <1>3, MapFrame DEF AggReportsEnd, AggUnchanged
  <2> QED BY <1>3, <2>1, <2>2, AggLocal DEF AggReportsEnd, Succeed
<1>4. CASE CheckEnd
  <2>1. TAgg'
    <3>1. UNION {Named(a) : a \in missing} \subseteq Pairs
      BY DEF IInv, Types, TAgg, Named, Pairs
    <3> QED BY <1>4, <3>1 DEF CheckEnd, IInv, Types, TAgg
  <2>2. TMap' /\ FMap'
    BY <1>4, MapFrame DEF CheckEnd, AggUnchanged
  <2> QED BY <1>4, <2>1, <2>2, AggLocal DEF CheckEnd, Succeed
<1>5. CASE TickEnd
  <2>1. TAgg' /\ TMap' /\ FMap'
    BY <1>5, AggEnds, MapFrame DEF TickEnd, AggUnchanged
  <2> QED BY <1>5, <2>1, AggLocal DEF TickEnd, Succeed
<1> QED BY <1>1, <1>2, <1>3, <1>4, <1>5

\* What a report says of a cluster comes from the ManifestWork of that Application.
LEMMA CombinedIsGiven ==
  ASSUME IInv, NEW a \in AppSets
  PROVE  /\ Combined(a) \in [Clusters -> Cond]
         /\ \A c \in Clusters : Combined(a)[c].named => Combined(a)[c].feedback \in given[<<a, c>>]
<1> SUFFICES ASSUME NEW c \in Clusters
             PROVE  /\ Combined(a)[c] \in Cond
                    /\ Combined(a)[c].named => Combined(a)[c].feedback \in given[<<a, c>>]
  BY DEF Combined
<1> DEFINE w == map[<<a, c>>]
<1>1. <<a, c>> \in Pairs
  BY DEF Pairs
<1>2. w \in Work /\ Read(w.feedback) \in given[<<a, c>>] /\ given[<<a, c>>] \in SUBSET Status
  BY <1>1 DEF IInv, Types, TMap, TGiven, Flow, FMap
<1>3. files[a].entries[c] \in Verdicts
  BY DEF IInv, Types, TFiles
<1>4. Combined(a)[c] = [feedback |-> IF w.state = "none" THEN NoStatus ELSE Read(w.feedback),
                        search |-> files[a].entries[c], named |-> w.state # "none"]
  BY DEF Combined
<1> HIDE DEF w
<1> QED BY <1>2, <1>3, <1>4, Constants DEF Cond

\* generateAppSetReport writes one report from the map.
LEMMA ReportsReport ==
  ASSUME IInv, NEW a \in AppSets, AggReport(a)
  PROVE  IInv' /\ FeedStep
<1>1. TAgg'
  BY DEF AggReport, IInv, Types, TAgg
<1>2. UNCHANGED <<works, files, map, given>>
  BY DEF AggReport, AggUnchanged
<1>3. TMap' /\ FMap' /\ TWorks' /\ FWorks' /\ TFiles'
  BY <1>2, MapFrame, ReportsFrames, FlowFrames
<1>4. pending' \subseteq AppSets
  BY DEF AggReport, IInv, Types, TFresh
<1>5. \/ UNCHANGED reports
      \/ reports' = [reports EXCEPT ![a] = [exists |-> TRUE, conds |-> Combined(a)]]
      \/ reports' = [reports EXCEPT ![a].exists = TRUE]
  BY DEF AggReport
<1>6. TReports'
  <2> DEFINE Report == [exists : BOOLEAN, conds : [Clusters -> Cond]]
             r1 == [exists |-> TRUE, conds |-> Combined(a)]
             r2 == [reports[a] EXCEPT !.exists = TRUE]
  <2>1. r1 \in Report
    BY CombinedIsGiven
  <2>2. r2 \in Report
    BY DEF IInv, Types, TReports
  <2>3. UNCHANGED reports \/ reports' = [reports EXCEPT ![a] = r1] \/ reports' = [reports EXCEPT ![a] = r2]
    BY <1>5
  <2>4. reports \in [AppSets -> Report]
    BY DEF IInv, Types, TReports
  <2> HIDE DEF Report, r1, r2
  <2>5. reports' \in [AppSets -> Report]
    BY <2>1, <2>2, <2>3, <2>4
  <2> QED BY <2>5 DEF TReports, Report
<1>7. \A b \in AppSets : reports'[b].conds = reports[b].conds \/ (b = a /\ reports'[b].conds = Combined(a))
  BY <1>5 DEF IInv, Types, TReports
<1>8. FReports'
  <2> SUFFICES ASSUME NEW b \in AppSets, NEW c \in Clusters, reports'[b].conds[c].named
               PROVE  reports'[b].conds[c].feedback \in given[<<b, c>>]
    BY <1>2 DEF FReports
  <2>1. CASE reports'[b].conds = reports[b].conds
    BY <2>1 DEF IInv, Flow, FReports
  <2>2. CASE b = a /\ reports'[b].conds = Combined(a)
    BY <2>2, CombinedIsGiven
  <2> QED BY <1>7, <2>1, <2>2
<1> QED BY <1>1, <1>3, <1>4, <1>6, <1>8, AggTogether DEF AggReport

\* The files of a pass: looked up one by one, and removed together.
LEMMA ReportsFiles ==
  ASSUME IInv,
         RemoveFiles \/ \E a \in AppSets : CheckFile(a) \/ CheckReport(a)
  PROVE  IInv' /\ FeedStep
<1>1. CASE RemoveFiles
  <2>1. TAgg' /\ (UNCHANGED map \/ map' = NoWorks)
    <3>1. CASE AggIdle
      BY <3>1, AggEnds
    <3>2. CASE ~AggIdle
      BY <1>1, <3>2 DEF RemoveFiles, IInv, Types, TAgg
    <3> QED BY <3>1, <3>2
  <2>2. UNCHANGED <<works, reports, pending, given>>
    BY <1>1 DEF RemoveFiles, AggUnchanged
  <2>3. TFiles'
    <3>1. NoFile \in [state : {"absent", "torn", "whole"}, entries : [Clusters -> Verdicts]]
      BY Constants DEF NoFile
    <3> QED BY <1>1, <3>1 DEF RemoveFiles, IInv, Types, TFiles
  <2>4. TMap' /\ FMap' /\ TWorks' /\ FWorks' /\ TReports' /\ FReports'
    BY <2>1, <2>2, MapFrame, ReportsFrames, FlowFrames
  <2>5. pending' \subseteq AppSets
    BY <2>2 DEF IInv, Types, TFresh
  <2>6. (Fault \/ Succeed) /\ AggUnchanged
    BY <1>1 DEF RemoveFiles
  <2> QED BY <2>1, <2>3, <2>4, <2>5, <2>6, AggTogether
<1>2. ASSUME NEW a \in AppSets, CheckFile(a) PROVE IInv' /\ FeedStep
  <2>1. TAgg'
    BY <1>2 DEF CheckFile, IInv, Types, TAgg
  <2>2. TMap' /\ FMap'
    BY <1>2, MapFrame DEF CheckFile, AggUnchanged
  <2> QED BY <1>2, <2>1, <2>2, AggLocal DEF CheckFile
<1>3. ASSUME NEW a \in AppSets, CheckReport(a) PROVE IInv' /\ FeedStep
  <2>1. TAgg'
    BY <1>3 DEF CheckReport, IInv, Types, TAgg
  <2>2. TMap' /\ FMap'
    BY <1>3, MapFrame DEF CheckReport, AggUnchanged
  <2> QED BY <1>3, <2>1, <2>2, AggLocal DEF CheckReport, Gone
<1> QED BY <1>1, <1>2, <1>3

\* What a missing ApplicationSet left: its ManifestWorks keep their feedback to the end.
LEMMA ReportsDelete ==
  ASSUME IInv,
         (\E p \in Pairs : DeleteWork(p)) \/ \E a \in AppSets : DeleteReport(a)
  PROVE  IInv' /\ FeedStep
<1>1. ASSUME NEW p \in Pairs, DeleteWork(p) PROVE IInv' /\ FeedStep
  <2>1. UNCHANGED <<files, reports, pending, map, given>> /\ AggUnchanged
    BY <1>1 DEF DeleteWork, AggUnchanged
  <2>2. TAgg'
    <3>1. p[1] \in AppSets
      BY DEF Pairs
    <3>2. UNCHANGED failed \/ failed' = failed \cup {p[1]}
      BY <1>1 DEF DeleteWork, NotFoundIsFine, KeepFailure
    <3> QED BY <1>1, <3>1, <3>2 DEF DeleteWork, IInv, Types, TAgg
  <2>3. UNCHANGED works \/ works' = [works EXCEPT ![p].state = "deleting"]
    BY <1>1 DEF DeleteWork, NotFoundIsFine, KeepFailure
  <2>4. TWorks' /\ \A q \in Pairs : works'[q].feedback = works[q].feedback
    BY <2>3 DEF IInv, Types, TWorks, Work
  <2>5. FWorks'
    BY <2>1, <2>4 DEF IInv, Flow, FWorks, Read
  <2>6. TFiles' /\ TReports' /\ FReports' /\ TMap' /\ FMap'
    BY <2>1, MapFrame, ReportsFrames, FlowFrames
  <2>7. pending' \subseteq AppSets
    BY <2>1 DEF IInv, Types, TFresh
  <2>8. Fault \/ Succeed
    BY <1>1 DEF DeleteWork, NotFoundIsFine, KeepFailure
  <2> QED BY <2>1, <2>2, <2>4, <2>5, <2>6, <2>7, <2>8, AggTogether
<1>2. ASSUME NEW a \in AppSets, DeleteReport(a) PROVE IInv' /\ FeedStep
  <2>1. UNCHANGED <<works, files, map, given>> /\ AggUnchanged /\ (Fault \/ Succeed)
    BY <1>2 DEF DeleteReport, AggUnchanged
  <2>2. TAgg'
    BY <1>2 DEF DeleteReport, IInv, Types, TAgg
  <2>3. UNCHANGED reports \/ reports' = [reports EXCEPT ![a] = NoReport]
    BY <1>2 DEF DeleteReport
  <2>4. TReports' /\ \A b \in AppSets : reports'[b].conds = reports[b].conds
                                        \/ reports'[b].conds = NoReport.conds
    BY <2>3, Constants DEF IInv, Types, TReports
  <2>5. FReports'
    <3> SUFFICES ASSUME NEW b \in AppSets, NEW c \in Clusters, reports'[b].conds[c].named
                 PROVE  reports'[b].conds[c].feedback \in given[<<b, c>>]
      BY <2>1 DEF FReports
    <3>1. reports'[b].conds = reports[b].conds
      BY <2>4, Constants
    <3> QED BY <3>1 DEF IInv, Flow, FReports
  <2>6. TWorks' /\ FWorks' /\ TFiles' /\ TMap' /\ FMap'
    BY <2>1, MapFrame, ReportsFrames, FlowFrames
  <2>7. pending' \subseteq AppSets
    BY <1>2 DEF DeleteReport, IInv, Types, TFresh
  <2> QED BY <2>1, <2>2, <2>4, <2>5, <2>6, <2>7, AggTogether
<1> QED BY <1>1, <1>2

\* Every step of the aggregation.
LEMMA ReportsHouseKeeping == IInv /\ HouseKeeping => IInv' /\ FeedStep
BY ReportsPass, ReportsReport, ReportsFiles, ReportsDelete DEF HouseKeeping

-----------------------------------------------------------------------------
(* The Application status controller. *)

\* A step of the status controller keeps the rest of the invariant.
LEMMA StatusTogether ==
  ASSUME IInv, StatusUnchanged, Fault \/ Succeed \/ Enabled, TApps', TStatus', TFresh',
         FConds', FTodo', FFresh'
  PROVE  IInv'
<1>1. UNCHANGED <<appsets, works, search, disabled, files, reports, syncVars, map, aPc, aTodo,
                  missing, wTodo, failed, given, away, here, changes, crashes>>
  BY DEF StatusUnchanged, aggVars, history
<1>2. TSearch' /\ TWorks' /\ TSync' /\ TFiles' /\ TAgg' /\ TMap' /\ TReports' /\ TGiven' /\ GivenGrows
  BY <1>1, ReportsFrames
<1>3. TBounds'
  BY <1>1, Counted
<1>4. FWorks' /\ FMap' /\ FReports'
  BY <1>1, <1>2, FlowFrames
<1> QED BY <1>2, <1>3, <1>4 DEF IInv, Types, Flow

\* The steps that write no Application.
LEMMA StatusReads ==
  ASSUME IInv, StatusUnchanged, Fault \/ Succeed \/ Enabled, UNCHANGED apps, TStatus', TFresh',
         FConds', FTodo', FFresh'
  PROVE  IInv' /\ FeedStep
<1>1. UNCHANGED given
  BY DEF StatusUnchanged, history
<1> QED BY <1>1, StatusTogether, FeedGives, ReportsFrames

\* A reconcile, or the handling of one condition, ends: nothing is left of it.
LEMMA StatusRests ==
  ASSUME IInv, Rest, UNCHANGED <<rSet, given>>, rCur' \in Clusters, oldStatus' \in Status, ~fresh',
         fresh' \in BOOLEAN, pending' \subseteq AppSets
  PROVE  TStatus' /\ TFresh' /\ FConds' /\ FTodo' /\ FFresh'
<1>1. conds' \in [Clusters -> Cond] /\ \A c \in Clusters : ~conds'[c].named
  BY Constants DEF Rest
<1>2. TStatus' /\ TFresh'
  BY <1>1 DEF Rest, IInv, Types, TStatus, TFresh
<1>3. FConds' /\ FTodo' /\ FFresh'
  BY <1>1 DEF Rest, FConds, FTodo, FFresh
<1> QED BY <1>2, <1>3

\* A reconcile ends with an error and its report is queued again.
LEMMA StatusRequeues ==
  ASSUME IInv, Requeue, UNCHANGED <<rSet, given>>, rCur' \in Clusters
  PROVE  TStatus' /\ TFresh' /\ FConds' /\ FTodo' /\ FFresh'
<1>1. oldStatus' \in Status /\ fresh' = FALSE
  BY Constants DEF Requeue, Forget
<1>2. pending' \subseteq AppSets
  BY DEF Requeue, IInv, Types, TStatus, TFresh
<1> QED BY <1>1, <1>2, StatusRests DEF Requeue

\* A reconcile takes up a report: its conditions name what their clusters gave.
LEMMA ReportsStatusBegin ==
  ASSUME IInv, NEW a \in AppSets, StatusBegin(a)
  PROVE  IInv' /\ FeedStep
<1>1. UNCHANGED <<apps, rCur, oldStatus, fresh, given>> /\ StatusUnchanged /\ rSet' = a
  BY DEF StatusBegin, StatusUnchanged, history
<1>2. ~fresh /\ \A c \in Clusters : ~conds[c].named
  BY DEF StatusBegin, IInv, Flow, FTodo, FFresh
<1>3. reports[a].conds \in [Clusters -> Cond]
  BY DEF IInv, Types, TReports
<1>4. \/ UNCHANGED <<conds, rTodo, rPc>>
      \/ /\ conds' = reports[a].conds /\ rPc' = "apps"
         /\ rTodo' = {c \in Clusters : reports[a].conds[c].named}
  BY DEF StatusBegin
<1>5. TStatus'
  BY <1>1, <1>3, <1>4 DEF IInv, Types, TStatus
<1>6. TFresh'
  BY <1>1 DEF StatusBegin, IInv, Types, TFresh
<1>7. FConds'
  BY <1>1, <1>2, <1>4 DEF IInv, Flow, FReports, FConds
<1>8. FTodo'
  BY <1>1, <1>4 DEF IInv, Flow, FTodo, Healthy
<1>9. FFresh'
  BY <1>1, <1>2 DEF FFresh
<1>10. Fault \/ Succeed \/ Enabled
  BY DEF StatusBegin
<1> QED BY <1>1, <1>5, <1>6, <1>7, <1>8, <1>9, <1>10, StatusReads

\* An Application is read, and its version is current.
LEMMA ReportsStatusGet ==
  ASSUME IInv, NEW c \in Clusters, StatusGet(c)
  PROVE  IInv' /\ FeedStep
<1>1. UNCHANGED <<apps, rSet, given>> /\ StatusUnchanged /\ rCur' = c /\ (Fault \/ Succeed)
  BY DEF StatusGet, StatusUnchanged, history
<1>2. ~fresh /\ rSet \in AppSets /\ <<rSet, c>> \in Pairs
  BY DEF StatusGet, IInv, Types, TStatus, Flow, FFresh, Pairs
<1>3. CASE Requeue
  BY <1>1, <1>3, StatusRequeues, StatusReads
<1>4. CASE UNCHANGED <<conds, oldStatus, fresh, rPc, pending>> /\ rTodo' = rTodo \ {c}
  <2>1. TStatus' /\ TFresh'
    BY <1>1, <1>4 DEF IInv, Types, TStatus, TFresh
  <2>2. FConds' /\ FTodo' /\ FFresh'
    BY <1>1, <1>2, <1>4 DEF StatusGet, IInv, Flow, FConds, FTodo, FFresh, Healthy
  <2> QED BY <1>1, <2>1, <2>2, StatusReads
<1>5. CASE /\ rTodo' = rTodo \ {c} /\ UNCHANGED <<conds, pending>>
           /\ oldStatus' = apps[<<rSet, c>>].status /\ fresh' = TRUE /\ rPc' = FirstWrite(c)
  <2>1. apps[<<rSet, c>>].status \in Status
    BY <1>2 DEF IInv, Types, TApps, App
  <2>2. TStatus'
    BY <1>1, <1>5, <2>1 DEF FirstWrite, IInv, Types, TStatus
  <2>3. TFresh'
    BY <1>5 DEF IInv, Types, TFresh
  <2>4. conds[c].named
    BY DEF StatusGet, IInv, Flow, FTodo
  <2>5. FConds' /\ FTodo'
    BY <1>1, <1>5, <2>4 DEF StatusGet, IInv, Flow, FConds, FTodo, Healthy, FirstWrite
  <2>6. FFresh'
    BY <1>1, <1>5 DEF FFresh, Healthy, FirstWrite
  <2> QED BY <1>1, <2>2, <2>3, <2>5, <2>6, StatusReads
<1> QED BY <1>3, <1>4, <1>5 DEF StatusGet

\* The Application at hand, and what StatusFeed sees of it.
LEMMA AtHand ==
  ASSUME IInv, rPc \in {"first", "second"}
  PROVE  /\ <<rSet, rCur>> \in Pairs /\ rSet \in AppSets /\ rCur \in Clusters
         /\ conds[rCur].named /\ conds[rCur].feedback \in Status
         /\ conds[rCur].feedback \in given[<<rSet, rCur>>]
         /\ oldStatus \in Status
<1>1. rSet \in AppSets /\ rCur \in Clusters /\ conds[rCur] \in Cond /\ oldStatus \in Status
  BY DEF IInv, Types, TStatus
<1>2. <<rSet, rCur>> \in Pairs
  BY <1>1 DEF Pairs
<1>3. conds[rCur].named
  BY DEF IInv, Flow, FTodo
<1> QED BY <1>1, <1>2, <1>3 DEF IInv, Flow, FConds, Cond

\* One Application is written, in one of the two ways StatusFeed has.
Shown == [p \in Pairs |-> apps[p].status]

\* Progressing is inserted.
LEMMA FeedInserts ==
  ASSUME NEW p \in Pairs, UNCHANGED given, Shown' = [Shown EXCEPT ![p].health = "Progressing"]
  PROVE  FeedStep
<1>1. Feed!Insert(p)
  BY DEF Feed!Insert, Shown
<1>2. Feed!Next
  BY <1>1, Zenon DEF Feed!Next
<1> QED BY <1>2 DEF FeedStep

\* A feedback is shown, a Healthy one after Progressing only.
LEMMA FeedShows ==
  ASSUME NEW p \in Pairs, UNCHANGED given, NEW f \in given[p],
         f.health = "Healthy" => Shown[p].health = "Progressing",
         Shown' = [Shown EXCEPT ![p] = Feed!Merge(Shown[p], f)]
  PROVE  FeedStep
<1>1. Feed!Show(p)
  BY DEF Feed!Show, Shown
<1>2. Feed!Next
  BY <1>1, Zenon DEF Feed!Next
<1> QED BY <1>2 DEF FeedStep

\* A write that does not conflict changes the status of the Application at hand.
LEMMA WriteAppTyped ==
  ASSUME IInv, rPc \in {"first", "second"}, NEW s \in Status, WriteApp(s)
  PROVE  /\ TApps' /\ fresh
         /\ Shown' = [Shown EXCEPT ![<<rSet, rCur>>] = s]
         /\ apps'[<<rSet, rCur>>].status = s
BY AtHand DEF WriteApp, IInv, Types, TApps, App, Shown

\* The first update of a Healthy one inserts Progressing (Insert of StatusFeed).
LEMMA ReportsStatusFirst ==
  ASSUME IInv, StatusFirst
  PROVE  IInv' /\ FeedStep
<1> DEFINE s == [oldStatus EXCEPT !.health = "Progressing"]
           p == <<rSet, rCur>>
<1>1. UNCHANGED <<rSet, rCur, given>> /\ StatusUnchanged /\ rPc = "first"
  BY DEF StatusFirst, StatusUnchanged, history
<1>2. s \in Status /\ p \in Pairs /\ rCur \in Clusters
  BY <1>1, AtHand DEF Status
<1>3. CASE WriteFails
  <2>1. Requeue /\ UNCHANGED apps /\ (Fault \/ Succeed)
    BY <1>3 DEF WriteFails
  <2> QED BY <1>1, <1>2, <2>1, StatusRequeues, StatusReads
<1>4. CASE WriteApp(s) /\ rPc' = "second" /\ UNCHANGED <<pending, conds, rTodo, oldStatus, fresh>>
  <2>1. TApps' /\ fresh /\ Shown' = [Shown EXCEPT ![p] = s] /\ apps'[p].status = s
    BY <1>1, <1>2, <1>4, WriteAppTyped
  <2>2. Healthy(rCur)
    BY <1>1 DEF IInv, Flow, FTodo
  <2>3. TStatus' /\ TFresh'
    BY <1>1, <1>4 DEF IInv, Types, TStatus, TFresh
  <2>4. FConds' /\ FTodo'
    BY <1>1, <1>4 DEF IInv, Flow, FConds, FTodo, Healthy
  <2>5. FFresh'
    BY <1>1, <1>4, <2>1, <2>2 DEF FFresh, Healthy
  <2>6. IInv'
    BY <1>1, <1>4, <2>1, <2>3, <2>4, <2>5, StatusTogether DEF WriteApp
  <2>7. Shown[p] = oldStatus
    BY <1>1, <1>2, <2>1 DEF IInv, Flow, FFresh, Shown
  <2>8. Shown' = [Shown EXCEPT ![p].health = "Progressing"]
    BY <2>1, <2>7
  <2> HIDE DEF p, s
  <2>10. FeedStep
    BY <1>1, <1>2, <2>8, FeedInserts
  <2> QED BY <2>6, <2>10
<1> QED BY <1>3, <1>4 DEF StatusFirst

\* The second update shows the feedback of the condition (Show of StatusFeed).
LEMMA ReportsStatusSecond ==
  ASSUME IInv, StatusSecond
  PROVE  IInv' /\ FeedStep
<1> DEFINE f == conds[rCur].feedback
           p == <<rSet, rCur>>
<1>1. UNCHANGED <<rSet, rCur, given>> /\ StatusUnchanged /\ rPc = "second"
  BY DEF StatusSecond, StatusUnchanged, history
<1>2. p \in Pairs /\ rCur \in Clusters /\ f \in Status /\ f \in given[p] /\ oldStatus \in Status
  BY <1>1, AtHand
<1>3. CASE WriteFails
  <2>1. Requeue /\ UNCHANGED apps /\ (Fault \/ Succeed)
    BY <1>3 DEF WriteFails
  <2> QED BY <1>1, <1>2, <2>1, StatusRequeues, StatusReads
<1>4. CASE rPc' = "apps" /\ Forget /\ UNCHANGED <<pending, conds, rTodo>>
  <2>1. TStatus' /\ TFresh'
    BY <1>1, <1>4, Constants DEF Forget, IInv, Types, TStatus, TFresh
  <2>2. FConds' /\ FTodo' /\ FFresh'
    BY <1>1, <1>4 DEF Forget, IInv, Flow, FConds, FTodo, FFresh
  <2>3. CASE UNCHANGED apps /\ Succeed
    BY <1>1, <2>1, <2>2, <2>3, StatusReads
  <2>4. CASE WriteApp(NewStatus)
    <3>1. NewStatus = [health |-> f.health, ver |-> IF f.ver = 0 THEN oldStatus.ver ELSE f.ver]
      BY DEF NewStatus
    <3>2. NewStatus \in Status
      BY <1>2, <3>1 DEF Status
    <3>3. TApps' /\ fresh /\ Shown' = [Shown EXCEPT ![p] = NewStatus]
      BY <1>1, <2>4, <3>2, WriteAppTyped
    <3>4. IInv'
      BY <1>1, <2>1, <2>2, <2>4, <3>3, StatusTogether DEF WriteApp
    <3>5. Shown[p] = IF f.health = "Healthy" THEN [oldStatus EXCEPT !.health = "Progressing"] ELSE oldStatus
      BY <1>1, <1>2, <3>3 DEF IInv, Flow, FFresh, Healthy, Shown
    <3>6. Shown[p].ver = oldStatus.ver /\ (f.health = "Healthy" => Shown[p].health = "Progressing")
      BY <1>2, <3>5 DEF Status
    <3>7. NewStatus = Feed!Merge(Shown[p], f)
      BY <3>1, <3>6 DEF Feed!Merge
    <3> HIDE DEF p, f
    <3>8. Shown' = [Shown EXCEPT ![p] = Feed!Merge(Shown[p], f)]
      BY <3>3, <3>7
    <3>9. FeedStep
      BY <1>1, <1>2, <3>6, <3>8, FeedShows
    <3> QED BY <3>4, <3>9
  <2> QED BY <1>3, <2>3, <2>4 DEF StatusSecond
<1> QED BY <1>3, <1>4 DEF StatusSecond

\* Every step of the status controller, and the informer's resync.
LEMMA ReportsStatus == IInv /\ (UpdateStatus \/ Resync) => IInv' /\ FeedStep
<1> SUFFICES ASSUME IInv, UpdateStatus \/ Resync PROVE IInv' /\ FeedStep
  OBVIOUS
<1>1. CASE StatusEnd
  <2>1. UNCHANGED <<apps, pending, rSet, rCur, oldStatus, fresh, faults, given>> /\ StatusUnchanged /\ Rest
    BY <1>1 DEF StatusEnd, StatusUnchanged, history
  <2>2. ~fresh' /\ fresh' \in BOOLEAN /\ rCur' \in Clusters /\ oldStatus' \in Status
        /\ pending' \subseteq AppSets
    BY <1>1, <2>1 DEF StatusEnd, IInv, Types, TStatus, TFresh, Flow, FFresh
  <2> QED BY <2>1, <2>2, StatusRests, StatusReads DEF Succeed
<1>2. CASE Resync
  <2>1. UNCHANGED <<apps, rPc, rSet, conds, rTodo, rCur, oldStatus, fresh, faults, given>> /\ StatusUnchanged
    BY <1>2 DEF Resync, StatusUnchanged, history
  <2>2. TFresh'
    BY <1>2, <2>1 DEF Resync, IInv, Types, TFresh
  <2>3. TStatus' /\ GivenGrows
    BY <2>1, ReportsFrames DEF statusVars
  <2>4. FConds' /\ FTodo' /\ FFresh'
    BY <2>1, <2>3, FlowFrames
  <2> QED BY <2>1, <2>2, <2>3, <2>4, StatusReads DEF Succeed
<1> QED BY <1>1, <1>2, ReportsStatusFirst, ReportsStatusSecond, ReportsStatusBegin, ReportsStatusGet
        DEF UpdateStatus

\* A crash loses the locals of one program, and the queue is filled from the reports.
LEMMA ReportsCrash == IInv /\ Crash => IInv' /\ FeedStep
<1> SUFFICES ASSUME IInv, Crash PROVE IInv' /\ FeedStep
  OBVIOUS
<1>1. UNCHANGED <<appsets, apps, works, search, disabled, files, reports, sFile, given, changes, faults>>
  BY DEF Crash, envVars
<1>2. TSearch' /\ TApps' /\ TWorks' /\ TFiles' /\ TReports' /\ TGiven' /\ GivenGrows
  BY <1>1, ReportsFrames
<1>3. FWorks' /\ FReports' /\ FeedStep
  BY <1>1, <1>2, FlowFrames, FeedGives
<1>4. TBounds'
  BY <1>1, Counted DEF Crash
<1>5. CASE SyncCrash
  <2>1. UNCHANGED <<aPc, map, aTodo, missing, wTodo, failed, away, here, pending, fresh,
                    rPc, rSet, conds, rTodo, rCur, oldStatus>> /\ SyncIdle
    BY <1>5 DEF SyncCrash, aggVars, statusVars
  <2>2. TSync'
    BY <1>1, <2>1, SyncEnds
  <2>3. TAgg' /\ TMap' /\ TStatus' /\ TFresh'
    BY <2>1, ReportsFrames DEF statusVars
  <2>4. FMap' /\ FConds' /\ FTodo' /\ FFresh'
    BY <1>1, <1>2, <2>1, FlowFrames
  <2> QED BY <1>2, <1>3, <1>4, <2>2, <2>3, <2>4 DEF IInv, Types, Flow
<1>6. CASE AggCrash
  <2>1. UNCHANGED <<found, shifted, sPc, sTodo, pending, fresh,
                    rPc, rSet, conds, rTodo, rCur, oldStatus>> /\ AggIdle
    BY <1>6 DEF AggCrash, statusVars
  <2>2. TAgg' /\ TMap' /\ FMap'
    BY <1>1, <2>1, AggEnds, MapFrame
  <2>3. TSync' /\ TStatus' /\ TFresh'
    BY <1>1, <2>1, ReportsFrames DEF syncVars, statusVars
  <2>4. FConds' /\ FTodo' /\ FFresh'
    BY <1>1, <1>2, <2>1, FlowFrames
  <2> QED BY <1>2, <1>3, <1>4, <2>2, <2>3, <2>4 DEF IInv, Types, Flow
<1>7. CASE StatusCrash
  <2>1. UNCHANGED <<found, shifted, sPc, sTodo, aPc, map, aTodo, missing, wTodo, failed, rSet, rCur,
                    away, here>> /\ Rest /\ Forget
    BY <1>7 DEF StatusCrash, aggVars
  <2>2. TSync' /\ TAgg' /\ TMap'
    BY <1>1, <2>1, ReportsFrames DEF syncVars
  <2>3. pending' \subseteq AppSets
    BY <1>7 DEF StatusCrash
  <2>4. fresh' = FALSE /\ oldStatus' \in Status /\ rCur' \in Clusters
    BY <2>1, Constants DEF Forget, IInv, Types, TStatus
  <2>5. TStatus' /\ TFresh' /\ FConds' /\ FTodo' /\ FFresh'
    BY <1>1, <2>1, <2>3, <2>4, StatusRests
  <2>6. FMap'
    BY <1>2, <2>1, FlowFrames
  <2> QED BY <1>2, <1>3, <1>4, <2>2, <2>5, <2>6 DEF IInv, Types, Flow
<1> QED BY <1>5, <1>6, <1>7 DEF Crash

-----------------------------------------------------------------------------
\* Every step keeps the invariant, and is one of StatusFeed or unseen by it.
LEMMA ReportsNext == IInv /\ [Next]_vars => IInv' /\ FeedStep
<1> SUFFICES ASSUME IInv, [Next]_vars PROVE IInv' /\ FeedStep
  OBVIOUS
<1>1. CASE UNCHANGED vars
  <2>1. UNCHANGED <<appsets, apps, works, search, disabled, files, reports, syncVars, aPc, map, aTodo,
                    missing, wTodo, failed, rPc, rSet, conds, rTodo, rCur, oldStatus, pending, fresh,
                    given, away, here, changes, faults, crashes>>
    BY <1>1 DEF vars, envVars, aggVars, statusVars, history
  <2>2. /\ TSearch' /\ TApps' /\ TWorks' /\ TSync' /\ TFiles' /\ TAgg' /\ TMap' /\ TReports' /\ TStatus'
        /\ TFresh' /\ TGiven' /\ TBounds' /\ GivenGrows
    BY <2>1, ReportsFrames DEF statusVars
  <2>3. FWorks' /\ FMap' /\ FReports' /\ FConds' /\ FTodo' /\ FFresh' /\ FeedStep
    BY <2>1, <2>2, FlowFrames, FeedGives
  <2> QED BY <2>2, <2>3 DEF IInv, Types, Flow
<1> QED BY <1>1, ReportsEnvironment, ReportsSync, ReportsHouseKeeping, ReportsStatus, ReportsCrash
        DEF Next

\* Wherever a feedback is on its way, in the map of a pass, in a report or in the conditions of a
\* reconcile, it is one its own cluster gave, and an Application whose version is still the one
\* that was read has the status that was read (Reconcile and its two updates).
THEOREM ReportsInvariant == Spec => []IInv
BY ReportsInit, ReportsNext, PTL DEF Spec

\* The variables of the three programs have their types, and a condition that names an
\* Application has a health (the default that generateAggregation inserts).
THEOREM ReportsTypeCorrect == Spec => []TypeOK
BY ReportsInvariant, ReportsTyped, PTL

\* Paging, files, reports and two updates of each Application together implement StatusFeed: what
\* an Application shows is a feedback of its own cluster, whole, and Healthy only after the
\* inserted Progressing, past failed calls, conflicts, crashes and ApplicationSets that go and come.
THEOREM ReportsFollowFeed == Spec => FollowsFeed
<1>1. Init => Feed!Init
  <2> SUFFICES ASSUME Init PROVE Feed!Init
    OBVIOUS
  <2>1. given \in [Pairs -> SUBSET [health : {"Unknown"}, ver : {0}]]
    BY DEF Init, Unknown
  <2>2. \A p \in Pairs : apps[p].status = Feed!NoStatus
    BY DEF Init, NoStatus, Feed!NoStatus
  <2> QED BY <2>1, <2>2 DEF Feed!Init
<1>2. IInv /\ [Next]_vars => [Feed!Next]_<<given, [p \in Pairs |-> apps[p].status]>>
  BY ReportsNext DEF FeedStep
<1> QED BY <1>1, <1>2, ReportsInvariant, PTL DEF Spec, FollowsFeed, Feed!Spec

-----------------------------------------------------------------------------
(* The cleanup: what a pass knows of missing ApplicationSets and the ManifestWorks they left. *)

\* A pass watches, from its first step, which ApplicationSets were away and which were there;
\* what it collected to delete was away.
Watched ==
  /\ aPc \in {"idle", "reports"} => missing = {}
  /\ aPc # "delete" => wTodo = {}
  /\ aPc # "idle" => AppSets \ appsets \subseteq away /\ appsets \subseteq here
  /\ aPc \in {"check", "delete"} => missing \subseteq away
  /\ \A p \in wTodo : p[1] \in away

\* An Application goes with its ApplicationSet, so only those that exist get ManifestWorks.
Owned == \A p \in Pairs : apps[p].exists => p[1] \in appsets

\* The ManifestWorks of a report that will be deleted: still to come, or deleted, unless one failed
\* or the ApplicationSet came back.
Asked == aPc = "delete" =>
  \A a \in missing, c \in Clusters :
    a \notin here /\ a \notin failed /\ reports[a].conds[c].named
      => works[<<a, c>>].state # "live" \/ <<a, c>> \in wTodo

Watch == Watched /\ Owned /\ Asked

\* A step that leaves the pass and its objects alone keeps what the pass knows.
LEMMA WatchStays ==
  ASSUME Watch, UNCHANGED <<appsets, works, reports, aPc, missing, wTodo, failed, away, here>>,
         \A p \in Pairs : apps'[p].exists => apps[p].exists
  PROVE  Watch'
<1>1. Watched'
  BY DEF Watch, Watched
<1>2. Owned'
  BY DEF Watch, Owned
<1>3. Asked'
  BY DEF Watch, Asked
<1> QED BY <1>1, <1>2, <1>3 DEF Watch

\* Writing the status of an Application neither makes nor removes one.
LEMMA StatusKeepsApps ==
  ASSUME IInv, UpdateStatus \/ Resync
  PROVE  \A p \in Pairs : apps'[p].exists => apps[p].exists
<1>1. UNCHANGED apps \/ \E s : apps' = [apps EXCEPT ![<<rSet, rCur>>].status = s]
  BY Zenon DEF UpdateStatus, Resync, StatusFirst, StatusSecond, StatusEnd, StatusBegin, StatusGet,
     WriteApp, WriteFails
<1>2. <<rSet, rCur>> \in Pairs
  BY DEF IInv, Types, TStatus, Pairs
<1> QED BY <1>1, <1>2 DEF IInv, Types, TApps, App

\* The other two programs, the resync and a crash: a pass that crashes forgets everything.
LEMMA WatchOthers ==
  ASSUME IInv, Watch, SyncResources \/ UpdateStatus \/ Resync \/ Crash \/ UNCHANGED vars
  PROVE  Watch'
<1>1. CASE SyncResources
  <2>1. SyncUnchanged
    BY <1>1 DEF SyncResources, SyncBegin, SyncPage, SyncPagesEnd, WriteFile, WriteFileEnd, SyncEnd
  <2> QED BY <2>1, WatchStays DEF SyncUnchanged, envVars, aggVars, history
<1>2. CASE UpdateStatus \/ Resync
  <2>1. StatusUnchanged
    BY <1>2 DEF UpdateStatus, Resync, StatusFirst, StatusSecond, StatusEnd, StatusBegin, StatusGet
  <2>2. UNCHANGED <<appsets, works, reports, aPc, missing, wTodo, failed, away, here>>
    BY <2>1 DEF StatusUnchanged, aggVars, history
  <2> QED BY <1>2, <2>2, WatchStays, StatusKeepsApps
<1>3. CASE Crash
  <2>1. UNCHANGED <<appsets, apps, works, reports>>
    BY <1>3 DEF Crash, envVars
  <2>2. CASE SyncCrash \/ StatusCrash
    <3>1. UNCHANGED <<aPc, missing, wTodo, failed, away, here>>
      BY <2>2 DEF SyncCrash, StatusCrash, aggVars
    <3> QED BY <2>1, <3>1, WatchStays
  <2>3. CASE AggCrash
    BY <2>1, <2>3 DEF AggCrash, AggIdle, Watch, Watched, Owned, Asked
  <2> QED BY <1>3, <2>2, <2>3 DEF Crash
<1>4. CASE UNCHANGED vars
  BY <1>4, WatchStays DEF vars, envVars, aggVars, history
<1> QED BY <1>1, <1>2, <1>3, <1>4

\* The environment: an ApplicationSet that goes or comes during a pass is noted, and a
\* ManifestWork comes to life only for one that exists.
LEMMA WatchEnvironment ==
  ASSUME IInv, Watch, Environment
  PROVE  Watch'
<1>1. ASSUME NEW a \in AppSets, DeleteAppSet(a) PROVE Watch'
  <2>1. UNCHANGED <<reports, aPc, missing, wTodo, failed, here>>
    BY <1>1, MapStays DEF DeleteAppSet, EnvUnchanged
  <2>2. appsets' = appsets \ {a} /\ away' = IF aPc = "idle" THEN away ELSE away \cup {a}
    BY <1>1 DEF DeleteAppSet
  <2>3. Watched'
    BY <2>1, <2>2 DEF Watch, Watched
  <2>4. \A p \in Pairs : apps'[p].exists => apps[p].exists /\ p[1] # a
    BY <1>1 DEF DeleteAppSet
  <2>5. Owned'
    BY <2>2, <2>4 DEF Watch, Owned
  <2>6. \A p \in Pairs : works'[p].state = "live" => works[p].state = "live"
    BY <1>1 DEF DeleteAppSet, IInv, Types, TWorks, Work
  <2>7. Asked'
    BY <2>1, <2>6 DEF Watch, Asked, Pairs, IInv, Types, TAgg
  <2> QED BY <2>3, <2>5, <2>7 DEF Watch
<1>2. ASSUME NEW a \in AppSets, CreateAppSet(a) PROVE Watch'
  <2>1. UNCHANGED <<works, reports, aPc, missing, wTodo, failed, away>>
    BY <1>2, MapStays DEF CreateAppSet, EnvUnchanged
  <2>2. appsets' = appsets \cup {a} /\ here' = IF aPc = "idle" THEN here ELSE here \cup {a}
    BY <1>2 DEF CreateAppSet
  <2>3. Watched'
    BY <2>1, <2>2 DEF Watch, Watched
  <2>4. \A p \in Pairs : apps'[p].exists => apps[p].exists \/ p[1] = a
    BY <1>2 DEF CreateAppSet
  <2>5. Owned'
    BY <2>2, <2>4 DEF Watch, Owned
  <2>6. Asked'
    BY <2>1, <2>2 DEF Watch, Asked
  <2> QED BY <2>3, <2>5, <2>6 DEF Watch
<1>3. ASSUME NEW p \in Pairs, Propagate(p) PROVE Watch'
  <2>1. UNCHANGED <<appsets, apps, reports, aPc, missing, wTodo, failed, away, here>>
    BY <1>3, MapStays DEF Propagate, EnvUnchanged, history
  <2>2. Watched' /\ Owned'
    BY <2>1 DEF Watch, Watched, Owned
  <2>3. aPc # "idle" => p[1] \in here
    BY <1>3 DEF Propagate, Watch, Watched, Owned
  <2>4. \A q \in Pairs : q # p => works'[q] = works[q]
    BY <1>3 DEF Propagate, IInv, Types, TWorks
  <2>5. ASSUME NEW a \in AppSets, NEW c \in Clusters, aPc = "delete", a \notin here
        PROVE  works'[<<a, c>>] = works[<<a, c>>]
    BY <2>3, <2>4, <2>5 DEF Pairs
  <2>6. Asked'
    BY <2>1, <2>5 DEF Watch, Asked, IInv, Types, TAgg
  <2> QED BY <2>2, <2>6 DEF Watch
<1>4. ASSUME NEW p \in Pairs, Retire(p) \/ \E h \in Healths : Feedback(p, h) PROVE Watch'
  <2>1. UNCHANGED <<appsets, apps, reports, aPc, missing, wTodo, failed, away, here>>
    BY <1>4, MapStays DEF Retire, Feedback, EnvUnchanged, history
  <2>2. Watched' /\ Owned'
    BY <2>1 DEF Watch, Watched, Owned
  <2>3. works' = [works EXCEPT ![p] = NoWork] \/ \E f : works' = [works EXCEPT ![p].feedback = f]
    BY <1>4, Zenon DEF Retire, Feedback
  <2>4. \A q \in Pairs : works'[q].state = "live" => works[q].state = "live"
    BY <2>3 DEF IInv, Types, TWorks, Work, NoWork
  <2>5. Asked'
    BY <2>1, <2>4 DEF Watch, Asked, IInv, Types, TAgg, Pairs
  <2> QED BY <2>2, <2>5 DEF Watch
<1>5. ASSUME NEW p \in Pairs, EditApplication(p) \/ \E v \in Verdicts : EditSearch(p, v) PROVE Watch'
  BY <1>5, WatchStays, MapStays DEF EditApplication, EditSearch, EnvUnchanged, envVars, aggVars, history
<1>6. CASE DisablePullModel
  BY <1>6, WatchStays, MapStays DEF DisablePullModel, EnvUnchanged, history
<1> QED BY <1>1, <1>2, <1>3, <1>4, <1>5, <1>6 DEF Environment

\* The stages of a pass before it deletes anything.
LEMMA WatchPass ==
  ASSUME IInv, Watch,
         \/ TickBegin \/ ListWorksFails \/ AggReportsEnd \/ RemoveFiles \/ CheckEnd \/ TickEnd
         \/ \E a \in AppSets : AggReport(a) \/ CheckFile(a) \/ CheckReport(a)
  PROVE  Watch'
<1>1. UNCHANGED <<appsets, apps, works>>
  BY Zenon DEF TickBegin, ListWorksFails, AggReportsEnd, RemoveFiles, CheckEnd, TickEnd, AggReport,
     CheckFile, CheckReport, AggUnchanged
<1>2. Owned'
  BY <1>1 DEF Watch, Owned
<1>3. CASE TickBegin \/ ListWorksFails
  BY <1>1, <1>2, <1>3 DEF TickBegin, ListWorksFails, Watch, Watched, Asked, IInv, Types, TSearch
<1>4. CASE AggReportsEnd
  BY <1>1, <1>2, <1>4 DEF AggReportsEnd, Watch, Watched, Asked
<1>5. CASE RemoveFiles
  BY <1>1, <1>2, <1>5 DEF RemoveFiles, AggIdle, Watch, Watched, Asked
<1>6. CASE TickEnd
  BY <1>1, <1>2, <1>6 DEF TickEnd, AggIdle, Watch, Watched, Asked
<1>7. ASSUME NEW a \in AppSets, AggReport(a) PROVE Watch'
  BY <1>1, <1>2, <1>7 DEF AggReport, Watch, Watched, Asked
<1>8. ASSUME NEW a \in AppSets, CheckFile(a) PROVE Watch'
  BY <1>1, <1>2, <1>8 DEF CheckFile, Watch, Watched, Asked
<1>9. ASSUME NEW a \in AppSets, CheckReport(a) PROVE Watch'
  BY <1>1, <1>2, <1>9 DEF CheckReport, Gone, Watch, Watched, Asked
<1>10. CASE CheckEnd
  <2>1. /\ aPc = "check" /\ aPc' = "delete" /\ wTodo' = UNION {Named(a) : a \in missing}
        /\ UNCHANGED <<reports, missing, away, here>>
    BY <1>10 DEF CheckEnd
  <2>2. \A p \in wTodo' : p[1] \in away
    BY <2>1 DEF Named, Watch, Watched
  <2>3. \A a \in missing, c \in Clusters : reports[a].conds[c].named => <<a, c>> \in wTodo'
    BY <2>1 DEF Named
  <2>4. Watched' /\ Asked'
    BY <1>1, <2>1, <2>2, <2>3 DEF Watch, Watched, Asked
  <2> QED BY <1>2, <2>4 DEF Watch
<1> QED BY <1>3, <1>4, <1>5, <1>6, <1>7, <1>8, <1>9, <1>10

\* The stage that deletes: a ManifestWork leaves the list deleted, gone, or as a failure.
LEMMA WatchDelete ==
  ASSUME IInv, Watch,
         (\E p \in Pairs : DeleteWork(p)) \/ \E a \in AppSets : DeleteReport(a)
  PROVE  Watch'
<1>1. UNCHANGED <<appsets, apps>>
  BY DEF DeleteWork, DeleteReport, AggUnchanged
<1>2. Owned'
  BY <1>1 DEF Watch, Owned
<1>3. ASSUME NEW p \in Pairs, DeleteWork(p) PROVE Watch'
  <2>1. /\ aPc = "delete" /\ wTodo' = wTodo \ {p}
        /\ UNCHANGED <<reports, aPc, missing, away, here>>
    BY <1>3 DEF DeleteWork
  <2>2. Watched'
    BY <1>1, <2>1 DEF Watch, Watched
  <2>3. \/ works' = [works EXCEPT ![p].state = "deleting"] /\ UNCHANGED failed
        \/ works[p].state = "none" /\ UNCHANGED <<works, failed>>
        \/ UNCHANGED works /\ failed' = failed \cup {p[1]}
    BY <1>3 DEF DeleteWork, NotFoundIsFine, KeepFailure
  <2>4. \A q \in Pairs : works'[q].state = "live" => works[q].state = "live"
    BY <2>3 DEF IInv, Types, TWorks, Work
  <2>5. works'[p].state = "live" => p[1] \in failed'
    BY <2>3, <1>3 DEF DeleteWork, NotFoundIsFine, KeepFailure, IInv, Types, TWorks, Work
  <2>6. failed \subseteq failed'
    BY <2>3
  <2>7. Asked'
    <3> SUFFICES ASSUME NEW a \in missing, NEW c \in Clusters, a \notin here, a \notin failed',
                        reports[a].conds[c].named, works'[<<a, c>>].state = "live"
                 PROVE  <<a, c>> \in wTodo'
      BY <2>1 DEF Asked
    <3>1. <<a, c>> \in Pairs
      BY DEF Pairs, IInv, Types, TAgg
    <3>2. <<a, c>> \in wTodo
      BY <2>1, <2>4, <2>6, <3>1 DEF Watch, Asked
    <3>3. <<a, c>> # p
      BY <2>5
    <3> QED BY <2>1, <3>2, <3>3
  <2> QED BY <1>2, <2>2, <2>7 DEF Watch
<1>4. ASSUME NEW a \in AppSets, DeleteReport(a) PROVE Watch'
  <2>1. /\ missing' = missing \ {a}
        /\ UNCHANGED <<works, aPc, wTodo, failed, away, here>>
    BY <1>4 DEF DeleteReport
  <2>2. Watched'
    BY <1>1, <2>1 DEF Watch, Watched
  <2>3. UNCHANGED reports \/ reports' = [reports EXCEPT ![a] = NoReport]
    BY <1>4 DEF DeleteReport
  <2>4. \A b \in AppSets : b # a => reports'[b] = reports[b]
    BY <2>3 DEF IInv, Types, TReports
  <2>5. Asked'
    BY <2>1, <2>4 DEF Watch, Asked, IInv, Types, TAgg
  <2> QED BY <1>2, <2>2, <2>5 DEF Watch
<1> QED BY <1>3, <1>4

\* What a pass of the cleanup knows holds until the pass acts on it: whom it misses was away
\* during the pass, and a report it deletes has no ManifestWork left, whatever the users, the
\* propagation and the other two programs do in between.
THEOREM ReportsWatch == Spec => []Watch
<1>1. Init => Watch
  BY DEF Init, Watch, Watched, Owned, Asked, Pairs
<1>2. IInv /\ Watch /\ [Next]_vars => Watch'
  BY WatchOthers, WatchEnvironment, WatchPass, WatchDelete DEF Next, HouseKeeping
<1> QED BY <1>1, <1>2, ReportsInvariant, PTL DEF Spec

\* The cleanup deletes ManifestWorks only of ApplicationSets that were away at some instant of
\* the same pass (cleanupOrphanReports).
THEOREM ReportsDeletesForMissing == Spec => WorkDeletedOnlyForMissing
<1>1. ASSUME Watch, IInv, HouseKeeping, NEW p \in Pairs, aPc = "delete", aPc' = "delete",
             works[p].state = "live", works'[p].state = "deleting"
      PROVE  p[1] \in away
  <2>1. PICK q \in Pairs : DeleteWork(q)
    BY <1>1, Zenon DEF HouseKeeping, TickBegin, ListWorksFails, AggReportsEnd, RemoveFiles, CheckEnd,
       TickEnd, AggReport, CheckFile, CheckReport, DeleteReport
  <2>2. UNCHANGED works \/ works' = [works EXCEPT ![q].state = "deleting"]
    BY <2>1 DEF DeleteWork, NotFoundIsFine, KeepFailure
  <2>3. p = q
    BY <1>1, <2>2 DEF IInv, Types, TWorks, Work
  <2>4. p \in wTodo
    BY <2>1, <2>3 DEF DeleteWork
  <2> QED BY <1>1, <2>4 DEF Watch, Watched
<1>2. ASSUME [Next]_vars, aPc = "delete", aPc' = "delete", wTodo' # wTodo
      PROVE  HouseKeeping
  <2>1. ~Environment
    BY <1>2, Zenon DEF Environment, DeleteAppSet, CreateAppSet, Propagate, Retire, EditApplication,
       Feedback, EditSearch, DisablePullModel, EnvUnchanged, aggVars
  <2>2. ~SyncResources /\ ~UpdateStatus /\ ~Resync
    BY <1>2, Zenon DEF SyncResources, SyncBegin, SyncPage, SyncPagesEnd, WriteFile, WriteFileEnd,
       SyncEnd, UpdateStatus, Resync, StatusFirst, StatusSecond, StatusEnd, StatusBegin, StatusGet,
       SyncUnchanged, StatusUnchanged, aggVars
  <2>3. ~Crash
    BY <1>2, Zenon DEF Crash, SyncCrash, AggCrash, StatusCrash, AggIdle, aggVars
  <2> QED BY <1>2, <2>1, <2>2, <2>3, Zenon DEF Next, vars, aggVars
<1>3. IInv /\ Watch /\ [Next]_vars =>
        \A p \in Pairs : (aPc = "delete" /\ aPc' = "delete" /\ wTodo' # wTodo
                          /\ works[p].state = "live" /\ works'[p].state = "deleting")
                         => p[1] \in away
  BY <1>1, <1>2
<1> QED BY <1>3, ReportsInvariant, ReportsWatch, PTL DEF Spec, WorkDeletedOnlyForMissing

\* A report goes after the ManifestWorks it names, unless its ApplicationSet came back during
\* the pass (cleanupOrphanReports: first the ManifestWorks, then the report).
THEOREM ReportsGoLast == Spec => ReportGoesLast
<1> DEFINE Last(a) == \/ a \in here
                      \/ \A c \in Clusters : reports[a].conds[c].named => works[<<a, c>>].state # "live"
<1>1. ASSUME IInv, Watch, [Next]_vars, NEW a \in AppSets, reports[a].exists, ~reports'[a].exists
      PROVE  Last(a)
  <2>1. reports' # reports
    BY <1>1
  <2>2. HouseKeeping
    <3>1. ~Environment
      BY <2>1, Zenon DEF Environment, DeleteAppSet, CreateAppSet, Propagate, Retire, EditApplication,
         Feedback, EditSearch, DisablePullModel, EnvUnchanged
    <3>2. ~SyncResources /\ ~UpdateStatus /\ ~Resync
      BY <2>1, Zenon DEF SyncResources, SyncBegin, SyncPage, SyncPagesEnd, WriteFile, WriteFileEnd,
         SyncEnd, UpdateStatus, Resync, StatusFirst, StatusSecond, StatusEnd, StatusBegin, StatusGet,
         SyncUnchanged, StatusUnchanged
    <3> QED BY <1>1, <2>1, <3>1, <3>2, Zenon DEF Next, vars, Crash
  <2>3. PICK b \in AppSets : AggReport(b) \/ DeleteReport(b)
    BY <2>1, <2>2, Zenon DEF HouseKeeping, TickBegin, ListWorksFails, AggReportsEnd, RemoveFiles,
       CheckEnd, TickEnd, CheckFile, CheckReport, DeleteWork
  <2>4. ~AggReport(b)
    <3>1. AggReport(b) => \/ \E r : reports' = [reports EXCEPT ![b] = [exists |-> TRUE, conds |-> r]]
                          \/ reports' = [reports EXCEPT ![b].exists = TRUE]
      BY <2>1, Zenon DEF AggReport
    <3>2. reports \in [AppSets -> [exists : BOOLEAN, conds : [Clusters -> Cond]]]
      BY <1>1 DEF IInv, Types, TReports
    <3>3. ~\E r : reports' = [reports EXCEPT ![b] = [exists |-> TRUE, conds |-> r]]
      BY <1>1, <3>2
    <3>4. reports' # [reports EXCEPT ![b].exists = TRUE]
      BY <1>1, <3>2
    <3> QED BY <3>1, <3>3, <3>4
  <2>5. reports' = [reports EXCEPT ![b] = NoReport] /\ b \notin failed
    BY <2>1, <2>3, <2>4 DEF DeleteReport
  <2>6. a = b
    BY <1>1, <2>5 DEF IInv, Types, TReports
  <2>7. aPc = "delete" /\ a \in missing /\ wTodo \cap ({a} \X Clusters) = {}
    BY <2>3, <2>4, <2>6 DEF DeleteReport
  <2> QED BY <1>1, <2>5, <2>6, <2>7 DEF Watch, Asked
<1>2. IInv /\ Watch /\ [Next]_vars =>
        \A a \in AppSets : (reports[a].exists /\ ~reports'[a].exists) => Last(a)
  BY <1>1
<1> QED BY <1>2, ReportsInvariant, ReportsWatch, PTL DEF Spec, ReportGoesLast
=============================================================================
