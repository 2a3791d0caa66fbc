------------------------------ MODULE ManagedApps ------------------------------
(***************************************************************************)
(* The Helm apps of a cluster: the tab Apps of its page with its dialog,   *)
(* the functions of cluster-management-store.ts behind them, the handlers  *)
(* of the operator, and Helm on a master of the cluster.                   *)
(*                                                                         *)
(* A record of the database says what a release should be; Helm has the    *)
(* releases.  Only the buttons of the dialog keep the two together, by a   *)
(* status read some time before.  A handler that runs Helm reads the       *)
(* record first and Helm runs for minutes; the page may be left and opened *)
(* again in the meantime, its calls go on.                                 *)
(*                                                                         *)
(* One cluster, in Sync all the time: ManagedNodes has what comes of       *)
(* answers for another one.  What a user types is any definition; fields   *)
(* that the form refuses are left out.                                     *)
(***************************************************************************)
EXTENDS Naturals, Sequences, FiniteSets, SequencesExt, Positions

CONSTANTS Defs,          \* what a form may hold: a release and its values
          Release(_),    \* releaseName and namespace of a definition
          First,         \* the app the cluster was created with, and perhaps installed
          Ops,           \* bound: clicks that make calls
          Bounds,        \* what may happen in a behaviour, see Bound
          Nothing

(* How often the tab is visited, what is typed into forms, how many calls    *)
(* and Helm commands fail, and whether they are assumed to end.              *)
Bound == [visits : Nat, typed : SUBSET Defs, fails : Nat, fair : BOOLEAN]

ASSUME AppsAssumption ==
    /\ First \in Defs /\ Ops \in Nat /\ Bounds \subseteq Bound
    /\ Nothing \notin Defs \cup Nat \cup {"NotInstalled", "Installed", "Other"}

AllVisits == UNION {1..b.visits : b \in Bounds}

VARIABLES apps,       \* helm_apps of the record of the cluster
          release,    \* what Helm has of each release
          helm,       \* the Helm commands that run
          loaded,     \* whether the store has got the cluster
          shown,      \* the store: cluster.helmApps
          statuses,   \* the store: helmAppsStatus
          indicator,  \* processingIndicatorStore
          visit,      \* how often the tab was opened
          mounted,    \* whether it is
          dialog,     \* the app in the dialog
          clicks, task, fails,
          bound       \* what may happen in this behaviour

VARIABLES raced,      \* history: an app was changed or deleted on a wrong status
          inDoubt     \* history: the list in the store may differ from the record

pageVars == <<loaded, shown, statuses, indicator, visit, mounted, dialog, clicks>>
appsVars == <<apps, release, helm, pageVars, task, fails, raced, inDoubt>>

Releases == {Release(d) : d \in Defs}
AppIds   == 0..Ops                        \* the server gives an app a new uuid
Apps     == [id : AppIds, def : Defs]

\* AppStatusType: Deployed and Failed are one, and so are those that allow nothing
Statuses == {"NotInstalled", "Installed", "Other"}

NoDialog == [open |-> FALSE, id |-> Nothing]
Idle     == [op |-> "idle"]
Dead     == [op |-> "dead"]

Slots        == {"load", "poll"} \X AllVisits \cup {"click"} \X (1..Ops)
Running(t)   == task[t] \notin {Idle, Dead}
Edits        == {"add", "update", "install", "uninstall", "delete"}
EditUnderWay == \E t \in Slots : Running(t) /\ task[t].op \in Edits

AppsTypeOK ==
    /\ apps \in Seq(Apps) /\ shown \in Seq(Apps)
    /\ IsInjective([i \in DOMAIN apps |-> apps[i].id])
    /\ release \in [Releases -> Defs \cup {Nothing}]
    /\ \A n \in 1..Ops : helm[n] # Nothing =>
          helm[n].op \in {"install", "uninstall"} /\ helm[n].def \in Defs
    /\ statuses \in [AppIds -> Statuses \cup {Nothing}]
    /\ indicator \in [{"uninstall", "delete"} -> BOOLEAN]
    /\ bound \in Bounds /\ visit \in 0..bound.visits
    /\ clicks \in 0..Ops /\ fails \in 0..bound.fails
    /\ loaded \in BOOLEAN /\ mounted \in BOOLEAN
    /\ raced \in BOOLEAN /\ inDoubt \in BOOLEAN
    /\ dialog.open => mounted /\ dialog.id \in AppIds \cup {Nothing}
    /\ \A t \in Slots : Running(t) => task[t].phase \in {"sent", "running", "answered", "failed"}

AppsInit ==
    /\ apps = <<[id |-> 0, def |-> First]>>
    /\ release \in {[r \in Releases |-> IF r = Release(First) THEN d ELSE Nothing] : d \in {Nothing, First}}
    /\ helm = [n \in 1..Ops |-> Nothing]
    /\ loaded = FALSE /\ shown = <<>> /\ statuses = [i \in AppIds |-> Nothing]
    /\ indicator = [o \in {"uninstall", "delete"} |-> FALSE]
    /\ visit = 0 /\ mounted = FALSE /\ dialog = NoDialog
    /\ clicks = 0 /\ task = [t \in Slots |-> Idle] /\ fails = 0
    /\ bound \in Bounds
    /\ raced = FALSE /\ inDoubt = FALSE
-----------------------------------------------------------------------------
(* The server *)

\* What apps_status finds of an app: a release at which Helm works is listed
\* as pending or not yet at all.
StatusNow(id) ==
    LET d == apps[FindRow(apps, id)].def
    IN  (IF release[Release(d)] = Nothing THEN {"NotInstalled"} ELSE {"Installed"})
        \cup IF \E n \in 1..Ops : helm[n] # Nothing /\ Release(helm[n].def) = Release(d)
             THEN {"Other"} ELSE {}

\* When SSH fails, every status is Unknown, and that is no error: it may fail
\* for as long as a call may.
Snapshots ==
    LET now == [id \in AppIds |-> IF HasRow(apps, id) THEN StatusNow(id) ELSE {Nothing}]
    IN  {s \in [AppIds -> UNION {now[id] : id \in AppIds}] : \A id \in AppIds : s[id] \in now[id]}
          \cup {s \in {[id \in AppIds |-> IF HasRow(apps, id) THEN "Other" ELSE Nothing]} :
                    fails < bound.fails}

Answered(t, a) == [task EXCEPT ![t].phase = "answered", ![t].answer = a]
Failed(t)      == [task EXCEPT ![t].phase = "failed"]

ServeRead(t) ==
    /\ task[t].op \in {"load", "status"}
    /\ IF task[t].op = "load" THEN task' = Answered(t, apps)
                              ELSE \E s \in Snapshots : task' = Answered(t, s)
    /\ UNCHANGED <<apps, helm>>

saveHelmApp(t) ==
    /\ task[t].op = "add"
    /\ apps' = Append(apps, [id |-> t[2], def |-> task[t].def])
    /\ task' = Answered(t, t[2])
    /\ UNCHANGED helm

\* by id, or ResourceNotFound
updateHelmApp(t) ==
    /\ task[t].op = "update"
    /\ IF HasRow(apps, task[t].id)
       THEN /\ apps' = [apps EXCEPT ![FindRow(apps, task[t].id)].def = task[t].def]
            /\ task' = Answered(t, Nothing)
       ELSE task' = Failed(t) /\ UNCHANGED apps
    /\ UNCHANGED helm

\* Nobody asks whether the app is installed.
deleteHelmApp(t) ==
    /\ task[t].op = "delete"
    /\ apps' = WithoutRow(apps, task[t].id)
    /\ task' = Answered(t, Nothing)
    /\ UNCHANGED helm

\* install_helm_app and uninstall_helm_app read the record and go on by SSH.
StartHelm(t) ==
    /\ task[t].op \in {"install", "uninstall"}
    /\ IF HasRow(apps, task[t].id)
       THEN /\ helm' = [helm EXCEPT ![t[2]] =
                          [op |-> task[t].op, def |-> apps[FindRow(apps, task[t].id)].def]]
            /\ task' = [task EXCEPT ![t].phase = "running"]
       ELSE task' = Failed(t) /\ UNCHANGED helm
    /\ UNCHANGED apps

Serve(t) ==
    /\ Running(t) /\ task[t].phase = "sent"
    /\ ServeRead(t) \/ saveHelmApp(t) \/ updateHelmApp(t) \/ deleteHelmApp(t) \/ StartHelm(t)
    /\ UNCHANGED <<release, pageVars, fails, raced, inDoubt>>

(* `helm upgrade --install` leaves a release when it succeeds, and may      *)
(* leave one when it fails; `helm uninstall` fails without a release.  The  *)
(* browser may have stopped to wait.                                        *)
HelmEnds(n) ==
    /\ helm[n] # Nothing
    /\ LET r  == Release(helm[n].def)
           ok == helm[n].op = "install" \/ release[r] # Nothing
           t  == <<"click", n>>
           Told(phase) == IF task[t].op = helm[n].op /\ task[t].phase = "running"
                          THEN [task EXCEPT ![t].phase = phase] ELSE task
       IN  \/ /\ ok
              /\ release' = [release EXCEPT ![r] = IF helm[n].op = "install" THEN helm[n].def ELSE Nothing]
              /\ task' = Told("answered")
              /\ UNCHANGED fails
           \/ /\ ok => fails < bound.fails
              /\ fails' = IF ok THEN fails + 1 ELSE fails
              /\ release' \in {release} \cup
                     IF helm[n].op = "install" THEN {[release EXCEPT ![r] = helm[n].def]} ELSE {}
              /\ task' = Told("failed")
    /\ helm' = [helm EXCEPT ![n] = Nothing]
    /\ UNCHANGED <<apps, pageVars, raced, inDoubt>>
-----------------------------------------------------------------------------
(* The tab *)

\* by: the visit the click was made in; rest: the calls that follow; submit:
\* whether it is a submission of the form; clean: that no edit overlaps a load.
Call(op, id, d, rest, submit) ==
    [op |-> op, id |-> id, def |-> d, by |-> visit, rest |-> rest, submit |-> submit,
     phase |-> "sent", answer |-> Nothing]

Read(op) == [op |-> op, phase |-> "sent", answer |-> Nothing, rest |-> <<>>,
             clean |-> op = "load" /\ ~EditUnderWay]

Open ==
    /\ ~mounted /\ visit < bound.visits
    /\ mounted' = TRUE
    /\ visit' = visit + 1
    /\ task' = [task EXCEPT ![<<"load", visit + 1>>] = Read("load")]
    /\ UNCHANGED <<apps, release, helm, loaded, shown, statuses, indicator, dialog, clicks,
                   fails, raced, inDoubt>>

Leave ==
    /\ mounted
    /\ mounted' = FALSE
    /\ dialog' = NoDialog
    /\ UNCHANGED <<apps, release, helm, loaded, shown, statuses, indicator, visit, clicks,
                   task, fails, raced, inDoubt>>

\* The call of useOnFirstMount, and the one that addHelmChart makes and does
\* not wait for, are like those of useInterval.
Tick ==
    /\ mounted /\ loaded
    /\ task[<<"poll", visit>>] = Idle
    /\ task' = [task EXCEPT ![<<"poll", visit>>] = Read("status")]
    /\ UNCHANGED <<apps, release, helm, pageVars, fails, raced, inDoubt>>

currentStatus == IF dialog.id = Nothing THEN Nothing ELSE statuses[dialog.id]

isToDelete_Always == currentStatus # Nothing                 \* mutant
isToDelete    == currentStatus = "NotInstalled"
isToUninstall == currentStatus = "Installed"
isToInstall   == currentStatus = "NotInstalled"
isToSave      == isToInstall \/ currentStatus = Nothing

isSubmitting  == \E n \in 1..Ops : LET k == task[<<"click", n>>]
                                   IN  k # Idle /\ k.submit /\ k.by = visit

anyOperationInProgress_OwnKind ==                         \* mutant: one indicator
    indicator["delete"] \/ isSubmitting \/ ~loaded
anyOperationInProgress ==
    indicator["uninstall"] \/ indicator["delete"] \/ isSubmitting \/ ~loaded

SetDialog(d) ==
    /\ dialog' = d
    /\ UNCHANGED <<apps, release, helm, loaded, shown, statuses, indicator, visit, mounted,
                   clicks, task, fails, raced, inDoubt>>

AddApp == mounted /\ loaded /\ ~dialog.open /\ SetDialog([open |-> TRUE, id |-> Nothing])

\* A row without a status cannot be selected.
SelectApp ==
    /\ mounted /\ ~dialog.open
    /\ \E i \in DOMAIN shown :
          statuses[shown[i].id] # Nothing /\ SetDialog([open |-> TRUE, id |-> shown[i].id])

Close == dialog.open /\ ~anyOperationInProgress /\ SetDialog(NoDialog)

\* Another edit of the app is under way: one made in an earlier visit.
Overlaps(id) == \E n \in 1..Ops : LET k == task[<<"click", n>>] IN k # Idle /\ k.id = id

\* Helm has a release of the app, or is about to have one, and the page shows none.
Wrong(id) ==
    /\ statuses[id] # "Installed"
    /\ \/ HasRow(apps, id) /\ StatusNow(id) # {"NotInstalled"}
       \/ Overlaps(id)

Click(op, d, rest, submit) ==
    /\ dialog.open /\ ~anyOperationInProgress
    /\ clicks < Ops
    /\ clicks' = clicks + 1
    /\ task' = [t \in Slots |->
                  IF t = <<"click", clicks + 1>> THEN Call(op, dialog.id, d, rest, submit)
                  ELSE IF Running(t) /\ task[t].op = "load" THEN [task[t] EXCEPT !.clean = FALSE]
                  ELSE task[t]]
    /\ inDoubt' = (inDoubt \/ Overlaps(dialog.id))
    /\ UNCHANGED <<apps, release, helm, loaded, statuses, visit, mounted, dialog, fails>>

Add == /\ dialog.id = Nothing /\ isToSave
       /\ \E d \in bound.typed : Click("add", d, <<>>, TRUE)
       /\ UNCHANGED <<shown, indicator, raced>>

\* updateHelmChart puts the app into the list before it makes the call.
Update(rest) ==
    /\ dialog.id # Nothing
    /\ \E d \in bound.typed :
          /\ Click("update", d, rest, TRUE)
          /\ shown' = IF HasRow(shown, dialog.id)
                      THEN [shown EXCEPT ![FindRow(shown, dialog.id)].def = d] ELSE shown
    /\ raced' = (raced \/ Wrong(dialog.id))
    /\ UNCHANGED indicator

Save    == isToSave /\ Update(<<>>)
Install == isToInstall /\ Update(<<"install", "status">>)

RemoveBy(op, rest) ==
    /\ Click(op, Nothing, rest, FALSE)
    /\ indicator' = [indicator EXCEPT ![op] = TRUE]
    /\ UNCHANGED shown

Uninstall == isToUninstall /\ RemoveBy("uninstall", <<"status">>) /\ UNCHANGED raced
Delete    == isToDelete /\ RemoveBy("delete", <<>>) /\ raced' = (raced \/ Wrong(dialog.id))
-----------------------------------------------------------------------------
(* Answers *)

\* What is left of a chain: its next call, for the same app.
Next1(k) == IF k.rest = <<>> THEN Idle
            ELSE [k EXCEPT !.op = Head(k.rest), !.rest = Tail(k.rest), !.phase = "sent",
                         !.def = Nothing, !.answer = Nothing]

Lowered_Never(op) == indicator                            \* mutant: no finally
Lowered(op) == [o \in DOMAIN indicator |-> indicator[o] /\ o # op]

loadProject(k) ==
    /\ loaded' = TRUE /\ shown' = k.answer
    /\ inDoubt' = ~k.clean
    /\ UNCHANGED <<statuses, dialog>>

updateAppsStatus(k) == statuses' = k.answer /\ UNCHANGED <<loaded, shown, dialog, inDoubt>>

\* The dialog goes on with the id of the app, if it is still the one of the click.
addHelmChart(k) ==
    /\ shown' = Append(shown, [id |-> k.answer, def |-> k.def])
    /\ dialog' = IF k.by = visit /\ dialog.open THEN [dialog EXCEPT !.id = k.answer] ELSE dialog
    /\ UNCHANGED <<loaded, statuses, inDoubt>>

deleteHelmChart(k) ==
    /\ shown' = WithoutRow(shown, k.id)
    /\ dialog' = IF k.by = visit THEN NoDialog ELSE dialog
    /\ UNCHANGED <<loaded, statuses, inDoubt>>

Answer(t) ==
    /\ Running(t) /\ task[t].phase = "answered"
    /\ LET k == task[t]
       IN  /\ CASE k.op = "load"   -> loadProject(k)
                [] k.op = "status" -> updateAppsStatus(k)
                [] k.op = "add"    -> addHelmChart(k)
                [] k.op = "delete" -> deleteHelmChart(k)
                [] OTHER           -> UNCHANGED <<loaded, shown, statuses, dialog, inDoubt>>
           /\ task' = [task EXCEPT ![t] = Next1(k)]
           /\ indicator' = Lowered(k.op)
    /\ UNCHANGED <<apps, release, helm, visit, mounted, clicks, fails, raced>>

\* After a failed install the statuses are read all the same; a failed load
\* leads to the list of clusters.
Reject(t) ==
    /\ Running(t)
    /\ LET k == task[t]
       IN  /\ IF k.phase = "failed" THEN UNCHANGED fails
              ELSE fails < bound.fails /\ fails' = fails + 1
           /\ task' = [task EXCEPT ![t] = IF k.op = "install" THEN Next1(k)
                                          ELSE IF t[1] = "poll" THEN Dead ELSE Idle]
           /\ indicator' = Lowered(k.op)
           /\ IF k.op = "load" THEN mounted' = FALSE /\ dialog' = NoDialog
                               ELSE UNCHANGED <<mounted, dialog>>
           /\ inDoubt' = \/ inDoubt
                         \/ k.op = "update" /\ k.phase # "answered"
                         \/ k.op \in {"add", "delete"} /\ k.phase = "answered"
    /\ UNCHANGED <<apps, release, helm, loaded, shown, statuses, visit, clicks, raced>>

RejectFailed(t) == Running(t) /\ task[t].phase = "failed" /\ Reject(t)

AppsNext ==
    /\ UNCHANGED bound
    /\ \/ Open \/ Leave \/ Tick
       \/ AddApp \/ SelectApp \/ Close
       \/ Add \/ Save \/ Install \/ Uninstall \/ Delete
       \/ \E t \in Slots : Serve(t) \/ Answer(t) \/ Reject(t)
       \/ \E n \in 1..Ops : HelmEnds(n)

\* The network answers and Helm ends.
Fairness ==
    /\ \A t \in Slots : WF_appsVars(bound.fair /\ (Serve(t) \/ Answer(t) \/ RejectFailed(t)))
    /\ \A n \in 1..Ops : WF_appsVars(bound.fair /\ HelmEnds(n))

AppsSpec == AppsInit /\ [][AppsNext]_<<appsVars, bound>> /\ Fairness
-----------------------------------------------------------------------------
(* Every release that Helm has is that of an app of the cluster, with the   *)
(* values of its record: so it can be uninstalled here.  That depends on    *)
(* the statuses: the user must not have changed or deleted an app by one    *)
(* that was no longer true.                                                 *)
ReleasesAreRecorded ==
    ~raced => \A r \in Releases : release[r] # Nothing =>
                  \E i \in DOMAIN apps : apps[i].def = release[r]

(* The list in the store, to which answers add and from which they remove   *)
(* piece by piece, has the apps of the record when no edit is under way;    *)
(* unless it and a load overlapped, or two edits of one app, the answer to  *)
(* one was lost, or an update failed that the store had already taken.      *)
ListIsCurrent ==
    loaded /\ ~EditUnderWay /\ ~inDoubt => Len(shown) = Len(apps) /\ ToSet(shown) = ToSet(apps)

(* At most one uninstallation or deletion is under way, over all visits: an *)
(* indicator is a boolean, so a second one would be lowered by the first.   *)
Removals == {t \in Slots : Running(t) /\ task[t].op \in {"uninstall", "delete"}}

OneRemoval == /\ \A t, u \in Removals : t = u
              /\ \A o \in DOMAIN indicator :
                    indicator[o] <=> \E t \in Removals : task[t].op = o

(* Apps have ids of their own, the list shows them, and removals do not      *)
(* overlap.                                                                 *)
AppsInv == AppsTypeOK /\ ListIsCurrent /\ OneRemoval

(* Whatever fails, the dialog does not stay locked: every call ends, and    *)
(* its end lowers the indicator.                                            *)
Locked == dialog.open /\ anyOperationInProgress

DialogUnlocks == bound.fair /\ Locked ~> ~Locked
=============================================================================
