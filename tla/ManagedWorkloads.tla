--------------------------- MODULE ManagedWorkloads ---------------------------
(***************************************************************************)
(* The workloads of a cluster, which are manifests: the tab Workloads with *)
(* its dialog, the functions of cluster-management-store.ts behind it and  *)
(* the handlers of the operator.  It is the tab Apps (ManagedApps) without *)
(* statuses: nothing says whether a manifest is applied, and all buttons   *)
(* are always there.  What keeps commands apart is one indicator for each  *)
(* kind, which outlives the page, and the form, which does not.  The key   *)
(* Enter goes past both: it submits the form whatever is in progress.      *)
(*                                                                         *)
(* The cluster is in Sync, and what kubectl does is left out: a command    *)
(* reads the manifest and takes its time.                                  *)
(***************************************************************************)
EXTENDS Naturals, Sequences, FiniteSets, SequencesExt, Positions

CONSTANTS Manifests,     \* what a form may hold
          First,         \* the manifest that the cluster was created with
          Visits, Ops,   \* bounds: visits of the tab, clicks that make calls
          Fails,         \* bound: calls that fail
          None

ASSUME WorkloadsAssumption ==
    /\ First \in Manifests /\ None \notin Manifests \cup Nat
    /\ Visits \in Nat /\ Ops \in Nat /\ Fails \in Nat

VARIABLES resources,  \* cluster_resources of the record of the cluster
          loaded,     \* whether the store has got the cluster
          shown,      \* the store: cluster.clusterResources
          indicator,  \* processingIndicatorStore
          visit, mounted, dialog,
          clicks, task, fails

VARIABLES inDoubt,    \* history: the list in the store may differ from the record
          pressed     \* history: the visits in which Enter went past the buttons

pageVars == <<visit, mounted, dialog>>
vars     == <<resources, loaded, shown, indicator, pageVars, clicks, task, fails, inDoubt, pressed>>

Commands  == {"install", "uninstall", "delete"}
Edits     == {"add", "update", "delete"}
Ids       == 0..Ops                         \* the server gives each a new uuid
Resources == [id : Ids, def : Manifests]

\* id and form are those of formik; own: the calls that this form has made
NoDialog == [open |-> FALSE, id |-> None, form |-> None, isSubmitting |-> FALSE, own |-> {}]
Idle     == [op |-> "idle"]

Slots      == {"load"} \X (1..Visits) \cup {"click"} \X (1..Ops)
Running(t) == task[t] # Idle
Editing    == \E t \in Slots : Running(t) /\ task[t].op \in Edits


TypeOK ==
    /\ resources \in Seq(Resources) /\ shown \in Seq(Resources)
    /\ IsInjective([i \in DOMAIN resources |-> resources[i].id])
    /\ indicator \in [Commands -> BOOLEAN]
    /\ visit \in 0..Visits /\ clicks \in 0..Ops /\ fails \in 0..Fails
    /\ loaded \in BOOLEAN /\ mounted \in BOOLEAN /\ inDoubt \in BOOLEAN
    /\ dialog.open => mounted /\ dialog.id \in Ids \cup {None}
    /\ dialog.form \in Manifests \cup {None} /\ dialog.isSubmitting \in BOOLEAN
    /\ dialog.own \subseteq 1..clicks /\ pressed \subseteq 1..visit
    /\ \A t \in Slots : Running(t) => task[t].phase \in {"sent", "answered", "failed"}

Init ==
    /\ resources = <<[id |-> 0, def |-> First]>>
    /\ loaded = FALSE /\ shown = <<>>
    /\ indicator = [o \in Commands |-> FALSE]
    /\ visit = 0 /\ mounted = FALSE /\ dialog = NoDialog
    /\ clicks = 0 /\ task = [t \in Slots |-> Idle] /\ fails = 0
    /\ inDoubt = FALSE /\ pressed = {}
-----------------------------------------------------------------------------
(* The server *)

Answered(t, a) == [task EXCEPT ![t].phase = "answered", ![t].answer = a]
Failed(t)      == [task EXCEPT ![t].phase = "failed"]

getCluster(t) == task' = Answered(t, resources) /\ UNCHANGED resources

save_cluster_workload(t) ==
    /\ resources' = Append(resources, [id |-> t[2], def |-> task[t].def])
    /\ task' = Answered(t, t[2])

\* by id, or ResourceNotFound
update_cluster_workload(t) ==
    IF HasRow(resources, task[t].id)
    THEN /\ resources' = [resources EXCEPT ![FindRow(resources, task[t].id)].def = task[t].def]
         /\ task' = Answered(t, None)
    ELSE task' = Failed(t) /\ UNCHANGED resources

delete_cluster_workload(t) ==
    /\ resources' = WithoutRow(resources, task[t].id)
    /\ task' = Answered(t, None)

\* install_cluster_workload and uninstall_cluster_workload
run_kubectl(t) ==
    /\ task' = IF HasRow(resources, task[t].id) THEN Answered(t, None) ELSE Failed(t)
    /\ UNCHANGED resources

Serve(t) ==
    /\ Running(t) /\ task[t].phase = "sent"
    /\ CASE task[t].op = "load"   -> getCluster(t)
         [] task[t].op = "add"    -> save_cluster_workload(t)
         [] task[t].op = "update" -> update_cluster_workload(t)
         [] task[t].op = "delete" -> delete_cluster_workload(t)
         [] OTHER                 -> run_kubectl(t)
    /\ UNCHANGED <<loaded, shown, indicator, pageVars, clicks, fails, inDoubt, pressed>>
-----------------------------------------------------------------------------
(* The tab *)
Open ==
    /\ ~mounted /\ visit < Visits
    /\ mounted' = TRUE
    /\ visit' = visit + 1
    /\ task' = [task EXCEPT ![<<"load", visit + 1>>] =
                   [op |-> "load", phase |-> "sent", answer |-> None, clean |-> ~Editing]]
    /\ UNCHANGED <<resources, loaded, shown, indicator, dialog, clicks, fails, inDoubt, pressed>>

Leave ==
    /\ mounted
    /\ mounted' = FALSE
    /\ dialog' = NoDialog
    /\ UNCHANGED <<resources, loaded, shown, indicator, visit, clicks, task, fails, inDoubt, pressed>>

anyOperationInProgress_NotDelete ==                       \* mutant: one indicator left out
    indicator["install"] \/ indicator["uninstall"] \/ dialog.isSubmitting \/ ~loaded
anyOperationInProgress_NotSubmitting ==                   \* mutant: nor the form
    indicator["install"] \/ indicator["uninstall"] \/ indicator["delete"] \/ ~loaded
anyOperationInProgress ==
    indicator["install"] \/ indicator["uninstall"] \/ indicator["delete"]
        \/ dialog.isSubmitting \/ ~loaded

SetDialog(d) ==
    /\ dialog' = d
    /\ UNCHANGED <<resources, loaded, shown, indicator, visit, mounted, clicks, task, fails, inDoubt,
                   pressed>>

AddWorkload == mounted /\ loaded /\ ~dialog.open /\ SetDialog([NoDialog EXCEPT !.open = TRUE])

\* The form is given a workload of the list, and starts anew.
Reinitialized(d, id, def) == [d EXCEPT !.id = id, !.form = def, !.isSubmitting = FALSE]

SelectWorkload ==
    /\ mounted /\ ~dialog.open
    /\ \E i \in DOMAIN shown :
          SetDialog(Reinitialized([NoDialog EXCEPT !.open = TRUE], shown[i].id, shown[i].def))

\* The inputs are read-only while an operation is in progress.
Type ==
    /\ dialog.open /\ ~anyOperationInProgress
    /\ \E d \in Manifests : SetDialog([dialog EXCEPT !.form = d])

Close == dialog.open /\ ~anyOperationInProgress /\ SetDialog(NoDialog)

\* An edit of the same workload is under way.
Overlaps(id) == \E n \in 1..Ops : LET k == task[<<"click", n>>]
                                  IN  k # Idle /\ k.op \in Edits /\ k.id = id

\* An edit that a load overlaps makes the list it brings unclean.
Click(op, d) ==
    /\ dialog.open /\ clicks < Ops
    /\ clicks' = clicks + 1
    /\ task' = [t \in Slots |->
                  IF t = <<"click", clicks + 1>>
                  THEN [op |-> op, id |-> dialog.id, def |-> d, by |-> visit, phase |-> "sent", answer |-> None]
                  ELSE IF task[t].op = "load" /\ op \in Edits THEN [task[t] EXCEPT !.clean = FALSE]
                  ELSE task[t]]
    /\ inDoubt' = (inDoubt \/ (op \in {"update", "delete"} /\ Overlaps(dialog.id)))
    /\ UNCHANGED <<resources, loaded, visit, mounted, fails>>

(* A form that is filled in is submitted with the button Save, which is     *)
(* disabled while an operation is in progress, or with Enter in the field   *)
(* of the name, which the only line of the form always allows.              *)
Submit(op) ==
    /\ dialog.form # None
    /\ Click(op, dialog.form)
    /\ dialog' = [dialog EXCEPT !.isSubmitting = TRUE, !.own = @ \cup {clicks + 1}]
    /\ pressed' = IF anyOperationInProgress THEN pressed \cup {visit} ELSE pressed
    /\ UNCHANGED indicator

Add == dialog.id = None /\ Submit("add") /\ UNCHANGED shown

\* updateK8sResources puts the manifest into the list before it makes the call.
Save == /\ dialog.id # None
        /\ Submit("update")
        /\ shown' = IF HasRow(shown, dialog.id)
                    THEN [shown EXCEPT ![FindRow(shown, dialog.id)].def = dialog.form] ELSE shown

\* Install, Uninstall and Delete are there for a workload that has an id.
Command(op) ==
    /\ dialog.id # None /\ ~anyOperationInProgress
    /\ Click(op, None)
    /\ indicator' = [indicator EXCEPT ![op] = TRUE]
    /\ UNCHANGED <<shown, dialog, pressed>>
-----------------------------------------------------------------------------
(* Answers.  formik takes the end of any submission of its form for the end *)
(* of all.                                                                  *)
Ended(n) == IF n \in dialog.own THEN [dialog EXCEPT !.isSubmitting = FALSE, !.own = @ \ {n}] ELSE dialog

\* onSubmit of the tab: the dialog goes on with this workload.
GoOn(t, id, def) == dialog' = IF task[t].by = visit /\ dialog.open THEN Reinitialized(Ended(t[2]), id, def)
                                                                    ELSE dialog

\* wrapWithProcessingIndicator: in a `finally`
stopProcessing(op) == [o \in Commands |-> indicator[o] /\ o # op]

loadProject(k) ==
    /\ loaded' = TRUE /\ shown' = k.answer
    /\ inDoubt' = ~k.clean
    /\ UNCHANGED dialog

addK8sResources(t) ==
    /\ shown' = Append(shown, [id |-> task[t].answer, def |-> task[t].def])
    /\ GoOn(t, task[t].answer, task[t].def)
    /\ UNCHANGED <<loaded, inDoubt>>

\* The dialog has this workload, unless it is another one by now.
updateK8sResources(t) ==
    /\ IF HasRow(shown, task[t].id) /\ dialog.id # task[t].id
       THEN GoOn(t, task[t].id, shown[FindRow(shown, task[t].id)].def)
       ELSE dialog' = Ended(t[2])
    /\ UNCHANGED <<loaded, shown, inDoubt>>

deleteK8sResources_StaysInList(k) ==                      \* mutant: no filter
    /\ dialog' = IF k.by = visit THEN NoDialog ELSE dialog
    /\ UNCHANGED <<loaded, shown, inDoubt>>
deleteK8sResources(k) ==
    /\ shown' = WithoutRow(shown, k.id)
    /\ dialog' = IF k.by = visit THEN NoDialog ELSE dialog
    /\ UNCHANGED <<loaded, inDoubt>>

Answer(t) ==
    /\ Running(t) /\ task[t].phase = "answered"
    /\ CASE task[t].op = "load"   -> loadProject(task[t])
         [] task[t].op = "add"    -> addK8sResources(t)
         [] task[t].op = "update" -> updateK8sResources(t)
         [] task[t].op = "delete" -> deleteK8sResources(task[t])
         [] OTHER                 -> UNCHANGED <<loaded, shown, dialog, inDoubt>>
    /\ task' = [task EXCEPT ![t] = Idle]
    /\ indicator' = stopProcessing(task[t].op)
    /\ UNCHANGED <<resources, visit, mounted, clicks, fails, pressed>>

\* A call fails: refused, before it is served, or on its way back.  What an
\* update has put into the list stays there.
Reject(t) ==
    /\ Running(t)
    /\ LET k == task[t]
       IN  /\ IF k.phase = "failed" THEN UNCHANGED fails
              ELSE fails < Fails /\ fails' = fails + 1
           /\ task' = [task EXCEPT ![t] = Idle]
           /\ indicator' = stopProcessing(k.op)
           /\ IF k.op = "load" THEN mounted' = FALSE /\ dialog' = NoDialog
                               ELSE dialog' = Ended(t[2]) /\ UNCHANGED mounted
           /\ inDoubt' = \/ inDoubt
                         \/ k.op = "update" /\ k.phase # "answered"
                         \/ k.op \in {"add", "delete"} /\ k.phase = "answered"
    /\ UNCHANGED <<resources, loaded, shown, visit, clicks, pressed>>

Next ==
    \/ Open \/ Leave
    \/ AddWorkload \/ SelectWorkload \/ Type \/ Close
    \/ Add \/ Save \/ \E op \in Commands : Command(op)
    \/ \E t \in Slots : Serve(t) \/ Answer(t) \/ Reject(t)

Spec == Init /\ [][Next]_vars
-----------------------------------------------------------------------------
(* At most one of installations, uninstallations and deletions is under     *)
(* way, over all visits of the page, and its indicator is up: kubectl never *)
(* applies and deletes manifests of this browser at the same time, and the  *)
(* end of one does not unlock the dialog while another one runs.            *)
InCommand(t) == task[t].op \in Commands

OneCommand ==
    /\ \A t, u \in Slots : InCommand(t) /\ InCommand(u) => t = u
    /\ \A t \in Slots : InCommand(t) => indicator[task[t].op]
    /\ \A o \in Commands : indicator[o] => \E t \in Slots : task[t].op = o

(* The list in the store, to which answers add and from which they remove   *)
(* piece by piece, has the manifests of the record when no edit is under    *)
(* way; unless it and a load overlapped, or two edits of one manifest, the  *)
(* answer to one was lost, or an update failed that the list had taken.     *)
ListIsCurrent ==
    loaded /\ ~Editing /\ ~inDoubt =>
        Len(shown) = Len(resources) /\ ToSet(shown) = ToSet(resources)

(* Manifests have ids of their own, and the list shows them.                *)
WorkloadsInv == TypeOK /\ ListIsCurrent

(* What kubectl applies is the manifest that the page shows: an installation*)
(* cannot be asked for while an update of the manifest is under way, nor    *)
(* the other way round; unless in another visit, or in one where Enter      *)
(* submitted the form while something was in progress.                      *)
Underway(id) == \E n \in 1..Ops :
                   LET k == task[<<"click", n>>]
                   IN  k # Idle /\ k.op = "update" /\ k.id = id /\ (k.by # visit \/ visit \in pressed)

InstallsWhatIsShown ==
    [][\A n \in 1..Ops :
          LET t == <<"click", n>>
          IN  task[t].op = "install" /\ task[t].phase = "sent" /\ task'[t].op = "install"
                  /\ task'[t].phase = "answered" =>
              \/ inDoubt \/ Underway(task[t].id) \/ ~HasRow(shown, task[t].id)
              \/ resources[FindRow(resources, task[t].id)].def = shown[FindRow(shown, task[t].id)].def]_vars
=============================================================================
