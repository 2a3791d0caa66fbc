----------------------------- MODULE ClusterPolls -----------------------------
(***************************************************************************)
(* What the tabs of a cluster's page read again and again: statuses of VMs *)
(* and of Kubernetes nodes, of Helm apps, and logs.  Each tab has a chain  *)
(* of calls when it is mounted and another one every five seconds          *)
(* (utils/hooks.ts); their answers go into cluster-management-store.ts,    *)
(* which nobody asks which cluster they were for.                          *)
(*                                                                         *)
(* An answer is abstracted to the cluster whose machines it speaks of.     *)
(* Steps are what runs between two awaits, as in ManagedNodes, which has   *)
(* the poll of the node list.                                              *)
(***************************************************************************)
EXTENDS Naturals, Sequences, Positions

CONSTANTS Clusters,   \* names of clusters
          Mounts,     \* bound: how often a tab is mounted
          Fails,      \* bound: how many calls fail
          None        \* no cluster

Tabs == {"nodes", "apps", "workloads", "logs"}

ASSUME PollsAssumption ==
    None \notin Clusters \cup Tabs /\ Mounts \in Nat /\ Fails \in Nat

VARIABLES shown,     \* the cluster in the store, or None
          statuses,  \* the store: whose are vm, kube, apps and logs
          page,      \* the cluster in the URL, or None in the list of clusters
          tab,       \* the tab that is mounted
          mounts,    \* how often one was
          task,      \* the chains that run
          fails

VARIABLES overtaken,  \* history: calls under way since before the last load
          older       \* history: the statuses that were asked for before it

pollVars == <<shown, statuses, page, tab, mounts, task, fails, overtaken, older>>

StatusKinds == {"vm", "kube", "apps", "logs"}

\* The chain of useOnFirstMount or useAsyncEffect, and that of useInterval.
OnMount(x) ==
    CASE x = "nodes"     -> <<"vm", "kube">>
      [] x = "apps"      -> <<"apps">>
      [] x = "logs"      -> <<"effect">>
      [] x = "workloads" -> <<>>

OnInterval_NoKube(x) ==                      \* mutant: statuses of VMs alone
    CASE x = "nodes" -> <<"vm">> [] x = "apps" -> <<"apps">>
      [] x = "logs"  -> <<"logs">> [] x = "workloads" -> <<>>
OnInterval(x) ==
    CASE x = "nodes"     -> <<"vm", "kube">>
      [] x = "apps"      -> <<"apps">>
      [] x = "logs"      -> <<"logs">>
      [] x = "workloads" -> <<>>
-----------------------------------------------------------------------------
Idle == [op |-> "idle"]
Dead == [op |-> "dead"]     \* useInterval: its flag is down for good

\* A load belongs to the mount the page began with, and so does the effect of
\* Logs that its answer sets off.
Slots == {"mount", "poll", "load", "effect"} \X (1..Mounts) \cup {<<"clear", 0>>}

\* Without a cluster all but the interval of Logs return at once; that one
\* asks for the logs of "".
Due(op, s) == s # None \/ op = "logs"

StatusCall(op, c, rest) == [op |-> op, to |-> c, rest |-> rest]

Chain(ops, s) ==
    LET due == {i \in DOMAIN ops : Due(ops[i], s)}
        i   == Nth(due, 1)
    IN  IF due = {} THEN Idle ELSE StatusCall(ops[i], s, SubSeq(ops, i + 1, Len(ops)))

Running(t) == task[t] \notin {Idle, Dead}

\* The list in the store that a call is for
KindOf(op) == IF op = "effect" THEN "logs" ELSE op

NoStatuses == [k \in StatusKinds |-> None]

PollsTypeOK ==
    /\ shown \in Clusters \cup {None} /\ page \in Clusters \cup {None}
    /\ statuses \in [StatusKinds -> Clusters \cup {None}]
    /\ tab \in Tabs \cup {None} /\ (tab = None <=> page = None)
    /\ mounts \in 0..Mounts /\ fails \in 0..Fails
    /\ overtaken \subseteq Slots /\ older \subseteq StatusKinds
    /\ \A t \in Slots : Running(t) =>
          /\ task[t].to \in Clusters \cup {None}
          /\ task[t].to = None => task[t].op \in {"logs", "clear"}

PollsInit ==
    /\ shown = None /\ statuses = NoStatuses
    /\ page = None /\ tab = None /\ mounts = 0
    /\ task = [t \in Slots |-> Idle]
    /\ fails = 0
    /\ overtaken = {} /\ older = {}

(* The effects of the tab run before those of the page around it, so their *)
(* calls are for the cluster that was shown until now.                     *)
Mount(c, x, withPage) ==
    /\ mounts < Mounts
    /\ mounts' = mounts + 1
    /\ page' = c /\ tab' = x
    /\ task' = [task EXCEPT ![<<"mount", mounts + 1>>] = Chain(OnMount(x), shown),
                            ![<<"load", mounts + 1>>] =
                               IF withPage THEN StatusCall("load", c, <<>>) ELSE Idle]
    /\ UNCHANGED <<shown, statuses, fails, overtaken, older>>

Open(c, x)   == page = None /\ Mount(c, x, TRUE)
SwitchTab(x) == page # None /\ tab # x /\ Mount(page, x, FALSE)

Leave ==
    /\ page # None
    /\ page' = None /\ tab' = None
    /\ UNCHANGED <<shown, statuses, mounts, task, fails, overtaken, older>>

\* The flag is up when no chain of this mount runs and none has failed.
Tick ==
    /\ page # None
    /\ task[<<"poll", mounts>>] = Idle
    /\ task' = [task EXCEPT ![<<"poll", mounts>>] = Chain(OnInterval(tab), shown)]
    /\ UNCHANGED <<shown, statuses, page, tab, mounts, fails, overtaken, older>>

\* The button of Logs; one click at a time is enough.
Clear ==
    /\ tab = "logs"
    /\ task[<<"clear", 0>>] = Idle
    /\ task' = [task EXCEPT ![<<"clear", 0>>] = StatusCall("clear", shown, <<>>)]
    /\ UNCHANGED <<shown, statuses, page, tab, mounts, fails, overtaken, older>>

Loaded(c, t) ==
    /\ shown' = c
    /\ task' = [task EXCEPT ![t] = Idle,
                            ![<<"effect", t[2]>>] =
                               IF tab = "logs" THEN Chain(OnMount(tab), c) ELSE Idle]
    /\ overtaken' = {u \in Slots \ {t} : Running(u) /\ KindOf(task[u].op) \in StatusKinds}
    /\ older' = {"apps", "logs"}

(* loadProject: the cluster is replaced and the statuses of nodes are       *)
(* cleared, those of apps and the logs are not.  Logs has an effect on the  *)
(* cluster.                                                                 *)
loadProject_KeepsStatuses(c, t) ==           \* mutant: nothing is cleared
    Loaded(c, t) /\ UNCHANGED statuses
loadProject(c, t) ==
    Loaded(c, t) /\ statuses' = [statuses EXCEPT !["vm"] = None, !["kube"] = None]

\* updateClusterNodeVmStatuses, updateClusterKubeStatuses, updateAppsStatus, loadLogs
update(op, c, t) ==
    /\ statuses' = [statuses EXCEPT ![KindOf(op)] = c]
    /\ task' = [task EXCEPT ![t] = Chain(@.rest, shown)]
    /\ older' = IF t \in overtaken THEN older \cup {KindOf(op)} ELSE older \ {KindOf(op)}
    /\ overtaken' = overtaken \ {t}
    /\ UNCHANGED shown

clearLogs(t) ==
    /\ statuses' = [statuses EXCEPT !["logs"] = None]
    /\ task' = [task EXCEPT ![t] = Idle]
    /\ UNCHANGED <<shown, overtaken, older>>

Answer(t) ==
    /\ Running(t) /\ task[t].to # None
    /\ CASE task[t].op = "load"  -> loadProject(task[t].to, t)
         [] task[t].op = "clear" -> clearLogs(t)
         [] OTHER                -> update(task[t].op, task[t].to, t)
    /\ UNCHANGED <<page, tab, mounts, fails>>

\* A call fails, or was for the logs of "".  The chain ends; an interval does
\* not begin another one; a failed load leads to the list.
Reject(t) ==
    /\ Running(t)
    /\ IF task[t].to = None THEN UNCHANGED fails
                            ELSE fails < Fails /\ fails' = fails + 1
    /\ task' = [task EXCEPT ![t] = IF t[1] = "poll" THEN Dead ELSE Idle]
    /\ IF task[t].op = "load" THEN page' = None /\ tab' = None ELSE UNCHANGED <<page, tab>>
    /\ overtaken' = overtaken \ {t}
    /\ UNCHANGED <<shown, statuses, mounts, older>>

RejectNoCluster(t) == Running(t) /\ task[t].to = None /\ Reject(t)

PollsNext ==
    \/ \E c \in Clusters, x \in Tabs : Open(c, x)
    \/ \E x \in Tabs : SwitchTab(x)
    \/ Leave \/ Tick \/ Clear
    \/ \E t \in Slots : Answer(t) \/ Reject(t)

\* The server answers, if only that there is no cluster "", and timers tick
\* while the tab is mounted.
Fairness ==
    /\ WF_pollVars(Tick)
    /\ \A t \in Slots : WF_pollVars(Answer(t)) /\ WF_pollVars(RejectNoCluster(t))

PollsSpec == PollsInit /\ [][PollsNext]_pollVars /\ Fairness
-----------------------------------------------------------------------------
(* The statuses in the store, and the logs, are those of the cluster that   *)
(* is shown, of whichever pages the chains are whose answers come in, and   *)
(* however often they are mounted: unless they were asked for before it was *)
(* loaded.  For nodes that is the answer to a call that the load overtook,  *)
(* since the load clears what was there; statuses of apps and logs stay     *)
(* until the next answer.  (What is shown of a list of another cluster: the *)
(* status of a VM is looked for by its id, which two records may share, of  *)
(* a Kubernetes node by its host name, of an app by its uuid; logs are      *)
(* shown as they are.)                                                      *)
StatusesAreOwn ==
    \A k \in StatusKinds : statuses[k] \notin {None, shown} => k \in older

(* An open page has a tab, and in the store are statuses of its cluster.    *)
PollsInv == PollsTypeOK /\ StatusesAreOwn

(* When the user stays on a tab, what it shows becomes that of the cluster  *)
(* in the store and stays so, but for logs just cleared, whatever late      *)
(* answers have left behind: unless one call of the poll has failed, the    *)
(* first one at all included that asks for the logs of "".                  *)
OnTab == [k \in StatusKinds |-> CASE k \in {"vm", "kube"} -> "nodes" [] OTHER -> k]

TabIsCurrent == \A k \in StatusKinds : OnTab[k] = tab =>
             statuses[k] = shown \/ (k = "logs" /\ statuses[k] = None)

PollDied == page # None /\ task[<<"poll", mounts>>] = Dead

BecomesFresh == <>[](page # None) => <>[](TabIsCurrent \/ PollDied)
=============================================================================
