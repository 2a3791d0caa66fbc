----------------------------- MODULE ManagedNodes -----------------------------
(***************************************************************************)
(* The page of a cluster in the browser, on its tab Nodes, and the store   *)
(* behind it, cluster-management-store.ts: a singleton that outlives the   *)
(* page.  The page loads the cluster and polls statuses and, while a lock  *)
(* is shown, the nodes; its dialogs add, delete and change nodes.          *)
(*                                                                         *)
(* JavaScript runs an async function up to its next `await` in one go, so  *)
(* an action is what runs between two awaits: the answer of a call is      *)
(* applied and the next call of the chain is sent in one step.  Every      *)
(* chain is a task; it runs on after the page that began it has gone.  A   *)
(* call is for the cluster that the store shows when it is sent, and its   *)
(* answer goes to the cluster shown when it comes.                         *)
(*                                                                         *)
(* The server (ClusterLifecycle) is here what its callers see of it: a     *)
(* handler is one step, and so is what the worker does for a request.      *)
(***************************************************************************)
EXTENDS Naturals, Sequences, FiniteSets, SequencesExt, Positions

CONSTANTS Clusters,    \* names of clusters
          NodeNames,   \* names of nodes
          Masters,     \* the nodes of type Master
          Initial,     \* the nodes of each cluster at first, in their order
          Bounds,      \* how much may happen in a behaviour, see Bound
          None         \* no cluster, no node

\* What a locked node waits for
Marks == {"Create", "Delete", "ChangeResources"}

ASSUME InitialAssumption ==
    /\ \A c \in Clusters : /\ Initial[c] \in Seq(NodeNames) /\ IsInjective(Initial[c])
                           /\ ToSet(Initial[c]) \cap Masters # {}
    /\ Masters \subseteq NodeNames
    /\ None \notin Clusters \cup NodeNames \cup Clusters \X NodeNames \cup Marks
                     \cup {"Sync", "Error"}

\* How often the page is opened, how many requests the dialogs make and how
\* many calls and operations fail.
Bound == [visits : Nat, edits : Nat, fails : Nat]

ASSUME BoundAssumption == Bounds \subseteq Bound

Visits == UNION {1..b.visits : b \in Bounds}
Edits  == UNION {1..b.edits : b \in Bounds}

VARIABLES server,    \* the records of the clusters
          queue,     \* what the worker still has to do
          shown,     \* the store: cluster
          page,      \* the cluster in the URL, or None in the list of clusters
          visit,     \* how often the page was opened
          dialog,    \* the dialog on the page
          task,      \* the chains of calls that run
          edits, fails, \* how many there were
          bound      \* how much may happen in this behaviour

VARIABLES told,      \* history: the edits the store knows of, or never will
          crossed    \* history: whether the list last put into the store was
                     \* out of date, or that of another cluster

vars == <<server, queue, shown, page, visit, dialog, task, edits, fails, told, crossed>>

Locks == Marks \cup {None}

\* A node has the VM of its cluster and name; two nodes of a name have one VM
\* ID, since the dialog proposes both together.
Node(c, n, l) == [name |-> n, vm |-> <<c, n>>, lock |-> l]
Nodes         == [name : NodeNames, vm : Clusters \X NodeNames, lock : Locks]
-----------------------------------------------------------------------------
(* The server *)
Named(nodes, n) == {i \in DOMAIN nodes : nodes[i].name = n}

Relock(nodes, n, l) ==
    [i \in DOMAIN nodes |-> IF nodes[i].name = n THEN [nodes[i] EXCEPT !.lock = l] ELSE nodes[i]]

\* .find(|i| i.name == n)
RelockFirst(nodes, n, l) == [nodes EXCEPT ![Nth(Named(nodes, n), 1)].lock = l]

Has(nodes, n) == Named(nodes, n) # {}

\* A handler refuses; the others take what they are asked.
Refused(op, c, n) == op = "delete" /\ ~Has(server[c].nodes, n)

Handled(op, nodes, c, n) ==
    CASE op = "add"    -> Append(nodes, Node(c, n, "Create"))
      [] op = "delete" -> RelockFirst(nodes, n, "Delete")
      [] op = "change" -> Relock(nodes, n, "ChangeResources")
      [] OTHER         -> nodes

EditOps == {"add", "delete", "change"}

Worked(op, nodes, n) ==
    CASE op = "delete" -> IF Len(nodes) = 1 THEN nodes     \* "Cannot delete last node"
                          ELSE Kept(nodes, DOMAIN nodes \ Named(nodes, n))
      [] OTHER         -> RelockFirst(nodes, n, None)

\* The use case fails whatever the machines do: there is no node of the name,
\* or no other master.
CannotWork_NoMasterCheck(op, nodes, n) == ~Has(nodes, n)   \* mutant
CannotWork(op, nodes, n) ==
    \/ ~Has(nodes, n)
    \/ op \in {"add", "delete"} /\ Len(nodes) > 1
         /\ \A i \in DOMAIN nodes : nodes[i].name \in Masters => nodes[i].name = n

Work ==
    /\ queue # <<>>
    /\ LET job   == Head(queue)
           nodes == server[job.to].nodes
       IN  \/ /\ ~CannotWork(job.op, nodes, job.node)
              /\ server' = [server EXCEPT ![job.to] =
                              [status |-> "Sync", nodes |-> Worked(job.op, nodes, job.node)]]
              /\ UNCHANGED fails
           \/ /\ fails < bound.fails \/ CannotWork(job.op, nodes, job.node)
              /\ server' = [server EXCEPT ![job.to].status = "Error"]
              /\ fails' = IF CannotWork(job.op, nodes, job.node) THEN fails ELSE fails + 1
    /\ queue' = Tail(queue)
    /\ UNCHANGED <<shown, page, visit, dialog, task, edits, told, crossed>>
-----------------------------------------------------------------------------
(* Tasks *)
Idle == [op |-> "idle"]
Dead == [op |-> "dead"]     \* useInterval: the flag is down for good

Slots == {"load", "poll"} \X Visits \cup {"edit"} \X Edits

\* lock in updateNodesIfThereIsAnyLock
AnyLock(nodes) == \E i \in DOMAIN nodes : nodes[i].lock # None

\* Whether the function of the store that makes the call gets to it.
Due_AllLocked(op, s) ==                                 \* mutant: `&&` in reduce
    s.name # None /\ (op = "nodes" => \A i \in DOMAIN s.nodes : s.nodes[i].lock # None)
Due(op, s) == s.name # None /\ (op = "nodes" => AnyLock(s.nodes))

\* by: the visit of the page it is for.  What the server says of the machines
\* is not looked at here, so a call for it need not be served.
Call(op, c, n, by, rest) ==
    [op |-> op, to |-> c, node |-> n, by |-> by, rest |-> rest,
     phase |-> IF op = "statuses" THEN "answered" ELSE "sent", answer |-> Idle]

\* The chain of awaits goes on as far as its next call, with s in the store.
Chain(ops, by, s) ==
    LET due == {i \in DOMAIN ops : Due(ops[i], s)}
        i   == Nth(due, 1)
    IN  IF due = {} THEN Idle
        ELSE Call(ops[i], s.name, None, by, SubSeq(ops, i + 1, Len(ops)))

\* The two calls for statuses, which ClusterPolls has in detail, are one here.
OnInterval == <<"statuses", "nodes">>

Running(t) == task[t] \notin {Idle, Dead}

NoDialog == [kind |-> "none", vm |-> None]

\* nodes.find(n => n.vmId == vmId)
Stored(s, vm) == \E i \in DOMAIN s.nodes : s.nodes[i].vm = vm

\* The types, and that a dialog of a node is about one that is shown.
TypeOK ==
    /\ \A c \in Clusters : /\ server[c].status \in {"Sync", "Error"}
                           /\ server[c].nodes \in Seq(Nodes)
    /\ shown.name \in Clusters \cup {None}
    /\ shown.status \in {"Sync", "Error", None}
    /\ shown.nodes \in Seq(Nodes)
    /\ page \in Clusters \cup {None} /\ visit \in 0..bound.visits
    /\ dialog.kind \in {"none", "add", "edit", "confirm"}
    /\ dialog.kind \in {"edit", "confirm"} <=> dialog.vm # None
    /\ dialog.vm # None => Stored(shown, dialog.vm)
    /\ \A t \in Slots : Running(t) =>
          /\ task[t].phase \in {"sent", "answered", "failed"}
          /\ task[t].to \in Clusters
    /\ bound \in Bounds /\ edits \in 0..bound.edits /\ fails \in 0..bound.fails
    /\ told \subseteq [edit : Edits, to : Clusters] /\ crossed \in BOOLEAN

Init ==
    /\ server = [c \in Clusters |->
                   [status |-> "Sync",
                    nodes  |-> [i \in DOMAIN Initial[c] |-> Node(c, Initial[c][i], None)]]]
    /\ queue = <<>>
    /\ shown = [name |-> None, status |-> None, nodes |-> <<>>]
    /\ page = None /\ visit = 0 /\ dialog = NoDialog
    /\ task = [t \in Slots |-> Idle]
    /\ edits = 0 /\ fails = 0 /\ bound \in Bounds
    /\ told = {} /\ crossed = FALSE

\* The edits that a list of c taken now takes account of.
Known(c) ==
    {e \in 1..edits : LET k == task[<<"edit", e>>]
                      IN  k # Idle /\ k.to = c => k.phase # "sent"}

\* The worker still has something to do for a node that has no lock any more:
\* it has finished another request for the node and unlocked it.
Hidden(c) ==
    \E i \in DOMAIN queue :
        /\ queue[i].to = c
        /\ \A j \in DOMAIN server[c].nodes :
              server[c].nodes[j].name = queue[i].node => server[c].nodes[j].lock = None

\* The handler of a call runs.
Serve(t) ==
    /\ Running(t) /\ task[t].phase = "sent"
    /\ LET k == task[t]
       IN  IF Refused(k.op, k.to, k.node)
           THEN /\ task' = [task EXCEPT ![t].phase = "failed"]
                /\ UNCHANGED <<server, queue>>
           ELSE /\ server' = [server EXCEPT ![k.to].nodes = Handled(k.op, @, k.to, k.node)]
                /\ queue' = IF k.op \in EditOps
                            THEN Append(queue, [op |-> k.op, to |-> k.to, node |-> k.node])
                            ELSE queue
                /\ task' = [task EXCEPT ![t].phase = "answered",
                                        ![t].answer =
                               IF k.op \in {"load", "nodes"}
                               THEN [cluster |-> server[k.to], known |-> Known(k.to),
                                     hidden |-> Hidden(k.to)]
                               ELSE Idle]
    /\ UNCHANGED <<shown, page, visit, dialog, edits, fails, told, crossed>>
-----------------------------------------------------------------------------
(* Answers: what the functions of the store do after their await *)

Open(c) ==
    /\ page = None /\ visit < bound.visits
    /\ page' = c
    /\ visit' = visit + 1
    /\ task' = [task EXCEPT ![<<"load", visit + 1>>] = Call("load", c, None, visit + 1, <<>>)]
    /\ UNCHANGED <<server, queue, shown, dialog, edits, fails, told, crossed>>

Leave ==
    /\ page # None
    /\ page' = None
    /\ dialog' = NoDialog
    /\ UNCHANGED <<server, queue, shown, visit, task, edits, fails, told, crossed>>

\* useInterval, every five seconds while the tab is mounted.
Tick ==
    /\ page # None
    /\ task[<<"poll", visit>>] = Idle
    /\ task' = [task EXCEPT ![<<"poll", visit>>] = Chain(OnInterval, visit, shown)]
    /\ UNCHANGED <<server, queue, shown, page, visit, dialog, edits, fails, told, crossed>>

loadProject_KeepsName(k, s) ==                     \* mutant: only the nodes are replaced
    [s EXCEPT !.name = IF @ = None THEN k.to ELSE @, !.status = k.answer.cluster.status,
              !.nodes = k.answer.cluster.nodes]
loadProject(k, s) == [name |-> k.to, status |-> k.answer.cluster.status,
                      nodes |-> k.answer.cluster.nodes]

addNodeToCluster_Request(k, s) ==                  \* mutant: pushes what it sent
    [s EXCEPT !.nodes = Append(@, Node(k.to, k.node, None))]
addNodeToCluster(k, s)      == [s EXCEPT !.nodes = Append(@, Node(k.to, k.node, "Create"))]
deleteNodeFromCluster(k, s) ==
    IF ~Has(s.nodes, k.node) THEN s
    ELSE [s EXCEPT !.nodes[Nth(Named(s.nodes, k.node), 1)] = Node(k.to, k.node, "Delete")]
updateNodes(k, s)           == [s EXCEPT !.nodes = k.answer.cluster.nodes]

Applied(k, s) ==
    CASE k.op = "load"   -> loadProject(k, s)
      [] k.op = "nodes"  -> updateNodes(k, s)
      [] k.op = "add"    -> addNodeToCluster(k, s)
      [] k.op = "delete" -> deleteNodeFromCluster(k, s)
      [] OTHER           -> s

\* EditNodeDialog closes when its node is not in the store any more, or, like
\* AddNodeDialog, when its own call has succeeded; which of its kind is open
\* by then does not matter to setVisible.
DialogAfter(k, s) ==
    IF \/ dialog.vm # None /\ ~Stored(s, dialog.vm)
       \/ k.by = visit /\ k.op = "add" /\ dialog.kind = "add"
       \/ k.by = visit /\ k.op \in {"delete", "change"} /\ dialog.vm # None
    THEN NoDialog ELSE dialog

Told(t) == [edit |-> t[2], to |-> task[t].to]

\* What is put into the store is not what the server has for the page.
OutOfDate(k) ==
    \/ k.to # page
    \/ k.op = "nodes" /\ k.to # shown.name
    \/ k.answer.hidden
    \/ \E e \in told : e.to = k.to /\ e.edit \notin k.answer.known

Answer(t) ==
    /\ Running(t) /\ task[t].phase = "answered"
    /\ LET k == task[t]
           s == Applied(k, shown)
       IN  /\ shown' = s
           /\ task' = [task EXCEPT ![t] = Chain(k.rest, k.by, s)]
           /\ dialog' = DialogAfter(k, s)
           /\ told' = IF t[1] = "edit" THEN told \cup {Told(t)} ELSE told
           /\ crossed' = IF k.op \in {"load", "nodes"} THEN OutOfDate(k) ELSE crossed
    /\ UNCHANGED <<server, queue, page, visit, edits, fails>>

\* A call fails: refused, before it is served, or on its way back.  The chain
\* ends; that of an interval never starts again, and a load leads to the list,
\* from whatever page the user has gone to since.
Reject(t) ==
    /\ Running(t)
    /\ LET k == task[t]
       IN  /\ IF k.phase = "failed" THEN UNCHANGED fails
              ELSE fails < bound.fails /\ fails' = fails + 1
           /\ task' = [task EXCEPT ![t] = IF t[1] = "poll" THEN Dead ELSE Idle]
           /\ page' = IF k.op = "load" THEN None ELSE page
           /\ dialog' = IF k.op = "load" THEN NoDialog ELSE dialog
           /\ IF t[1] = "edit" /\ k.phase = "answered"
              THEN told' = told \cup {Told(t)} /\ crossed' = TRUE
              ELSE told' = (IF t[1] = "edit" THEN told \ {Told(t)} ELSE told) /\ UNCHANGED crossed
    /\ UNCHANGED <<server, queue, shown, visit, edits>>
-----------------------------------------------------------------------------
(* The dialogs *)
InSync == page # None /\ shown.status = "Sync"

NodeShown(vm) == CHOOSE x \in ToSet(shown.nodes) : x.vm = vm
Unlocked      == {i \in DOMAIN shown.nodes : shown.nodes[i].lock = None}
nodeBlocked   == NodeShown(dialog.vm).lock # None \/ shown.status # "Sync"
cannotDelete  == Cardinality(Unlocked) < 2 \/ nodeBlocked

SetDialog(d) ==
    /\ dialog' = d
    /\ UNCHANGED <<server, queue, shown, page, visit, task, edits, fails, told, crossed>>

SelectNode ==
    /\ InSync /\ dialog = NoDialog
    /\ \E i \in DOMAIN shown.nodes : SetDialog([kind |-> "edit", vm |-> shown.nodes[i].vm])

ShowAddNode ==
    /\ InSync /\ dialog = NoDialog
    /\ SetDialog([kind |-> "add", vm |-> None])

AskToDelete ==
    /\ dialog.kind = "edit" /\ ~cannotDelete
    /\ SetDialog([dialog EXCEPT !.kind = "confirm"])

Cancel == dialog # NoDialog /\ SetDialog(NoDialog)

SendEdit(op, n) ==
    /\ edits < bound.edits
    /\ edits' = edits + 1
    /\ task' = [task EXCEPT ![<<"edit", edits + 1>>] = Call(op, shown.name, n, visit, <<>>)]
    /\ UNCHANGED <<server, queue, page, visit, dialog, fails, crossed>>

\* "Yes": nothing is looked at again.
ConfirmDelete ==
    /\ dialog.kind = "confirm"
    /\ SendEdit("delete", NodeShown(dialog.vm).name)
    /\ UNCHANGED <<shown, told>>

\* "Update", with other cores or memory: the lock is shown before it is set.
Update ==
    /\ dialog.kind = "edit" /\ ~nodeBlocked
    /\ LET n == NodeShown(dialog.vm).name
       IN  /\ SendEdit("change", n)
           /\ shown' = [shown EXCEPT !.nodes = RelockFirst(@, n, "ChangeResources")]
    /\ told' = told \cup {[edit |-> edits + 1, to |-> shown.name]}

Add ==
    /\ dialog.kind = "add"
    /\ \E n \in NodeNames : SendEdit("add", n)
    /\ UNCHANGED <<shown, told>>

Next ==
    /\ UNCHANGED bound
    /\ \/ \E c \in Clusters : Open(c)
       \/ \E t \in Slots : Serve(t) \/ Answer(t) \/ Reject(t)
       \/ Leave \/ Tick \/ Work
       \/ SelectNode \/ ShowAddNode \/ AskToDelete \/ Cancel
       \/ ConfirmDelete \/ Update \/ Add

(* The network answers, the worker works and the timer ticks, in behaviours  *)
(* in which no call fails; users need do nothing.                            *)
Reliable == bound.fails = 0

Fairness ==
    /\ WF_vars(Reliable /\ Tick) /\ WF_vars(Reliable /\ Work)
    /\ \A t \in Slots : WF_vars(Reliable /\ (Serve(t) \/ Answer(t)))

Spec == Init /\ [][Next]_<<vars, bound>> /\ Fairness
-----------------------------------------------------------------------------
(* When nothing is under way and no lock is shown, so that nothing will be  *)
(* asked any more, the page shows the cluster of its URL with exactly the   *)
(* nodes of the server, whatever the order in which polls, edits and visits *)
(* were answered, unless the list put into the store last was out of date.  *)
Quiet == /\ \A t \in Slots : ~Running(t)
         /\ queue = <<>>
         /\ ~AnyLock(shown.nodes)

QuietMeansCurrent ==
    page # None /\ Quiet /\ ~crossed =>
        shown.name = page /\ shown.nodes = server[page].nodes

(* A dialog sends its request for the cluster of the URL, the one named in  *)
(* the header, although it takes the name from the store: unless the page   *)
(* still waits for its cluster, or was given an outdated answer.            *)
EditsGoToPage ==
    [][edits' # edits => \/ task'[<<"edit", edits'>>].to = page
                         \/ Running(<<"load", visit>>)
                         \/ crossed]_vars

(* Every cluster keeps a master, although the guard of the button Delete    *)
(* looks at the list shown, and "Yes" at nothing: two deletions that are    *)
(* confirmed before either is answered leave that to the worker.            *)
KeepsMaster ==
    \A c \in Clusters : \E i \in DOMAIN server[c].nodes : server[c].nodes[i].name \in Masters

(* A dialog is about a node that is shown, and no cluster is without a      *)
(* master.                                                                  *)
NodesInv == TypeOK /\ KeepsMaster

(* While the page is open a lock that is shown goes away, when no call      *)
(* fails: the poll asks for the list as long as any node in it is locked.   *)
(* A lock that the worker has left behind stays.                            *)
LeftBehind ==
    \E c \in Clusters : \E i \in DOMAIN server[c].nodes :
        /\ server[c].nodes[i].lock # None
        /\ \A j \in DOMAIN queue :
              queue[j].to = c => queue[j].node # server[c].nodes[i].name

LocksGoAway ==
    page # None /\ AnyLock(shown.nodes) ~>
        page = None \/ ~AnyLock(shown.nodes) \/ LeftBehind \/ ~Reliable
=============================================================================
