--------------------------- MODULE ClusterLifecycle ---------------------------
(***************************************************************************)
(* The life of cluster records: the handlers of operator.rs, which mark    *)
(* the record and send an event, and the worker, which runs the dispatcher *)
(* and the use cases on one event after the other.  All of them work on    *)
(* the same file through JsonRepository, whose load and save are the two   *)
(* steps LoadFile and SaveFile here (RefinesStore); Operator has the       *)
(* channel and the polling of the worker in detail.                        *)
(*                                                                         *)
(* A thread runs a program, a sequence of the instructions below that      *)
(* follows its Rust function call by call.  What a use case does to VMs    *)
(* between two accesses to the repository is the instruction Work, which   *)
(* succeeds or fails (Provisioning looks inside); the many progress logs   *)
(* of a use case are a few.  Disk errors are left to JsonRepository, and    *)
(* so is a start that cannot open the file.                                *)
(***************************************************************************)
EXTENDS Naturals, Sequences, SequencesExt

CONSTANTS Names,       \* cluster names
          NodeNames,   \* node names
          Masters,     \* the nodes of type Master
          Initial,     \* how many nodes of each name a request to create a cluster has
          Scenarios,   \* bound: what happens in a behaviour, see Scenario
          Handlers,    \* the threads of the web server
          Worker,      \* the thread of the operator
          Capacity,    \* of the channel
          Unreadable   \* the content of no file, see DbData

ASSUME ThreadAssumption ==
    /\ Worker \notin Handlers /\ Capacity \in Nat
    /\ Masters \subseteq NodeNames /\ Initial \in [NodeNames -> Nat]

Statuses == {"Pending", "Creating", "Sync", "Destroying", "Error"}
Locks    == {"None", "Create", "Delete", "ChangeResources"}

\* Nothing keeps two nodes from having one name.  A record is modelled by the
\* locks of the nodes of each name, in the order that these have in the record.
Body     == [status : Statuses, nodes : [NodeNames -> Seq(Locks)]]
Levels   == {"info", "error", "deleted"}   \* "deleted": "Node [...] has been deleted"

Repo == INSTANCE DbData WITH Bodies <- Body, Entries <- Levels

ASSUME NoFileAssumption == Unreadable \notin Repo!DB

Threads == Handlers \cup {Worker}
Kinds   == {"create", "delete", "add", "deleteNode", "change", "edit", "clear"}
Request == [kind : Kinds, name : Names, node : NodeNames]

(* The calls that the clients of a behaviour make, each at most once, and    *)
(* how often the process may be killed.                                      *)
Scenario == [requests : SUBSET Request, kills : Nat]

ASSUME ScenarioAssumption == Scenarios \subseteq Scenario

NoRecord  == [name |-> "none"]     \* there is no record of the cluster
NoRequest == [kind |-> "none"]

VARIABLES db,       \* the database file
          queue,    \* the channel of the operator
          thread,   \* what each thread is doing
          todo,     \* the requests not made yet
          kills     \* how often the process may still be killed

VARIABLES lost,     \* history: a save erased what it had not read, or the process was killed
          cleared   \* history: the clusters of which an error in the log was cleared

vars == <<db, queue, thread, todo, kills, lost, cleared>>
-----------------------------------------------------------------------------
(* Instructions *)
Get(e)  == [do |-> "get", edit |-> e]        \* get_cluster, and a change of the record
Absent  == [do |-> "absent"]                 \* get_cluster must find nothing
Save    == [do |-> "save"]                   \* save_cluster
Log(l)  == [do |-> "log", level |-> l]       \* save_log
Erase   == [do |-> "erase"]                  \* delete_cluster of the repository
ClearLogs == [do |-> "clear"]              \* delete_logs
Work    == [do |-> "work"]                   \* Proxmox and SSH
Send    == [do |-> "send"]
UseCase == [do |-> "useCase"]                \* the `match` on a use case
NotLast == [do |-> "notLast"]                \* the checks of a node deletion

(* The changes of a record.  Some of them look for the node and fail. *)
HasNode(b, n) == b.nodes[n] # <<>>
HasPeer(b, n) == \E x \in Masters \ {n} : HasNode(b, x)

\* nodes.len() = 1
IsSingle(b) == \E x \in NodeNames : /\ Len(b.nodes[x]) = 1
                                    /\ \A y \in NodeNames \ {x} : ~HasNode(b, y)

\* Most changes are to the first node that `find` finds.
SetLock(b, n, l)    == [b EXCEPT !.nodes[n][1] = l]
SetAllLocks(b, n, l) == [b EXCEPT !.nodes[n] = [i \in DOMAIN @ |-> l]]

EditFails(e, b, n) ==
    \/ e \in {"lockDelete", "unlock", "find"} /\ ~HasNode(b, n)
    \/ e = "findWithPeer" /\ ~(HasNode(b, n) /\ HasPeer(b, n))   \* another master

Edit(e, b, n) ==
    CASE e \in Statuses     -> [b EXCEPT !.status = e]
      [] e = "lockChange"   -> SetAllLocks(b, n, "ChangeResources")
      [] e = "lockDelete"   -> SetLock(b, n, "Delete")
      [] e = "lockCreate"   -> [b EXCEPT !.nodes[n] = Append(@, "Create")]
      [] e = "unlock"       -> SetLock(b, n, "None")
      [] e = "remove"       -> [b EXCEPT !.nodes[n] = <<>>]
      [] OTHER              -> b     \* what is changed is not modelled

NewCluster(n) ==
    [name |-> n,
     body |-> [status |-> "Pending",
               nodes  |-> [x \in NodeNames |-> [i \in 1..Initial[x] |-> "None"]]]]
-----------------------------------------------------------------------------
(* The handlers *)
CreateHandler_SendsFirst == <<Absent, Send, Save>>   \* mutant
CreateHandler  == <<Absent, Save, Send>>
ChangeHandler  == <<Get("lockChange"), Save, Send>>
AddHandler     == <<Get("lockCreate"), Save, Log("info"), Send>>
DeleteHandler  == <<Get("Destroying"), Save, Log("info"), Send>>
DelNodeHandler == <<Log("info"), Get("lockDelete"), Save, Send>>
EditHandler    == <<Get("keep"), Save>>      \* of Helm apps and cluster resources
ClearHandler   == <<ClearLogs>>              \* clear_logs_for_cluster

Handler(kind) ==
    CASE kind = "create"     -> CreateHandler
      [] kind = "change"     -> ChangeHandler
      [] kind = "add"        -> AddHandler
      [] kind = "delete"     -> DeleteHandler
      [] kind = "deleteNode" -> DelNodeHandler
      [] kind = "edit"       -> EditHandler
      [] kind = "clear"      -> ClearHandler

(* The arms of the dispatcher *)
UpdateStatus(s) == <<Get(s), Save>>

Dispatch(kind) ==
    (IF kind = "create" THEN UpdateStatus("Creating") ELSE <<>>) \o <<UseCase>>

OkArm(kind) ==
    CASE kind = "create"     -> UpdateStatus("Sync") \o <<Log("info")>>
      [] kind = "delete"     -> <<>>
      [] kind = "add"        -> <<Log("info"), Get("unlock"), Save>> \o UpdateStatus("Sync")
      [] kind = "deleteNode" -> <<Log("deleted")>> \o UpdateStatus("Sync")
      [] kind = "change"     -> <<Log("info")>> \o UpdateStatus("Sync") \o <<Get("unlock"), Save>>

ErrArm_LogOnly == <<Log("error")>>                  \* mutant
ErrArm == UpdateStatus("Error") \o <<Log("error")>>

(* The use cases *)
CreateCluster   == <<Log("info"), Get("sshKey"), Save, Work, Log("info"), Work,
                     Get("kubeconfig"), Save, Work>>
DeleteCluster   == <<Get("findAll"), Work, Log("info"), Work, Erase>>
AddNode         == <<Log("info"), Get("findWithPeer"), Work, Log("info"), Work>>
DeleteNode_KeepsNode ==                              \* mutant
    <<Log("info"), Get("keep"), NotLast, Work, Log("info"), Work, Get("keep"), Work>>
DeleteNode      == <<Log("info"), Get("keep"), NotLast, Work,
                     Log("info"), Work, Get("remove"), Save, Get("keep"), Work>>
ChangeResources == <<Log("info"), Get("find"), Work, Get("resources"), Save>>

Execute(kind) ==
    CASE kind = "create"     -> CreateCluster
      [] kind = "delete"     -> DeleteCluster
      [] kind = "add"        -> AddNode
      [] kind = "deleteNode" -> DeleteNode
      [] kind = "change"     -> ChangeResources
-----------------------------------------------------------------------------
(* A thread: the request it serves, the rest of its program, the programs   *)
(* of the arms of the dispatcher's match, its copy of the record, and the   *)
(* data it has loaded in the middle of a write.  read is history: the       *)
(* record as it was in the file when the thread took its copy.  A copy that *)
(* was saved is not used again: the code gets another one.                  *)
Resting ==
    [request |-> NoRequest, program |-> <<>>, ok |-> <<>>, err |-> <<>>,
     copy |-> NoRecord, read |-> NoRecord, data |-> Repo!NoData]

Records == Repo!Cluster \cup {NoRecord}

TypeOK ==
    /\ db \in Repo!DB
    /\ queue \in Seq(Request) /\ Len(queue) <= Capacity
    /\ \E s \in Scenarios : todo \subseteq s.requests /\ kills <= s.kills
    /\ lost \in BOOLEAN /\ cleared \subseteq Names
    /\ \A t \in Threads :
          /\ thread[t].request \in Request \cup {NoRequest}
          /\ thread[t].copy \in Records /\ thread[t].read \in Records
          /\ thread[t].data \in Repo!DB \cup {Repo!NoData}

InSync(n) == [NewCluster(n) EXCEPT !.body.status = "Sync"]

\* A new database, or one whose clusters were all created.
Init ==
    /\ \E all \in BOOLEAN :
          db = [Repo!EmptyDB EXCEPT !.clusters = IF all THEN {InSync(n) : n \in Names} ELSE {}]
    /\ queue = <<>>
    /\ thread = [t \in Threads |-> Resting]
    /\ \E s \in Scenarios : todo = s.requests /\ kills = s.kills
    /\ lost = FALSE /\ cleared = {}

Record(d, n) ==
    IF Repo!HasCluster(d, n) THEN CHOOSE c \in d.clusters : c.name = n ELSE NoRecord

At(t, instruction) ==
    /\ thread[t].program # <<>>
    /\ Head(thread[t].program).do = instruction

Cluster(t) == thread[t].request.name
NodeOf(t)  == thread[t].request.node

\* The thread goes on with program p, as record r otherwise says.
Continue(t, r, p) == thread' = [thread EXCEPT ![t] = [r EXCEPT !.program = p]]

Proceed(t, r) == Continue(t, r, Tail(r.program))

(* `?` and the Err arm: in a use case the arm runs, elsewhere the thread ends. *)
Fail(t) == Continue(t, [thread[t] EXCEPT !.ok = <<>>, !.err = <<>>], thread[t].err)
-----------------------------------------------------------------------------
Call(t) ==
    /\ t \in Handlers
    /\ thread[t] = Resting
    /\ \E r \in todo :
          /\ todo' = todo \ {r}
          /\ thread' = [thread EXCEPT ![t] = [Resting EXCEPT !.request = r,
                                                            !.program = Handler(r.kind)]]
    /\ UNCHANGED <<db, queue, kills, lost, cleared>>

Receive ==
    /\ thread[Worker] = Resting
    /\ queue # <<>>
    /\ queue' = Tail(queue)
    /\ thread' = [thread EXCEPT ![Worker] =
                     [Resting EXCEPT !.request = Head(queue),
                                     !.program = Dispatch(Head(queue).kind)]]
    /\ UNCHANGED <<db, todo, kills, lost, cleared>>

\* The program is over: the Ok arm of the dispatcher, or the end of the call.
Finish(t) ==
    /\ thread[t] # Resting
    /\ thread[t].program = <<>>
    /\ IF thread[t].ok = <<>>
       THEN thread' = [thread EXCEPT ![t] = Resting]
       ELSE Continue(t, [thread[t] EXCEPT !.ok = <<>>, !.err = <<>>], thread[t].ok)
    /\ UNCHANGED <<db, queue, todo, kills, lost, cleared>>

EnterUseCase(t) ==
    /\ At(t, "useCase")
    /\ LET kind == thread[t].request.kind
       IN  Continue(t, [thread[t] EXCEPT !.ok = OkArm(kind), !.err = ErrArm], Execute(kind))
    /\ UNCHANGED <<db, queue, todo, kills, lost, cleared>>

GetCluster(t) ==
    /\ At(t, "get")
    /\ LET found == Record(db, Cluster(t))
           edit  == Head(thread[t].program).edit
       IN  IF found = NoRecord \/ EditFails(edit, found.body, NodeOf(t))
           THEN Fail(t)
           ELSE Proceed(t, [thread[t] EXCEPT
                              !.read = found,
                              !.copy = [found EXCEPT !.body = Edit(edit, @, NodeOf(t))]])
    /\ UNCHANGED <<db, queue, todo, kills, lost, cleared>>

CheckAbsent(t) ==
    /\ At(t, "absent")
    /\ IF Repo!HasCluster(db, Cluster(t))
       THEN Fail(t)
       ELSE Proceed(t, [thread[t] EXCEPT !.read = NoRecord, !.copy = NewCluster(Cluster(t))])
    /\ UNCHANGED <<db, queue, todo, kills, lost, cleared>>

(* The last node is not deleted: the use case logs an error and returns Ok. *)
CheckNotLast(t) ==
    /\ At(t, "notLast")
    /\ LET body == thread[t].copy.body
       IN  IF IsSingle(body)
           THEN Continue(t, thread[t], <<Log("error")>>)
           ELSE IF EditFails("findWithPeer", body, NodeOf(t))
                THEN Fail(t)
                ELSE Proceed(t, thread[t])
    /\ UNCHANGED <<db, queue, todo, kills, lost, cleared>>

DoWork(t) ==
    /\ At(t, "work")
    /\ Proceed(t, thread[t]) \/ Fail(t)
    /\ UNCHANGED <<db, queue, todo, kills, lost, cleared>>

SendEvent(t) ==
    /\ At(t, "send")
    /\ Len(queue) < Capacity
    /\ queue' = Append(queue, thread[t].request)
    /\ Proceed(t, thread[t])
    /\ UNCHANGED <<db, todo, kills, lost, cleared>>
-----------------------------------------------------------------------------
Writes == {"save", "log", "erase", "clear"}

LoadFile(t) ==
    /\ \E i \in Writes : At(t, i)
    /\ thread[t].data = Repo!NoData
    /\ thread' = [thread EXCEPT ![t].data = db]
    /\ UNCHANGED <<db, queue, todo, kills, lost, cleared>>

WriteOp(t) ==
    LET i == Head(thread[t].program)
    IN  CASE i.do = "save"  -> [op |-> "save_cluster", cluster |-> thread[t].copy]
          [] i.do = "log"   -> [op |-> "save_log",
                                entry |-> [name |-> Cluster(t), entry |-> i.level]]
          [] i.do = "erase" -> [op |-> "delete_cluster", name |-> Cluster(t)]
          [] i.do = "clear" -> [op |-> "delete_logs", name |-> Cluster(t)]

\* What the thread is about to write does not know of somebody else's write.
Erases(t) ==
    \/ thread[t].data # db
    \/ At(t, "save") /\ Record(db, Cluster(t)) # thread[t].read

ErrorOf(n) == [name |-> n, entry |-> "error"]

\* History, of whoever writes: see the variables
Remember(t) ==
    /\ lost' = (lost \/ Erases(t))
    /\ cleared' = IF At(t, "clear") /\ ErrorOf(Cluster(t)) \in db.action_log
                  THEN cleared \cup {Cluster(t)} ELSE cleared

SaveFile_Rereads(t) ==                               \* mutant
    /\ thread[t].data # Repo!NoData
    /\ db' = Repo!Apply(WriteOp(t), db)
    /\ Remember(t)
    /\ Proceed(t, [thread[t] EXCEPT !.data = Repo!NoData])
    /\ UNCHANGED <<queue, todo, kills>>

SaveFile(t) ==
    /\ thread[t].data # Repo!NoData
    /\ db' = Repo!Apply(WriteOp(t), thread[t].data)
    /\ Remember(t)
    /\ Proceed(t, IF At(t, "save")
                  THEN [thread[t] EXCEPT !.data = Repo!NoData, !.copy = NoRecord, !.read = NoRecord]
                  ELSE [thread[t] EXCEPT !.data = Repo!NoData])
    /\ UNCHANGED <<queue, todo, kills>>

\* The process is killed between two steps, and started again on the same file.
Crash ==
    /\ kills > 0
    /\ kills' = kills - 1
    /\ lost' = TRUE
    /\ queue' = <<>>
    /\ thread' = [t \in Threads |-> Resting]
    /\ UNCHANGED <<db, todo, cleared>>

Step(t) ==
    \/ Finish(t) \/ EnterUseCase(t)
    \/ GetCluster(t) \/ CheckAbsent(t) \/ CheckNotLast(t)
    \/ DoWork(t) \/ SendEvent(t)
    \/ LoadFile(t) \/ SaveFile(t)

Next ==
    \/ \E t \in Threads : Call(t) \/ Step(t)
    \/ Receive
    \/ Crash

(* Threads run, sends happen in turn, and external work returns. *)
Spec ==
    /\ Init
    /\ [][Next]_vars
    /\ \A t \in Threads : WF_vars(Step(t))
    /\ WF_vars(Receive)
-----------------------------------------------------------------------------
Quiet == queue = <<>> /\ \A t \in Threads : thread[t] = Resting

(* When nothing is running any more, no cluster is left in a passing state: *)
(* whatever the order of the requests and of their events, and whichever    *)
(* use case failed, the dispatcher's last word is Sync or Error.  Only a    *)
(* crash or an erased update leaves a cluster behind that nobody works on.  *)
Settled ==
    Quiet /\ ~lost => \A c \in db.clusters : c.body.status \in {"Sync", "Error"}

\* The only node of its name, and locked
IsLocked(b, n) == \E l \in Locks \ {"None"} : b.nodes[n] = <<l>>

(* A node that stays locked when nothing is running any more is never left  *)
(* so silently: the log of the cluster says what went wrong, unless         *)
(* somebody has cleared it.  Of two nodes with one name this is not so: the *)
(* handlers lock both, or the second, and the dispatcher unlocks the first. *)
NoSilentLock ==
    Quiet /\ ~lost =>
        \A c \in db.clusters : \A n \in NodeNames :
            IsLocked(c.body, n) => ErrorOf(c.name) \in db.action_log \/ c.name \in cleared

(* What is left when nothing is running any more: a record that is settled, *)
(* and whose locks are explained; the channel never holds too much.         *)
LifecycleInv == TypeOK /\ Settled /\ NoSilentLock

\* The thread writes "Node [...] has been deleted" to the log of its cluster.
LogsDeletion(t) ==
    At(t, "log") /\ Head(thread[t].program).level = "deleted" /\ SaveFile(t)

IsMember(t) ==
    LET found == Record(db, Cluster(t))
    IN  found # NoRecord /\ HasNode(found.body, NodeOf(t))

(* "Node [...] has been deleted" in the log of a cluster is true when it is *)
(* written: the record no longer has the node (dispatcher.rs:135).          *)
DeletionLogIsTrue ==
    [][\A t \in Threads : LogsDeletion(t) /\ ~lost' => ~IsMember(t)]_vars

\* The record that the use case looked at last had this node and no other.
WasLast(t) ==
    LET seen == thread[t].copy
    IN  seen # NoRecord /\ IsSingle(seen.body) /\ HasNode(seen.body, NodeOf(t))

\* A node of this name was added to the record, and the worker does not know yet.
AddedAgain(n, x) ==
    LET add == [kind |-> "add", name |-> n, node |-> x]
    IN  \/ \E i \in DOMAIN queue : queue[i] = add
        \/ \E u \in Handlers : thread[u].request = add /\ (At(u, "log") \/ At(u, "send"))

(* Only of a last node is it said falsely: whatever else is added, changed  *)
(* or deleted meanwhile, a node that was logged as deleted is gone, or has  *)
(* been added anew.                                                         *)
OnlyTheLastSurvives ==
    [][\A t \in Threads :
         LogsDeletion(t) /\ ~lost' /\ IsMember(t) => WasLast(t) \/ AddedAgain(Cluster(t), NodeOf(t))]_vars

(* A cluster that is being worked on gets settled or goes away, unless an   *)
(* update is erased or the process dies on the way.                         *)
GetsSettled ==
    \A n \in Names :
        (\E c \in db.clusters : c.name = n /\ c.body.status \notin {"Sync", "Error"})
          ~> \/ lost
             \/ \A c \in db.clusters : c.name = n => c.body.status \in {"Sync", "Error"}
-----------------------------------------------------------------------------
Store ==
    INSTANCE SnapshotStore
    WITH Bodies <- Body, Entries <- Levels, loaded <- [t \in Threads |-> thread[t].data]

(* The threads use the file as SnapshotStore says: with the operation that  *)
(* the thread is at as the witness, each step is one of its steps.          *)
RefinesStore ==
    /\ Store!Init
    /\ [][\/ \E t \in Threads : \/ Store!Load(t)
                                \/ SaveFile(t) /\ Store!Commit(t, WriteOp(t))
          \/ Store!Forget(Threads)]_(Store!vars)
===============================================================================
