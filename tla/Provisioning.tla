---------------------------- MODULE Provisioning ----------------------------
(***************************************************************************)
(* What the use cases do to the VMs of a cluster.  The worker runs one     *)
(* event at a time as a program of instructions, each a request to Proxmox *)
(* (Hypervisor) or a command over SSH, in the order of the Rust function;  *)
(* every `?` ends the program and leaves what was done so far.  Handlers   *)
(* add to the record and to the queue meanwhile.  The record is accessed   *)
(* in single steps here: ClusterLifecycle looks at that side.              *)
(***************************************************************************)
EXTENDS Hypervisor, Integers, Sequences, FiniteSets, SequencesExt

CONSTANTS Masters,       \* the nodes of type Master
          Initials,      \* what clusters may be created with, sequences of nodes
          Matched,       \* of a node: the nodes whose lines in a hosts file sed removes with a node
          Calls,         \* bound: how many requests the clients make
          Crashes        \* bound: how often the process is killed

ASSUME InitialAssumption ==
    \A ns \in Initials :
        /\ ns \in Seq(Nodes) /\ IsInjective(ns)
        /\ \E n \in Masters : n \in ToSet(ns)

ASSUME MatchedAssumption == Matched \in [Nodes -> SUBSET Nodes] /\ \A n \in Nodes : n \in Matched[n]

ASSUME BoundAssumption == Calls \in Nat /\ Crashes \in Nat

NoRecord == <<"none">>
ASSUME NoRecordAssumption == NoRecord \notin Seq(Nodes)

Kinds    == {"create", "add", "deleteNode", "delete", "change"}

VARIABLES vm,        \* the VM at the id of each node
          members,   \* the nodes of the Kubernetes cluster, as its master sees it
          record,    \* the nodes in the record of the cluster, or NoRecord
          status,    \* the status in the record
          queue,     \* events
          worker,    \* the program that runs
          calls, crashes

VARIABLES overlooked,  \* history: VMs that were being created when a deletion looked
          demolished,  \* history: a deletion of the cluster has begun
          failed,      \* history: a use case failed, or the process was killed
          strangers    \* history: foreign VMs that were there when the use case began

state   == <<vm, members, record, status, queue, worker>>
bounds  == <<calls, crashes>>
history == <<overlooked, demolished, failed, strangers>>
vars    == <<state, bounds, history>>

Idle == [kind |-> "idle"]

AnyNode == CHOOSE n \in Nodes : TRUE   \* where no node is asked for
-----------------------------------------------------------------------------
(* Programs *)
Instr(d, n) == [do |-> d, node |-> n]
Each(d, ns) == [k \in 1..Len(ns) |-> Instr(d, ns[k])]
Program(ds, n) == [k \in 1..Len(ds) |-> Instr(ds[k], n)]

\* The part of a sequence that is in S: what SelectSeq gives, which cannot be
\* reasoned about.
Only(ns, S) ==
    LET kept[k \in 0..Len(ns)] ==
            IF k = 0 THEN <<>>
            ELSE IF ns[k] \in S THEN Append(kept[k - 1], ns[k]) ELSE kept[k - 1]
    IN  kept[Len(ns)]

Others(ns, n) == Only(ns, Nodes \ {n})

\* The first master that is not the node at hand.
HasMaster(ns, n) == \E k \in 1..Len(ns) : ns[k] \in Masters \ {n}
Master(ns, n)    == Only(ns, Masters \ {n})[1]

VmCreate == <<"create", "unlocked", "resize">>          \* common::vm::create
NodeUp   == <<"up", "reboot">>    \* wait_for_start, restart_vm_if_necessary
VmStop   == <<"shutdown", "halt">>                      \* common::vm::stop_vm

\* One VM after the other.
CreateVms(ns) ==
    [k \in 1..(4 * Len(ns)) |->
        Instr((<<"unused">> \o VmCreate)[((k - 1) % 4) + 1], ns[((k - 1) \div 4) + 1])]

CreateCluster(ns) ==
    LET master == Master(ns, Foreign)
    IN  <<Instr("usedIds", master)>> \o CreateVms(ns)
        \o Each("start", ns) \o Each("up", ns) \o Each("reboot", ns)
        \o Each("setHosts", ns) \o Each("install", ns) \o Each("ready", ns)
        \o Each("join", Others(ns, master)) \o <<Instr("ssh", master)>>

AddNode(n) == <<Instr("findPeers", n)>>

AddToPeers_NewNodeOnly(n, peers) ==                     \* mutant
    Program(VmCreate \o <<"start">> \o NodeUp \o <<"setHosts", "install", "ready", "join">>, n)
AddToPeers(n, peers) ==
    Program(VmCreate \o <<"start">> \o NodeUp \o <<"setHosts">>, n)
    \o Each("setHosts", peers) \o Program(<<"install", "ready", "join">>, n)

DeleteNode(n) == <<Instr("findNode", n)>>
DetachNode_LeavesOnly(n, m) ==                          \* mutant
    <<Instr("drain", m), Instr("ssh", n), Instr("findAgain", n)>>
DetachNode(n, m) == <<Instr("drain", m), Instr("ssh", n), Instr("remove", m), Instr("findAgain", n)>>
ForgetNode(n) == <<Instr("drop", n), Instr("findRest", n)>>

DeleteCluster(n) == <<Instr("findAll", n)>>

\* The VM of the node that is to be deleted, if there still is one.
DeleteVm(ns) == Each("shutdown", ns) \o Each("down", ns) \o Each("delete", ns)

DeleteVms_ErasesFirst(ns) == <<Instr("erase", AnyNode)>> \o DeleteVm(ns)   \* mutant
DeleteVms(ns) ==
    DeleteVm(ns) \o <<Instr("erase", AnyNode)>>

ChangeResources_LeavesOff(n) == Program(<<"config">> \o VmStop, n)   \* mutant
ChangeResources(n) == Program(<<"config">> \o VmStop \o <<"start">>, n)
-----------------------------------------------------------------------------
TypeOK ==
    /\ vm \in [Nodes -> VM \cup {NoVM}]
    /\ members \subseteq Nodes
    /\ record # NoRecord => record \in Seq(Nodes) \ {<<>>} /\ IsInjective(record)
    /\ status \in {"Pending", "Creating", "Sync", "Error", "Destroying"}
    /\ queue \in Seq([kind : Kinds, node : Nodes])
    /\ calls \in 0..Calls /\ crashes \in 0..Crashes
    /\ overlooked \subseteq Nodes /\ strangers \subseteq Nodes
    /\ demolished \in BOOLEAN /\ failed \in BOOLEAN
    /\ worker # Idle =>
          /\ worker.kind \in Kinds /\ worker.node \in Nodes
          /\ worker.copy \in Seq(Nodes)
          /\ worker.used \subseteq Nodes
          /\ \A k \in 1..Len(worker.todo) : worker.todo[k].node \in Nodes

Init ==
    /\ vm = [n \in Nodes |-> NoVM]
    /\ members = {}
    /\ record = NoRecord
    /\ status = "Pending"
    /\ queue = <<>>
    /\ worker = Idle
    /\ calls = 0 /\ crashes = 0
    /\ overlooked = {} /\ demolished = FALSE /\ failed = FALSE /\ strangers = {}

(* A handler: the record is changed, an event is sent. *)
Handle(k, n) ==
    /\ calls < Calls
    /\ calls' = calls + 1
    /\ CASE k = "create" -> /\ record = NoRecord
                            /\ record' \in Initials
                            /\ status' = "Pending"
         [] k = "add"    -> /\ record # NoRecord /\ n \notin ToSet(record)
                            /\ record' = Append(record, n)
                            /\ UNCHANGED status
         [] k = "delete" -> /\ record # NoRecord
                            /\ status' = "Destroying"
                            /\ UNCHANGED record
         [] k = "change" -> record # NoRecord /\ UNCHANGED <<record, status>>
         [] OTHER        -> /\ record # NoRecord /\ n \in ToSet(record)
                            /\ UNCHANGED <<record, status>>
    /\ queue' = Append(queue, [kind |-> k, node |-> n])
    /\ UNCHANGED <<vm, members, worker, crashes, history>>

Call ==
    \/ Handle("create", AnyNode) \/ Handle("delete", AnyNode)
    \/ \E k \in {"add", "deleteNode", "change"}, n \in Nodes : Handle(k, n)

(* The Err arm of the dispatcher, and the end of the program. *)
Abort ==
    /\ worker' = Idle
    /\ status' = IF record = NoRecord THEN status ELSE "Error"
    /\ failed' = TRUE

Goto(p)    == worker' = [worker EXCEPT !.todo = p] /\ UNCHANGED <<status, failed>>
Rest       == Tail(worker.todo)
Proceed    == Goto(Rest)
Current(d) == worker # Idle /\ worker.todo # <<>> /\ Head(worker.todo).do = d
Node       == Head(worker.todo).node

(* The beginning of a use case: the record is read, and searched.  The last *)
(* node of a cluster is not deleted, which is no error.                     *)
LastNode(e) == e.kind = "deleteNode" /\ Len(record) = 1

Begin(e) ==
    CASE e.kind = "create"     -> CreateCluster(record)
      [] e.kind = "delete"     -> DeleteCluster(e.node)
      [] e.kind = "add"        -> AddNode(e.node)
      [] e.kind = "change"     -> ChangeResources(e.node)
      [] e.kind = "deleteNode" -> IF LastNode(e) THEN <<>> ELSE DeleteNode(e.node)

CanBegin(e) ==
    /\ record # NoRecord
    /\ \/ e.kind \in {"create", "delete"}
       \/ e.node \in ToSet(record)
       \/ LastNode(e)
    /\ e.kind \in {"add", "deleteNode"} => LastNode(e) \/ HasMaster(record, e.node)

Receive ==
    /\ worker = Idle /\ queue # <<>>
    /\ queue' = Tail(queue)
    /\ LET e == Head(queue)
       IN  IF CanBegin(e)
           THEN /\ worker' = [kind |-> e.kind, node |-> e.node, copy |-> record,
                              used |-> {}, todo |-> Begin(e)]
                /\ status' = IF e.kind = "create" THEN "Creating" ELSE status
                /\ demolished' = (demolished \/ e.kind = "delete")
                /\ UNCHANGED failed
           ELSE Abort /\ UNCHANGED demolished
    /\ strangers' = {n \in Nodes : vm[n] # NoVM /\ vm[n].owner = Foreign}
    /\ UNCHANGED <<vm, members, record, bounds, overlooked>>

Finish ==
    /\ worker # Idle /\ worker.todo = <<>>
    /\ worker' = Idle
    /\ status' = IF record = NoRecord \/ worker.kind = "delete" THEN status ELSE "Sync"
    /\ UNCHANGED <<vm, members, record, queue, bounds, history>>
-----------------------------------------------------------------------------
(* Requests to Proxmox *)
Requests == {"create", "resize", "config", "start", "shutdown", "stop", "delete"}

Request ==
    /\ \E d \in Requests :
          /\ Current(d)
          /\ \E a \in Answers(d, vm[Node], Node) :
                /\ vm' = [vm EXCEPT ![Node] = a.vm]
                /\ IF a.ok THEN Proceed ELSE Abort
    /\ UNCHANGED <<members, record, queue, bounds, overlooked, demolished, strangers>>

Unchanged == UNCHANGED <<vm, members, record, queue, bounds, overlooked, demolished, strangers>>

\* create_vms lists the ids once, and looks into the list before each creation.
UsedIds ==
    /\ Current("usedIds")
    /\ \/ /\ worker' = [worker EXCEPT !.todo = Rest, !.used = {n \in Nodes : Listed(vm[n])}]
          /\ UNCHANGED <<status, failed>>
       \/ Abort
    /\ Unchanged

CheckUnused ==
    /\ Current("unused")
    /\ IF Node \in worker.used THEN Abort ELSE Proceed
    /\ Unchanged

\* The import of the disk is waited for; a VM that is not listed is not locked.
WaitUnlocked ==
    /\ Current("unlocked")
    /\ \/ /\ vm[Node] # NoVM => vm[Node].state # "locked"
          /\ Proceed
       \/ Abort
    /\ Unchanged

\* The first wait for the end of a VM: after 30 retries it is stopped the hard way.
WaitDown ==
    /\ \E w \in {<<"down", "again">>, <<"halt", "halted">>} :
          /\ Current(w[1])
          /\ \/ Usable(vm[Node]) /\ ~Running(vm[Node]) /\ Proceed
             \/ Running(vm[Node]) /\ Goto(Program(<<"stop", w[2]>>, Node) \o Rest)
             \/ Abort
    /\ Unchanged

\* The second wait: stop_vm insists, the deletions do not.
WaitStopped ==
    /\ \/ Current("again") /\ Usable(vm[Node]) /\ Proceed
       \/ Current("halted") /\ Usable(vm[Node]) /\ ~Running(vm[Node]) /\ Proceed
       \/ (Current("again") \/ Current("halted")) /\ Abort
    /\ Unchanged

(* get_existing_vms: the nodes of a copy whose VM has their id and name. *)
Existing_ById(ns) == Only(ns, {n \in Nodes : Listed(vm[n])})   \* mutant
Existing(ns) == Only(ns, {n \in Nodes : Named(vm[n], n)})
ExistsVm(n)  == Named(vm[n], n)

Then(d, n) ==
    LET ns == Existing(worker.copy)
    IN  CASE d = "findAll"   -> DeleteVms(ns)
          [] d = "findPeers" -> AddToPeers(n, Others(ns, n))
          [] d = "findNode"  -> IF ExistsVm(n) THEN DetachNode(n, Master(worker.copy, n))
                                               ELSE ForgetNode(n)
          [] d = "findAgain" -> DeleteVm(IF ExistsVm(n) THEN <<n>> ELSE <<>>) \o ForgetNode(n)
          [] d = "findRest"  -> Each("unhost", Existing(record))

InCreation(n) == vm[n] # NoVM /\ vm[n].owner = n /\ ~Named(vm[n], n)

Find ==
    /\ \E d \in {"findAll", "findPeers", "findNode", "findAgain", "findRest"} :
          /\ Current(d)
          /\ Goto(Then(d, Node) \o Rest)
          /\ overlooked' = IF d \in {"findAll", "findNode", "findAgain"}
                           THEN overlooked \cup {n \in Nodes : InCreation(n)}
                           ELSE overlooked
    /\ UNCHANGED <<vm, members, record, queue, bounds, demolished, strangers>>

FindFails ==
    /\ \E d \in {"findAll", "findPeers", "findNode", "findAgain", "findRest"} : Current(d)
    /\ Abort
    /\ Unchanged
-----------------------------------------------------------------------------
(* Commands over SSH: they need the VM, and their answer may be lost. *)
Reachable(n) == Running(vm[n]) /\ vm[n].owner = n

Run(d, v, ms) ==
    /\ Current(d)
    /\ \/ /\ Reachable(Node)
          /\ vm' = [vm EXCEPT ![Node] = v]
          /\ members' = ms
          /\ Proceed \/ Abort
       \/ Abort /\ UNCHANGED <<vm, members>>
    /\ UNCHANGED <<record, queue, bounds, overlooked, demolished, strangers>>

Plain(d) == Run(d, vm[Node], members)

\* After an update of the system the VM is restarted.
Reboot ==
    /\ Current("reboot")
    /\ Reachable(Node)
    /\ Goto(Program(VmStop \o <<"start", "up">>, Node) \o Rest)
    /\ Unchanged

\* Each host is appended on its own: some of them may have got through.
SetHosts ==
    \/ Run("setHosts", [vm[Node] EXCEPT !.hosts = @ \cup ToSet(worker.copy)], members)
    \/ /\ Current("setHosts") /\ Reachable(Node)
       /\ \E some \in SUBSET ToSet(worker.copy) :
             vm' = [vm EXCEPT ![Node].hosts = @ \cup some]
       /\ Abort
       /\ UNCHANGED <<members, record, queue, bounds, overlooked, demolished, strangers>>

RemoveHosts ==
    Run("unhost", [vm[Node] EXCEPT !.hosts = @ \ Matched[worker.node]], members)

Install == Run("install", [vm[Node] EXCEPT !.kube = "installed"], members)

\* A node that is ready is a cluster of its own until it joins another one.
WaitReady ==
    Current("ready") /\ Run("ready", [vm[Node] EXCEPT !.kube = "ready"],
        IF worker.kind = "create" /\ Node = Master(worker.copy, Foreign) THEN {Node} ELSE members)

Join ==
    /\ Current("join")
    /\ IF Master(worker.copy, Node) \in members /\ Reachable(Master(worker.copy, Node))
       THEN Run("join", vm[Node], members \cup {Node})
       ELSE Abort /\ Unchanged

RemoveNode == Current("remove") /\ Run("remove", vm[Node], members \ {worker.node})

Ssh ==
    \/ \E d \in {"up", "reboot", "ssh", "drain"} : Current(d) /\ Plain(d)
    \/ Reboot \/ SetHosts \/ RemoveHosts \/ Install \/ WaitReady \/ Join \/ RemoveNode
-----------------------------------------------------------------------------
(* The record *)
DropNode ==
    /\ Current("drop")
    /\ record' = Others(record, Node)
    /\ Proceed
    /\ UNCHANGED <<vm, members, queue, bounds, overlooked, demolished, strangers>>

Erase ==
    /\ Current("erase")
    /\ record' = NoRecord
    /\ Proceed
    /\ UNCHANGED <<vm, members, queue, bounds, overlooked, demolished, strangers>>

Step ==
    \/ Finish \/ Request
    \/ UsedIds \/ CheckUnused \/ WaitUnlocked \/ WaitDown \/ WaitStopped
    \/ Find \/ FindFails \/ Ssh \/ DropNode \/ Erase

Drift ==
    /\ \E n \in Nodes : \E v \in Drifts(vm[n]) :
          /\ vm' = [vm EXCEPT ![n] = v]
          /\ strangers' = strangers \ {n}
    /\ UNCHANGED <<members, record, status, queue, worker, bounds, overlooked, demolished, failed>>

Crash ==
    /\ crashes < Crashes
    /\ crashes' = crashes + 1
    /\ worker' = Idle /\ queue' = <<>>
    /\ failed' = TRUE
    /\ UNCHANGED <<vm, members, record, status, calls, overlooked, demolished, strangers>>

Next == Call \/ Receive \/ Step \/ Drift \/ Crash

Spec == Init /\ [][Next]_vars
-----------------------------------------------------------------------------
Own(n) == vm[n] # NoVM /\ vm[n].owner = n

(* A VM of somebody else that has the id of a node when a use case begins   *)
(* is left alone: makoon asks Proxmox for nothing but to create a VM there, *)
(* which is refused.  Only change_resources goes by the id alone.           *)
ForeignIsSafe ==
    \A n \in strangers, d \in Requests \ {"create"} :
        worker # Idle /\ worker.kind # "change" => ~(Current(d) /\ Node = n)

(* The record of a cluster is erased only when none of its VMs will be left, *)
(* after failures, retries and kills: only a VM that was still being        *)
(* created when a deletion listed them may be left behind.                  *)
ErasedMeansGone ==
    record = NoRecord =>
        {n \in Nodes : Own(n) /\ vm[n].task # "delete"} \subseteq overlooked

(* A cluster keeps a master in its record: it is not deleted as a node,     *)
(* whatever the order in which the requests for its nodes are served.       *)
KeepsMaster == record # NoRecord => HasMaster(record, Foreign)

(* The Kubernetes cluster has no node whose VM is gone, unless the whole    *)
(* cluster is being deleted.                                                *)
NoGhostMember == ~demolished => \A n \in members : Own(n)

(* Any two nodes of the Kubernetes cluster know each other's address.       *)
MembersResolve ==
    ~demolished => \A a, b \in members : b \in vm[a].hosts

(* While nothing has failed, a cluster with nothing left to do is in Sync,  *)
(* runs or is starting, and has all nodes of its record.                    *)
SyncIsWhole ==
    ~failed /\ worker = Idle /\ queue = <<>> /\ record # NoRecord =>
        /\ status = "Sync"
        /\ members = ToSet(record)
        /\ \A n \in members : Own(n) /\ (Running(vm[n]) \/ vm[n].task = "start")

(* The record says what there is, and never loses its last master.          *)
ProvisioningInv == TypeOK /\ KeepsMaster /\ SyncIsWhole
=============================================================================
