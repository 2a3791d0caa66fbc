-------------------------- MODULE ManagedNodesProofs --------------------------
(***************************************************************************)
(* Theorems about the page of a cluster, for any clusters, nodes and       *)
(* bounds.  A list of nodes, in the store or brought by a call, goes with  *)
(* the set of edits that it takes account of.  While it shows no lock and  *)
(* the server has carried out no other edit, it is the server's and the    *)
(* worker has nothing to do for its cluster (Current): an edit that the    *)
(* server takes up is either one the list knows to be under way, and then  *)
(* it has a lock, or makes the list an old one.                            *)
(***************************************************************************)
EXTENDS ManagedNodes, PositionsProofs

HasMaster(nodes) == \E i \in DOMAIN nodes : nodes[i].name \in Masters

(* Lists of nodes: what a lock, a new node and a deletion make of them.      *)
LEMMA NodeFields ==
    ASSUME NEW c \in Clusters, NEW n \in NodeNames, NEW l \in Locks
    PROVE  /\ Node(c, n, l) \in Nodes
           /\ Node(c, n, l).name = n /\ Node(c, n, l).vm = <<c, n>> /\ Node(c, n, l).lock = l
  BY DEF Node, Nodes

LEMMA NodeType ==
    ASSUME NEW x \in Nodes
    PROVE  x.name \in NodeNames /\ x.vm \in Clusters \X NodeNames /\ x.vm # None /\ x.lock \in Locks
  BY InitialAssumption DEF Nodes

LEMMA InNodes ==
    ASSUME NEW nodes \in Seq(Nodes)
    PROVE  /\ DOMAIN nodes = 1..Len(nodes) /\ Len(nodes) \in Nat
           /\ \A i \in DOMAIN nodes : /\ nodes[i] \in Nodes
                                      /\ nodes[i].name \in NodeNames
                                      /\ nodes[i].vm # None
                                      /\ nodes[i].lock \in Locks
  <1>1. DOMAIN nodes = 1..Len(nodes) /\ Len(nodes) \in Nat /\ \A i \in DOMAIN nodes : nodes[i] \in Nodes
    OBVIOUS
  <1> QED
    BY <1>1, NodeType

LEMMA MapNodes ==
    ASSUME NEW nodes \in Seq(Nodes), NEW l, DOMAIN l = DOMAIN nodes,
           l = [i \in DOMAIN l |-> l[i]], \A i \in DOMAIN nodes : l[i] \in Nodes
    PROVE  l \in Seq(Nodes)
  <1>1. DOMAIN nodes = 1..Len(nodes) /\ Len(nodes) \in Nat
    BY InNodes
  <1> QED
    BY <1>1

LEMMA FirstNamed ==
    ASSUME NEW nodes \in Seq(Nodes), NEW n, Has(nodes, n)
    PROVE  /\ Nth(Named(nodes, n), 1) \in DOMAIN nodes
           /\ nodes[Nth(Named(nodes, n), 1)].name = n
  <1> DEFINE S == Named(nodes, n)
  <1>1. S # {} /\ S \in SUBSET (1..Len(nodes)) /\ Len(nodes) \in Nat
    BY InNodes DEF Has, Named
  <1> HIDE DEF S
  <1>2. Nth(S, 1) \in S
    BY <1>1, FirstOf
  <1>3. Nth(Named(nodes, n), 1) \in Named(nodes, n)
    BY <1>2 DEF S
  <1> QED
    BY <1>3 DEF Named

LEMMA RelockIs ==
    ASSUME NEW nodes \in Seq(Nodes), NEW n, NEW l \in Locks
    PROVE  /\ Relock(nodes, n, l) \in Seq(Nodes)
           /\ DOMAIN Relock(nodes, n, l) = DOMAIN nodes
           /\ \A i \in DOMAIN nodes : /\ Relock(nodes, n, l)[i].name = nodes[i].name
                                      /\ Relock(nodes, n, l)[i].vm = nodes[i].vm
  <1> DEFINE r == Relock(nodes, n, l)
             new(x) == [x EXCEPT !.lock = l]
  <1>1. r = [i \in DOMAIN nodes |-> IF nodes[i].name = n THEN new(nodes[i]) ELSE nodes[i]]
    BY DEF Relock
  <1>2. \A x \in Nodes : new(x) \in Nodes /\ new(x).name = x.name /\ new(x).vm = x.vm
    BY DEF Nodes
  <1> HIDE DEF r, new
  <1>3. DOMAIN r = DOMAIN nodes /\ r = [i \in DOMAIN r |-> r[i]]
    BY <1>1
  <1>4. \A i \in DOMAIN nodes : r[i] \in Nodes /\ r[i].name = nodes[i].name /\ r[i].vm = nodes[i].vm
    BY <1>1, <1>2, InNodes
  <1>5. r \in Seq(Nodes)
    BY <1>3, <1>4, MapNodes
  <1> QED
    BY <1>3, <1>4, <1>5 DEF r

LEMMA ReplaceNode ==
    ASSUME NEW nodes \in Seq(Nodes), NEW f \in DOMAIN nodes, NEW x \in Nodes
    PROVE  /\ [nodes EXCEPT ![f] = x] \in Seq(Nodes)
           /\ DOMAIN [nodes EXCEPT ![f] = x] = DOMAIN nodes
           /\ \A i \in DOMAIN nodes : [nodes EXCEPT ![f] = x][i] = IF i = f THEN x ELSE nodes[i]
  <1> DEFINE r == [nodes EXCEPT ![f] = x]
  <1>1. /\ DOMAIN r = DOMAIN nodes /\ r = [i \in DOMAIN r |-> r[i]]
        /\ \A i \in DOMAIN nodes : r[i] = IF i = f THEN x ELSE nodes[i]
    BY InNodes
  <1> HIDE DEF r
  <1>2. r \in Seq(Nodes)
    BY <1>1, InNodes, MapNodes
  <1> QED
    BY <1>1, <1>2 DEF r

LEMMA RelockFirstIs ==
    ASSUME NEW nodes \in Seq(Nodes), NEW n, NEW l \in Locks, Has(nodes, n)
    PROVE  /\ RelockFirst(nodes, n, l) \in Seq(Nodes)
           /\ DOMAIN RelockFirst(nodes, n, l) = DOMAIN nodes
           /\ \A i \in DOMAIN nodes : /\ RelockFirst(nodes, n, l)[i].name = nodes[i].name
                                      /\ RelockFirst(nodes, n, l)[i].vm = nodes[i].vm
           /\ l # None => AnyLock(RelockFirst(nodes, n, l))
  <1> DEFINE f == Nth(Named(nodes, n), 1)
             x == [nodes[f] EXCEPT !.lock = l]
             r == RelockFirst(nodes, n, l)
  <1>1. f \in DOMAIN nodes
    BY FirstNamed
  <1>2. r = [nodes EXCEPT ![f] = x]
    BY <1>1 DEF RelockFirst
  <1> HIDE DEF f, r
  <1>3. x \in Nodes /\ x.name = nodes[f].name /\ x.vm = nodes[f].vm /\ x.lock = l
    BY <1>1, InNodes DEF Nodes
  <1> HIDE DEF x
  <1>4. /\ r \in Seq(Nodes) /\ DOMAIN r = DOMAIN nodes
        /\ \A i \in DOMAIN nodes : r[i] = IF i = f THEN x ELSE nodes[i]
    BY <1>1, <1>2, <1>3, ReplaceNode
  <1>5. \A i \in DOMAIN nodes : r[i].name = nodes[i].name /\ r[i].vm = nodes[i].vm
    BY <1>3, <1>4
  <1>6. l # None => AnyLock(r)
    BY <1>1, <1>3, <1>4 DEF AnyLock
  <1> QED
    BY <1>4, <1>5, <1>6 DEF r

LEMMA AppendNode ==
    ASSUME NEW nodes \in Seq(Nodes), NEW x \in Nodes
    PROVE  /\ Append(nodes, x) \in Seq(Nodes)
           /\ \A i \in DOMAIN nodes : i \in DOMAIN Append(nodes, x) /\ Append(nodes, x)[i] = nodes[i]
           /\ x.lock # None => AnyLock(Append(nodes, x))
  <1> DEFINE r == Append(nodes, x)
  <1>1. /\ r \in Seq(Nodes) /\ DOMAIN r = 1..Len(nodes) + 1 /\ r[Len(nodes) + 1] = x
        /\ \A i \in DOMAIN nodes : r[i] = nodes[i]
    OBVIOUS
  <1>2. DOMAIN nodes = 1..Len(nodes) /\ Len(nodes) \in Nat
    BY InNodes
  <1> HIDE DEF r
  <1>3. Len(nodes) + 1 \in DOMAIN r
    BY <1>1, <1>2
  <1> QED
    BY <1>1, <1>2, <1>3 DEF AnyLock, r

(* A lock of another kind takes a place in the list.                         *)
LEMMA LockedAt ==
    ASSUME NEW nodes \in Seq(Nodes), NEW c \in Clusters, NEW n \in NodeNames, Has(nodes, n)
    PROVE  LET r == [nodes EXCEPT ![Nth(Named(nodes, n), 1)] = Node(c, n, "Delete")]
           IN  r \in Seq(Nodes) /\ AnyLock(r)
  <1> DEFINE f == Nth(Named(nodes, n), 1)
             x == Node(c, n, "Delete")
             r == [nodes EXCEPT ![f] = x]
  <1>1. f \in DOMAIN nodes
    BY FirstNamed
  <1>2. x \in Nodes /\ x.lock = "Delete"
    BY NodeFields DEF Locks, Marks
  <1> HIDE DEF f, x
  <1>3. /\ r \in Seq(Nodes) /\ DOMAIN r = DOMAIN nodes
        /\ \A i \in DOMAIN nodes : r[i] = IF i = f THEN x ELSE nodes[i]
    BY <1>1, <1>2, ReplaceNode
  <1>4. AnyLock(r)
    BY <1>1, <1>2, <1>3, InitialAssumption DEF AnyLock, Marks
  <1> QED
    BY <1>3, <1>4 DEF f, x
-----------------------------------------------------------------------------
(* Types *)
Records == [status : {"Sync", "Error"}, nodes : Seq(Nodes)]
Jobs    == [op : EditOps, to : Clusters, node : NodeNames]
Views   == [name : Clusters \cup {None}, status : {"Sync", "Error", None}, nodes : Seq(Nodes)]

\* What a call for a list brings back.
Answers == [cluster : Records, known : SUBSET Edits, hidden : BOOLEAN]

ReadOps == {"load", "nodes"}
PollOps == {"statuses", "nodes"}

OpsOf(t) == CASE t[1] = "load" -> {"load"}
              [] t[1] = "poll" -> PollOps
              [] OTHER         -> EditOps

Calls == [op : {"load"} \cup PollOps \cup EditOps, to : Clusters, node : NodeNames \cup {None},
          by : Nat, rest : Seq(PollOps), phase : {"sent", "answered", "failed"},
          answer : Answers \cup {Idle}]

CallOK(t, k) ==
    /\ k \in Calls /\ k.op \in OpsOf(t)
    /\ k.op \in EditOps => k.node \in NodeNames
    /\ k.phase = "failed" => k.op = "delete"
    /\ k.op = "statuses" => k.phase = "answered"
    /\ t[1] # "poll" => k.rest = <<>>
    /\ k.op \in ReadOps /\ k.phase = "answered" => k.answer \in Answers

ServerOK == /\ server \in [Clusters -> Records]
            /\ queue \in Seq(Jobs)

TasksOK == /\ DOMAIN task = Slots
           /\ \A t \in Slots : Running(t) => CallOK(t, task[t])

PageOK == /\ shown \in Views
          /\ page \in Clusters \cup {None} /\ visit \in 0..bound.visits
          /\ dialog.kind \in {"none", "add", "edit", "confirm"}
          /\ dialog.kind \in {"edit", "confirm"} <=> dialog.vm # None
          /\ dialog.vm # None => Stored(shown, dialog.vm)
          /\ dialog.kind # "none" => page # None /\ shown.name # None
          /\ page # None => visit # 0
          /\ shown.name = None => shown.status = None

CountOK == /\ bound \in Bounds /\ edits \in 0..bound.edits /\ fails \in 0..bound.fails
           /\ told \subseteq [edit : 1..edits, to : Clusters] /\ crossed \in BOOLEAN
           /\ \A e \in Edits : Running(<<"edit", e>>) => e <= edits

BaseInv == ServerOK /\ TasksOK /\ PageOK /\ CountOK

\* The worker has nothing to do for the cluster.
NoJobs(c) == \A i \in DOMAIN queue : queue[i].to # c

LEMMA BoundIs ==
    ASSUME NEW b \in Bounds
    PROVE  /\ b.visits \in Nat /\ b.edits \in Nat /\ b.fails \in Nat
           /\ \A v \in 1..b.visits : v \in Visits
           /\ \A e \in 1..b.edits : e \in Edits
  <1>1. b.visits \in Nat /\ b.edits \in Nat /\ b.fails \in Nat
    BY BoundAssumption DEF Bound
  <1>2. \A v \in 1..b.visits : v \in Visits
    BY DEF Visits
  <1>3. \A e \in 1..b.edits : e \in Edits
    BY DEF Edits
  <1> QED
    BY <1>1, <1>2, <1>3

LEMMA VisitsAndEdits == Visits \subseteq Nat /\ Edits \subseteq Nat
  BY BoundAssumption DEF Visits, Edits, Bound

LEMMA SlotsAre ==
    /\ \A v \in Visits : <<"load", v>> \in Slots /\ <<"poll", v>> \in Slots
    /\ \A e \in Edits : <<"edit", e>> \in Slots
    /\ \A t \in Slots : /\ t = <<t[1], t[2]>>
                        /\ \/ t[1] \in {"load", "poll"} /\ t[2] \in Visits
                           \/ t[1] = "edit" /\ t[2] \in Edits
  BY DEF Slots

LEMMA OpsDiffer ==
    /\ \A t \in Slots : t[1] \in {"load", "poll", "edit"}
    /\ \A t \in Slots : /\ t[1] = "load" => OpsOf(t) = {"load"}
                        /\ t[1] = "poll" => OpsOf(t) = PollOps
                        /\ t[1] = "edit" => OpsOf(t) = EditOps
  <1>1. \A t \in Slots : t[1] \in {"load", "poll", "edit"}
    BY SlotsAre
  <1> QED
    BY <1>1 DEF OpsOf

(* What a call is when it is made.                                           *)
LEMMA CallIs ==
    ASSUME NEW t \in Slots, NEW op \in OpsOf(t), NEW c \in Clusters, NEW n \in NodeNames \cup {None},
           NEW by \in Nat, NEW rest \in Seq(PollOps), op \in EditOps => n \in NodeNames,
           t[1] # "poll" => rest = <<>>
    PROVE  /\ CallOK(t, Call(op, c, n, by, rest))
           /\ Call(op, c, n, by, rest) \notin {Idle, Dead}
  <1> DEFINE k == Call(op, c, n, by, rest)
  <1>1. /\ k.op = op /\ k.to = c /\ k.node = n /\ k.by = by /\ k.rest = rest /\ k.answer = Idle
        /\ k.phase = IF op = "statuses" THEN "answered" ELSE "sent"
    BY DEF Call
  <1>2. op \in {"load"} \cup PollOps \cup EditOps
    BY OpsDiffer
  <1>3. k \in Calls
    BY <1>2 DEF Call, Calls
  <1>4. op # "idle" /\ op # "dead" /\ (op = "statuses" => op \notin ReadOps)
    BY <1>2 DEF PollOps, EditOps, ReadOps
  <1>5. k \notin {Idle, Dead}
    BY <1>1, <1>4 DEF Idle, Dead
  <1> HIDE DEF k
  <1>6. CallOK(t, k)
    BY <1>1, <1>3, <1>4 DEF CallOK
  <1> QED
    BY <1>1, <1>5, <1>6 DEF k

LEMMA ChainIs ==
    ASSUME NEW ops \in Seq(PollOps), NEW by \in Nat, NEW s \in Views, NEW v \in Visits
    PROVE  \/ Chain(ops, by, s) = Idle
           \/ /\ CallOK(<<"poll", v>>, Chain(ops, by, s)) /\ Chain(ops, by, s) \notin {Idle, Dead}
              /\ Chain(ops, by, s).op \in PollOps /\ Chain(ops, by, s).to = s.name
              /\ Chain(ops, by, s).op = "nodes" => Chain(ops, by, s).phase = "sent"
              /\ ops # <<>>
  <1> DEFINE due == {i \in DOMAIN ops : Due(ops[i], s)}
             i == Nth(due, 1)
             rest == SubSeq(ops, i + 1, Len(ops))
             k == Call(ops[i], s.name, None, by, rest)
  <1>1. Chain(ops, by, s) = IF due = {} THEN Idle ELSE k
    BY DEF Chain
  <1>2. CASE due = {}
    BY <1>1, <1>2
  <1>3. CASE due # {}
    <2>1. Len(ops) \in Nat /\ DOMAIN ops = 1..Len(ops) /\ due \in SUBSET (1..Len(ops))
      OBVIOUS
    <2>2. \A x \in due : x \in DOMAIN ops /\ ops[x] \in PollOps /\ Due(ops[x], s)
      BY <2>1
    <2> HIDE DEF due
    <2>3. i \in due
      BY <1>3, <2>1, FirstOf
    <2>4. i \in 1..Len(ops) /\ ops[i] \in PollOps /\ Due(ops[i], s)
      BY <2>1, <2>2, <2>3
    <2>5. s.name \in Clusters
      BY <2>4 DEF Due, Views
    <2> HIDE DEF i
    <2>6. rest \in Seq(PollOps)
      BY <2>1, <2>4
    <2> HIDE DEF rest
    <2>7. PICK op \in PollOps : op = ops[i]
      BY <2>4
    <2>8. PICK t \in Slots : t = <<"poll", v>>
      BY SlotsAre
    <2>13. PICK c \in Clusters : c = s.name
      BY <2>5
    <2>14. PICK r \in Seq(PollOps) : r = rest
      BY <2>6
    <2>15. PICK n \in NodeNames \cup {None} : n = None
      OBVIOUS
    <2>9. k = Call(op, c, n, by, r)
      BY <2>7, <2>13, <2>14, <2>15
    <2> HIDE DEF k
    <2>11. op \in OpsOf(t) /\ op \notin EditOps /\ t[1] = "poll"
      BY <2>7, <2>8, OpsDiffer DEF PollOps, EditOps
    <2>12. /\ CallOK(t, k) /\ k \notin {Idle, Dead} /\ k.op = op /\ k.to = s.name
           /\ op # "statuses" => k.phase = "sent"
      <3>1. op \in EditOps => n \in NodeNames
        BY <2>11
      <3>2. t[1] # "poll" => r = <<>>
        BY <2>11
      <3>4. by \in Nat
        OBVIOUS
      <3>5. CallOK(t, Call(op, c, n, by, r))
        BY ONLY <2>7, <2>8, <2>11, <2>13, <2>14, <2>15, <3>1, <3>2, <3>4, CallIs
      <3>6. Call(op, c, n, by, r) \notin {Idle, Dead}
        BY ONLY <2>7, <2>8, <2>11, <2>13, <2>14, <2>15, <3>1, <3>2, <3>4, CallIs
      <3>7. /\ k.op = op /\ k.to = c
            /\ op # "statuses" => k.phase = "sent"
        BY <2>9 DEF Call
      <3>3. /\ CallOK(t, k) /\ k \notin {Idle, Dead} /\ k.op = op /\ k.to = c
            /\ op # "statuses" => k.phase = "sent"
        BY <2>9, <3>5, <3>6, <3>7
      <3> QED
        BY <2>13, <3>3
    <2>10. ops # <<>>
      BY <2>1, <2>4
    <2> HIDE DEF k
    <2> QED
      BY <1>1, <1>3, <2>7, <2>8, <2>10, <2>12
  <1> QED
    BY <1>2, <1>3

LEMMA NoChain ==
    ASSUME NEW by, NEW s
    PROVE  Chain(<<>>, by, s) = Idle
  BY DEF Chain
-----------------------------------------------------------------------------
(* The server: what a handler and the worker make of the nodes of a cluster. *)
LEMMA HandledIs ==
    ASSUME NEW nodes \in Seq(Nodes), NEW op \in ReadOps \cup EditOps, NEW c \in Clusters, NEW n,
           op \in EditOps => n \in NodeNames, op = "delete" => Has(nodes, n)
    PROVE  /\ Handled(op, nodes, c, n) \in Seq(Nodes)
           /\ HasMaster(nodes) => HasMaster(Handled(op, nodes, c, n))
           /\ op \in ReadOps => Handled(op, nodes, c, n) = nodes
  <1> DEFINE h == Handled(op, nodes, c, n)
  <1>1. CASE op = "add"
    <2>1. h = Append(nodes, Node(c, n, "Create")) /\ n \in NodeNames /\ op \notin ReadOps
      BY <1>1 DEF Handled, EditOps, ReadOps
    <2>2. Node(c, n, "Create") \in Nodes
      BY <2>1, NodeFields DEF Locks, Marks
    <2> HIDE DEF h
    <2> QED
      BY <2>1, <2>2, AppendNode DEF HasMaster, h
  <1>2. CASE op = "delete"
    <2>1. h = RelockFirst(nodes, n, "Delete") /\ op \notin ReadOps
      BY <1>2 DEF Handled, ReadOps
    <2>2. "Delete" \in Locks
      BY DEF Locks, Marks
    <2> HIDE DEF h
    <2> QED
      BY <1>2, <2>1, <2>2, RelockFirstIs DEF HasMaster, h
  <1>3. CASE op = "change"
    <2>1. h = Relock(nodes, n, "ChangeResources") /\ op \notin ReadOps
      BY <1>3 DEF Handled, ReadOps
    <2>2. "ChangeResources" \in Locks
      BY DEF Locks, Marks
    <2> HIDE DEF h
    <2> QED
      BY <2>1, <2>2, RelockIs DEF HasMaster, h
  <1>4. CASE op \in ReadOps
    <2>1. h = nodes
      BY <1>4 DEF Handled, ReadOps
    <2> QED
      BY <2>1
  <1> QED
    BY <1>1, <1>2, <1>3, <1>4 DEF EditOps

LEMMA WorkedIs ==
    ASSUME NEW nodes \in Seq(Nodes), NEW op \in EditOps, NEW n \in NodeNames, ~CannotWork(op, nodes, n)
    PROVE  /\ Worked(op, nodes, n) \in Seq(Nodes)
           /\ HasMaster(nodes) => HasMaster(Worked(op, nodes, n))
  <1> DEFINE w == Worked(op, nodes, n)
  <1>1. Has(nodes, n)
    BY DEF CannotWork
  <1>2. CASE op # "delete"
    <2>1. w = RelockFirst(nodes, n, None)
      BY <1>2 DEF Worked
    <2>2. None \in Locks
      BY DEF Locks
    <2> HIDE DEF w
    <2> QED
      BY <1>1, <2>1, <2>2, RelockFirstIs DEF HasMaster, w
  <1>3. CASE op = "delete" /\ Len(nodes) = 1
    <2>1. w = nodes
      BY <1>3 DEF Worked
    <2> QED
      BY <2>1
  <1>4. CASE op = "delete" /\ Len(nodes) # 1
    <2> DEFINE S == DOMAIN nodes \ Named(nodes, n)
               l == Kept(nodes, S)
    <2>1. w = l
      BY <1>4 DEF Worked
    <2>2. S \in SUBSET DOMAIN nodes
      OBVIOUS
    <2>3. PICK m \in S : nodes[m].name \in Masters
      <3>1. Len(nodes) > 1
        <4>1. DOMAIN nodes = 1..Len(nodes) /\ Len(nodes) \in Nat /\ DOMAIN nodes # {}
          BY <1>1, InNodes DEF Has, Named
        <4> QED
          BY <1>4, <4>1
      <3>2. PICK i \in DOMAIN nodes : nodes[i].name \in Masters /\ nodes[i].name # n
        BY <1>4, <3>1 DEF CannotWork
      <3> QED
        BY <3>2 DEF Named
    <2> HIDE DEF S
    <2>4. /\ l \in Seq(Nodes)
          /\ \A k \in DOMAIN l : Nth(S, k) \in S /\ l[k] = nodes[Nth(S, k)]
          /\ \A i \in S : \E k \in DOMAIN l : Nth(S, k) = i
      BY <2>2, KeptIs
    <2> HIDE DEF l
    <2>5. HasMaster(l)
      <3>1. PICK k \in DOMAIN l : Nth(S, k) = m
        BY <2>3, <2>4
      <3> QED
        BY <2>3, <2>4, <3>1 DEF HasMaster
    <2> HIDE DEF w
    <2>6. w \in Seq(Nodes) /\ HasMaster(w)
      BY <2>1, <2>4, <2>5
    <2> QED
      BY <2>6 DEF w
  <1> QED
    BY <1>2, <1>3, <1>4

LEMMA RecordIs ==
    ASSUME NEW s \in [Clusters -> Records], NEW c \in Clusters
    PROVE  s[c] \in Records /\ s[c].nodes \in Seq(Nodes) /\ s[c].status \in {"Sync", "Error"}
  BY DEF Records

LEMMA ServesKnown ==
    ASSUME BaseInv, NEW t \in Slots, Serve(t)
    PROVE  /\ CallOK(t, task[t]) /\ task[t].phase = "sent" /\ task[t].op \in ReadOps \cup EditOps
           /\ task[t].to \in Clusters /\ (task[t].op \in EditOps => task[t].node \in NodeNames)
  <1>1. CallOK(t, task[t]) /\ task[t].phase = "sent"
    BY DEF Serve, BaseInv, TasksOK
  <1>2. task[t].op \in {"load"} \cup PollOps \cup EditOps /\ task[t].op # "statuses" /\ task[t].to \in Clusters
    BY <1>1 DEF CallOK, Calls
  <1> QED
    BY <1>1, <1>2 DEF CallOK, PollOps, ReadOps

LEMMA NodesOfServer ==
    ASSUME ServerOK, NEW c \in Clusters, NEW nodes \in Seq(Nodes),
           server' = [server EXCEPT ![c].nodes = nodes]
    PROVE  /\ server' \in [Clusters -> Records]
           /\ \A d \in Clusters : server'[d].nodes = IF d = c THEN nodes ELSE server[d].nodes
           /\ nodes = server[c].nodes => server' = server
  <1> DEFINE r == [server[c] EXCEPT !.nodes = nodes]
  <1>1. server \in [Clusters -> Records] /\ server[c] \in Records
    BY DEF ServerOK
  <1>2. server' = [server EXCEPT ![c] = r]
    OBVIOUS
  <1>3. r \in Records /\ r.nodes = nodes /\ (nodes = server[c].nodes => r = server[c])
    BY <1>1 DEF Records
  <1> HIDE DEF r
  <1> QED
    BY <1>1, <1>2, <1>3

LEMMA ServerServe ==
    ASSUME BaseInv, NEW t \in Slots, Serve(t)
    PROVE  ServerOK' /\ (KeepsMaster => KeepsMaster')
  <1> DEFINE k == task[t]
  <1>1. /\ k.op \in ReadOps \cup EditOps /\ k.to \in Clusters
        /\ k.op \in EditOps => k.node \in NodeNames
    BY ServesKnown
  <1>2. CASE Refused(k.op, k.to, k.node)
    <2>1. UNCHANGED <<server, queue>>
      BY <1>2 DEF Serve
    <2> QED
      BY <2>1 DEF BaseInv, ServerOK, KeepsMaster
  <1>3. CASE ~Refused(k.op, k.to, k.node)
    <2> DEFINE h == Handled(k.op, server[k.to].nodes, k.to, k.node)
    <2>1. /\ server' = [server EXCEPT ![k.to].nodes = h]
          /\ queue' = IF k.op \in EditOps THEN Append(queue, [op |-> k.op, to |-> k.to, node |-> k.node])
                                          ELSE queue
      BY <1>3 DEF Serve
    <2>2. server[k.to].nodes \in Seq(Nodes)
      BY <1>1, RecordIs DEF BaseInv, ServerOK
    <2>3. /\ h \in Seq(Nodes)
          /\ HasMaster(server[k.to].nodes) => HasMaster(h)
      BY <1>1, <1>3, <2>2, HandledIs DEF Refused
    <2> HIDE DEF h
    <2>4. /\ server' \in [Clusters -> Records]
          /\ \A d \in Clusters : server'[d].nodes = IF d = k.to THEN h ELSE server[d].nodes
      BY <1>1, <2>1, <2>3, NodesOfServer DEF BaseInv
    <2>5. queue' \in Seq(Jobs)
      <3> DEFINE job == [op |-> k.op, to |-> k.to, node |-> k.node]
      <3>1. k.op \in EditOps => job \in Jobs
        BY <1>1 DEF Jobs
      <3>2. queue \in Seq(Jobs) /\ queue' = IF k.op \in EditOps THEN Append(queue, job) ELSE queue
        BY <2>1 DEF BaseInv, ServerOK
      <3> HIDE DEF job
      <3> QED
        BY <3>1, <3>2
    <2>6. KeepsMaster => KeepsMaster'
      BY <1>1, <2>3, <2>4 DEF KeepsMaster, HasMaster
    <2> QED
      BY <2>4, <2>5, <2>6 DEF ServerOK
  <1> QED
    BY <1>2, <1>3

LEMMA ServerWork ==
    ASSUME BaseInv, Work
    PROVE  /\ ServerOK' /\ (KeepsMaster => KeepsMaster')
           /\ \A c \in Clusters : NoJobs(c) => NoJobs(c)' /\ server'[c].nodes = server[c].nodes
  <1> DEFINE job == Head(queue)
             nodes == server[job.to].nodes
             w == Worked(job.op, nodes, job.node)
  <1>1. /\ queue \in Seq(Jobs) /\ queue # <<>> /\ queue' = Tail(queue)
        /\ server \in [Clusters -> Records]
    BY DEF BaseInv, ServerOK, Work
  <1>2. job \in Jobs /\ job = queue[1] /\ 1 \in DOMAIN queue
    BY <1>1
  <1>3. queue' \in Seq(Jobs) /\ \A i \in DOMAIN queue' : i + 1 \in DOMAIN queue /\ queue'[i] = queue[i + 1]
    BY <1>1
  <1>4. job.op \in EditOps /\ job.to \in Clusters /\ job.node \in NodeNames
    BY <1>2 DEF Jobs
  <1>5. server[job.to] \in Records /\ nodes \in Seq(Nodes)
    BY <1>1, <1>4, RecordIs
  <1>6. \A c \in Clusters : NoJobs(c) => NoJobs(c)' /\ c # job.to
    BY <1>2, <1>3 DEF NoJobs
  <1>7. CASE /\ ~CannotWork(job.op, nodes, job.node)
             /\ server' = [server EXCEPT ![job.to] = [status |-> "Sync", nodes |-> w]]
    <2>1. w \in Seq(Nodes) /\ (HasMaster(nodes) => HasMaster(w))
      BY <1>4, <1>5, <1>7, WorkedIs
    <2> HIDE DEF w
    <2>2. [status |-> "Sync", nodes |-> w] \in Records
      BY <2>1 DEF Records
    <2>3. /\ server' \in [Clusters -> Records]
          /\ \A d \in Clusters : server'[d].nodes = IF d = job.to THEN w ELSE server[d].nodes
      BY <1>1, <1>4, <1>7, <2>2
    <2> QED
      BY <1>3, <1>4, <1>6, <2>1, <2>3 DEF ServerOK, KeepsMaster, HasMaster
  <1>8. CASE server' = [server EXCEPT ![job.to].status = "Error"]
    <2>1. [server[job.to] EXCEPT !.status = "Error"] \in Records
      BY <1>5 DEF Records
    <2>2. /\ server' \in [Clusters -> Records]
          /\ \A d \in Clusters : server'[d].nodes = server[d].nodes
      BY <1>1, <1>4, <1>8, <2>1 DEF Records
    <2> QED
      BY <1>3, <1>6, <2>2 DEF ServerOK, KeepsMaster
  <1> QED
    BY <1>7, <1>8 DEF Work

LEMMA ServerStep ==
    ASSUME BaseInv, [Next]_<<vars, bound>>
    PROVE  ServerOK' /\ (KeepsMaster => KeepsMaster')
  <1>1. CASE UNCHANGED <<server, queue>>
    BY <1>1 DEF BaseInv, ServerOK, KeepsMaster
  <1>2. CASE \E t \in Slots : Serve(t)
    BY <1>2, ServerServe
  <1>3. CASE Work
    BY <1>3, ServerWork
  <1> QED
    BY <1>1, <1>2, <1>3 DEF Next, vars, Open, Answer, Reject, Leave, Tick, SelectNode, ShowAddNode,
       AskToDelete, Cancel, SetDialog, ConfirmDelete, Update, Add, SendEdit
-----------------------------------------------------------------------------
(* The store and the calls                                                   *)
LEMMA ViewIs ==
    ASSUME NEW s \in Views
    PROVE  /\ s.name \in Clusters \cup {None} /\ s.status \in {"Sync", "Error", None}
           /\ s.nodes \in Seq(Nodes)
           /\ s = [name |-> s.name, status |-> s.status, nodes |-> s.nodes]
  BY DEF Views

LEMMA ViewWith ==
    ASSUME NEW s \in Views, NEW nodes \in Seq(Nodes)
    PROVE  /\ [s EXCEPT !.nodes = nodes] \in Views
           /\ [s EXCEPT !.nodes = nodes].name = s.name
           /\ [s EXCEPT !.nodes = nodes].status = s.status
           /\ [s EXCEPT !.nodes = nodes].nodes = nodes
  BY DEF Views

(* What an answer makes of the store.                                        *)
LEMMA AppliedIs ==
    ASSUME NEW t \in Slots, NEW k, CallOK(t, k), k.phase = "answered", NEW s \in Views
    PROVE  /\ Applied(k, s) \in Views
           /\ Applied(k, s).name = IF k.op = "load" THEN k.to ELSE s.name
           /\ k.op # "load" => Applied(k, s).status = s.status
           /\ k.op \in {"statuses", "change"} => Applied(k, s) = s
           /\ k.op \in ReadOps => Applied(k, s).nodes = k.answer.cluster.nodes
           /\ k.op = "add" => AnyLock(Applied(k, s).nodes)
           /\ k.op = "delete" /\ Has(s.nodes, k.node) => AnyLock(Applied(k, s).nodes)
           /\ k.op = "delete" /\ ~Has(s.nodes, k.node) => Applied(k, s) = s
  <1> DEFINE a == Applied(k, s)
  <1>1. /\ k.op \in {"load", "statuses", "nodes", "add", "delete", "change"} /\ k.to \in Clusters
        /\ k.op \in EditOps => k.node \in NodeNames
        /\ k.op \in ReadOps => k.answer.cluster.nodes \in Seq(Nodes) /\ k.answer.cluster.status \in {"Sync", "Error"}
    BY DEF CallOK, Calls, PollOps, EditOps, ReadOps, Answers, Records
  <1>2. CASE k.op = "load"
    <2>1. a = [name |-> k.to, status |-> k.answer.cluster.status, nodes |-> k.answer.cluster.nodes]
      BY <1>2 DEF Applied, loadProject
    <2>2. a \in Views /\ a.name = k.to /\ a.nodes = k.answer.cluster.nodes
      BY <1>1, <1>2, <2>1 DEF Views, ReadOps
    <2> QED
      BY <1>2, <2>2
  <1>3. CASE k.op = "nodes"
    <2>1. a = [s EXCEPT !.nodes = k.answer.cluster.nodes]
      BY <1>3 DEF Applied, updateNodes
    <2>2. PICK l \in Seq(Nodes) : l = k.answer.cluster.nodes
      BY <1>1, <1>3 DEF ReadOps
    <2>3. a = [s EXCEPT !.nodes = l]
      BY <2>1, <2>2
    <2> HIDE DEF a
    <2>4. a \in Views /\ a.name = s.name /\ a.status = s.status /\ a.nodes = l
      BY <2>2, <2>3, ViewWith
    <2> QED
      BY <1>3, <2>2, <2>4 DEF a
  <1>4. CASE k.op = "add"
    <2> DEFINE x == Node(k.to, k.node, "Create")
               l == Append(s.nodes, x)
    <2>1. a = [s EXCEPT !.nodes = l]
      BY <1>4 DEF Applied, addNodeToCluster
    <2>2. x \in Nodes /\ x.lock # None
      BY <1>1, <1>4, NodeFields, InitialAssumption DEF Locks, Marks, EditOps
    <2>3. s.nodes \in Seq(Nodes)
      BY ViewIs
    <2> HIDE DEF x
    <2>4. l \in Seq(Nodes) /\ AnyLock(l)
      BY <2>2, <2>3, AppendNode
    <2> HIDE DEF l, a
    <2>5. a \in Views /\ a.name = s.name /\ a.status = s.status /\ a.nodes = l
      BY <2>1, <2>4, ViewWith
    <2> QED
      BY <1>4, <2>4, <2>5 DEF a, ReadOps
  <1>5. CASE k.op = "delete" /\ Has(s.nodes, k.node)
    <2> DEFINE l == [s.nodes EXCEPT ![Nth(Named(s.nodes, k.node), 1)] = Node(k.to, k.node, "Delete")]
    <2>1. a = [s EXCEPT !.nodes = l]
      BY <1>5 DEF Applied, deleteNodeFromCluster
    <2>2. s.nodes \in Seq(Nodes) /\ k.node \in NodeNames
      BY <1>1, <1>5, ViewIs DEF EditOps
    <2>3. l \in Seq(Nodes) /\ AnyLock(l)
      BY <1>1, <1>5, <2>2, LockedAt
    <2> HIDE DEF l, a
    <2>4. a \in Views /\ a.name = s.name /\ a.status = s.status /\ a.nodes = l
      BY <2>1, <2>3, ViewWith
    <2> QED
      BY <1>5, <2>3, <2>4 DEF a, ReadOps
  <1>6. CASE k.op \in {"statuses", "change"} \/ (k.op = "delete" /\ ~Has(s.nodes, k.node))
    <2>1. a = s
      BY <1>6 DEF Applied, deleteNodeFromCluster
    <2> QED
      BY <1>6, <2>1 DEF ReadOps
  <1>7. \/ k.op = "load" \/ k.op = "nodes" \/ k.op = "add"
        \/ k.op = "delete" /\ Has(s.nodes, k.node)
        \/ k.op \in {"statuses", "change"}
        \/ k.op = "delete" /\ ~Has(s.nodes, k.node)
    BY <1>1
  <1> QED
    BY <1>2, <1>3, <1>4, <1>5, <1>6, <1>7, Zenon

LEMMA OneTask ==
    ASSUME TasksOK, NEW t \in Slots, NEW x, x \in {Idle, Dead} \/ CallOK(t, x),
           task' = [task EXCEPT ![t] = x]
    PROVE  TasksOK' /\ task'[t] = x /\ \A u \in Slots : u # t => task'[u] = task[u]
  <1>1. DOMAIN task' = Slots /\ task'[t] = x /\ \A u \in Slots : u # t => task'[u] = task[u]
    BY DEF TasksOK
  <1>2. \A u \in Slots : Running(u)' => CallOK(u, task'[u])
    BY <1>1 DEF TasksOK, Running
  <1> QED
    BY <1>1, <1>2 DEF TasksOK

LEMMA KnownIs ==
    ASSUME CountOK, NEW c
    PROVE  /\ Known(c) \in SUBSET Edits /\ Known(c) \subseteq 1..edits /\ Hidden(c) \in BOOLEAN
           /\ edits < bound.edits => edits + 1 \in Edits
  <1>1. bound \in Bounds /\ edits \in 0..bound.edits /\ bound.edits \in Nat
    BY BoundIs DEF CountOK
  <1>2. \A e \in 1..edits : e \in Edits
    BY <1>1, BoundIs
  <1>3. edits < bound.edits => edits + 1 \in Edits
    BY <1>1, BoundIs
  <1> QED
    BY <1>2, <1>3 DEF Known, Hidden

(* The call of a served task.                                                *)
LEMMA ServedTask ==
    ASSUME BaseInv, NEW t \in Slots, Serve(t)
    PROVE  \E x : /\ task' = [task EXCEPT ![t] = x] /\ CallOK(t, x)
                  /\ x.op = task[t].op /\ x.to = task[t].to /\ x.node = task[t].node /\ x.by = task[t].by
                  /\ IF Refused(task[t].op, task[t].to, task[t].node)
                     THEN x.phase = "failed"
                     ELSE /\ x.phase = "answered"
                          /\ task[t].op \in ReadOps =>
                               x.answer = [cluster |-> server[task[t].to], known |-> Known(task[t].to),
                                           hidden |-> Hidden(task[t].to)]
  <1> DEFINE k == task[t]
  <1>1. /\ CallOK(t, k) /\ k.phase = "sent" /\ k.op \in ReadOps \cup EditOps /\ k.to \in Clusters
    BY ServesKnown
  <1>2. k \in Calls
    BY <1>1 DEF CallOK
  <1>3. DOMAIN task = Slots
    BY DEF BaseInv, TasksOK
  <1>4. CASE Refused(k.op, k.to, k.node)
    <2> DEFINE x == [k EXCEPT !.phase = "failed"]
    <2>1. task' = [task EXCEPT ![t] = x]
      BY <1>3, <1>4 DEF Serve
    <2>2. x \in Calls /\ x.op = k.op /\ x.to = k.to /\ x.node = k.node /\ x.by = k.by /\ x.rest = k.rest
          /\ x.phase = "failed"
      BY <1>2 DEF Calls
    <2>3. x.op = "delete"
      BY <1>4, <2>2 DEF Refused
    <2> HIDE DEF x
    <2>4. CallOK(t, x)
      BY <1>1, <2>2, <2>3 DEF CallOK
    <2> QED
      BY <1>4, <2>1, <2>2, <2>4
  <1>5. CASE ~Refused(k.op, k.to, k.node)
    <2> DEFINE read == [cluster |-> server[k.to], known |-> Known(k.to), hidden |-> Hidden(k.to)]
               a == IF k.op \in {"load", "nodes"} THEN read ELSE Idle
               x == [[k EXCEPT !.phase = "answered"] EXCEPT !.answer = a]
    <2>1. task' = [task EXCEPT ![t] = x]
      BY <1>3, <1>5 DEF Serve
    <2>2. read \in Answers
      <3>1. server[k.to] \in Records
        BY <1>1, RecordIs DEF BaseInv, ServerOK
      <3>2. Known(k.to) \in SUBSET Edits /\ Hidden(k.to) \in BOOLEAN
        BY KnownIs DEF BaseInv
      <3> QED
        BY <3>1, <3>2 DEF Answers
    <2> HIDE DEF read
    <2>3. a \in Answers \cup {Idle} /\ (k.op \in ReadOps => a = read)
      BY <2>2 DEF ReadOps
    <2> HIDE DEF a
    <2>4. x \in Calls /\ x.op = k.op /\ x.to = k.to /\ x.node = k.node /\ x.by = k.by /\ x.rest = k.rest
          /\ x.phase = "answered" /\ x.answer = a
      BY <1>2, <2>3 DEF Calls
    <2> HIDE DEF x
    <2>5. CallOK(t, x)
      BY <1>1, <2>2, <2>3, <2>4 DEF CallOK
    <2>6. k.op \in ReadOps => x.answer = [cluster |-> server[k.to], known |-> Known(k.to), hidden |-> Hidden(k.to)]
      BY <2>3, <2>4 DEF read
    <2> QED
      BY <1>5, <2>1, <2>4, <2>5, <2>6
  <1> QED
    BY <1>4, <1>5
LEMMA ShownNode ==
    ASSUME PageOK, dialog.vm # None
    PROVE  /\ NodeShown(dialog.vm).name \in NodeNames
           /\ Has(shown.nodes, NodeShown(dialog.vm).name)
  <1>1. PICK i \in DOMAIN shown.nodes : shown.nodes[i].vm = dialog.vm
    BY DEF PageOK, Stored
  <1>2. shown.nodes[i] \in ToSet(shown.nodes)
    BY <1>1 DEF ToSet
  <1>3. NodeShown(dialog.vm) \in ToSet(shown.nodes)
    BY <1>1, <1>2 DEF NodeShown
  <1>4. PICK j \in DOMAIN shown.nodes : shown.nodes[j] = NodeShown(dialog.vm)
    BY <1>3 DEF ToSet
  <1>5. shown.nodes \in Seq(Nodes)
    BY ViewIs DEF PageOK
  <1> QED
    BY <1>4, <1>5, InNodes DEF Has, Named

(* The call of a click.                                                      *)
LEMMA EditTask ==
    ASSUME BaseInv, NEW op \in EditOps, NEW n \in NodeNames, SendEdit(op, n), dialog.kind # "none"
    PROVE  \E x : /\ edits + 1 \in Edits /\ <<"edit", edits + 1>> \in Slots
                  /\ task' = [task EXCEPT ![<<"edit", edits + 1>>] = x]
                  /\ CallOK(<<"edit", edits + 1>>, x) /\ x \notin {Idle, Dead}
                  /\ x.op = op /\ x.to = shown.name /\ x.phase = "sent" /\ x.to \in Clusters
  <1>1. edits + 1 \in Edits
    BY KnownIs DEF BaseInv, SendEdit
  <1>2. PICK t \in Slots : t = <<"edit", edits + 1>>
    BY <1>1, SlotsAre
  <1>3. PICK c \in Clusters : c = shown.name
    BY ViewIs DEF BaseInv, PageOK
  <1>4. PICK v \in Nat : v = visit
    BY BoundIs DEF BaseInv, PageOK, CountOK
  <1>5. PICK m \in NodeNames \cup {None} : m = n
    OBVIOUS
  <1>6. PICK r \in Seq(PollOps) : r = <<>>
    <2>1. <<>> \in Seq(PollOps)
      OBVIOUS
    <2> QED
      BY <2>1, Zenon
  <1>7. op \in OpsOf(t) /\ (op \in EditOps => m \in NodeNames) /\ (t[1] # "poll" => r = <<>>)
    BY <1>2, <1>5, <1>6, OpsDiffer
  <1> DEFINE x == Call(op, c, m, v, r)
  <1>8. CallOK(t, x)
    BY <1>2, <1>3, <1>4, <1>5, <1>6, <1>7, CallIs
  <1>9. x \notin {Idle, Dead}
    BY <1>2, <1>3, <1>4, <1>5, <1>6, <1>7, CallIs
  <1>10. x.op = op /\ x.to = c /\ x.phase = "sent"
    BY DEF Call, EditOps
  <1>11. task' = [task EXCEPT ![t] = x]
    BY <1>2, <1>3, <1>4, <1>5, <1>6 DEF SendEdit
  <1> HIDE DEF x
  <1> QED
    BY <1>1, <1>2, <1>3, <1>8, <1>9, <1>10, <1>11

(* What the answer to a call leaves in its slot.                             *)
LEMMA AnsweredTask ==
    ASSUME BaseInv, NEW t \in Slots, Answer(t)
    PROVE  /\ CallOK(t, task[t]) /\ task[t].phase = "answered"
           /\ \E x : /\ task' = [task EXCEPT ![t] = x]
                     /\ x = Idle \/ (/\ t[1] = "poll" /\ CallOK(t, x) /\ x.op \in PollOps
                                     /\ x.op = "nodes" => x.phase = "sent")
  <1> DEFINE k == task[t]
             s == Applied(k, shown)
             x == Chain(k.rest, k.by, s)
  <1>1. CallOK(t, k) /\ k.phase = "answered"
    BY DEF Answer, BaseInv, TasksOK
  <1>2. task' = [task EXCEPT ![t] = x]
    BY DEF Answer
  <1>3. s \in Views
    BY <1>1, AppliedIs DEF BaseInv, PageOK
  <1>4. k.rest \in Seq(PollOps) /\ k.by \in Nat /\ (t[1] # "poll" => k.rest = <<>>)
    BY <1>1 DEF CallOK, Calls
  <1>5. CASE t[1] # "poll"
    <2>1. x = Idle
      BY <1>4, <1>5, NoChain
    <2> QED
      BY <1>1, <1>2, <2>1
  <1>6. CASE t[1] = "poll"
    <2>1. PICK v \in Visits : t = <<"poll", v>>
      BY <1>6, SlotsAre
    <2> HIDE DEF s
    <2>2. \/ x = Idle
          \/ /\ CallOK(<<"poll", v>>, x) /\ x.op \in PollOps
             /\ x.op = "nodes" => x.phase = "sent"
      BY <1>3, <1>4, ChainIs
    <2> HIDE DEF x
    <2>3. x = Idle \/ (t[1] = "poll" /\ CallOK(t, x) /\ x.op \in PollOps /\ (x.op = "nodes" => x.phase = "sent"))
      BY <1>6, <2>1, <2>2
    <2> QED
      BY <1>1, <1>2, <2>3
  <1> QED
    BY <1>5, <1>6

LEMMA OpenTask ==
    ASSUME BaseInv, NEW c \in Clusters, Open(c)
    PROVE  \E x : /\ <<"load", visit + 1>> \in Slots /\ task' = [task EXCEPT ![<<"load", visit + 1>>] = x]
                  /\ CallOK(<<"load", visit + 1>>, x) /\ x \notin {Idle, Dead}
                  /\ x.op = "load" /\ x.phase = "sent"
  <1>1. visit + 1 \in Visits
    BY BoundIs DEF BaseInv, PageOK, CountOK, Open
  <1>2. PICK t \in Slots : t = <<"load", visit + 1>>
    BY <1>1, SlotsAre
  <1>3. PICK v \in Nat : v = visit + 1
    BY BoundIs DEF BaseInv, PageOK, CountOK
  <1>4. PICK op \in OpsOf(t) : op = "load"
    BY <1>2, OpsDiffer
  <1>5. PICK m \in NodeNames \cup {None} : m = None
    OBVIOUS
  <1>6. PICK r \in Seq(PollOps) : r = <<>>
    <2>1. <<>> \in Seq(PollOps)
      OBVIOUS
    <2> QED
      BY <2>1, Zenon
  <1>7. (op \in EditOps => m \in NodeNames) /\ (t[1] # "poll" => r = <<>>)
    BY <1>4, <1>6 DEF EditOps
  <1> DEFINE x == Call(op, c, m, v, r)
  <1>8. CallOK(t, x)
    BY <1>2, <1>3, <1>4, <1>5, <1>6, <1>7, CallIs
  <1>9. x \notin {Idle, Dead}
    BY <1>2, <1>3, <1>4, <1>5, <1>6, <1>7, CallIs
  <1>10. x.op = op /\ x.phase = "sent"
    BY <1>4 DEF Call
  <1>11. task' = [task EXCEPT ![t] = x]
    BY <1>2, <1>3, <1>4, <1>5, <1>6 DEF Open
  <1> HIDE DEF x
  <1> QED
    BY <1>2, <1>4, <1>8, <1>9, <1>10, <1>11

LEMMA TickTask ==
    ASSUME BaseInv, Tick
    PROVE  \E x : /\ <<"poll", visit>> \in Slots /\ task' = [task EXCEPT ![<<"poll", visit>>] = x]
                  /\ x = Idle \/ (/\ CallOK(<<"poll", visit>>, x) /\ x.op \in PollOps
                                  /\ x.op = "nodes" => x.phase = "sent")
  <1>1. PICK v \in Visits : v = visit
    BY BoundIs DEF BaseInv, PageOK, CountOK, Tick
  <1>2. <<"poll", v>> \in Slots /\ v \in Nat
    BY <1>1, SlotsAre, VisitsAndEdits
  <1>3. OnInterval \in Seq(PollOps) /\ shown \in Views
    BY DEF OnInterval, PollOps, BaseInv, PageOK
  <1> DEFINE x == Chain(OnInterval, v, shown)
  <1>4. \/ x = Idle
        \/ CallOK(<<"poll", v>>, x) /\ x.op \in PollOps /\ (x.op = "nodes" => x.phase = "sent")
    BY <1>1, <1>2, <1>3, ChainIs
  <1>5. task' = [task EXCEPT ![<<"poll", v>>] = x]
    BY <1>1 DEF Tick
  <1> HIDE DEF x
  <1> QED
    BY <1>1, <1>2, <1>4, <1>5

LEMMA SendsEdit ==
    ASSUME BaseInv, ConfirmDelete \/ Update \/ Add
    PROVE  \E op \in EditOps, n \in NodeNames : /\ SendEdit(op, n) /\ dialog.kind # "none"
                                                /\ Update <=> op = "change"
  <1>1. CASE ConfirmDelete
    <2>1. NodeShown(dialog.vm).name \in NodeNames
      BY <1>1, ShownNode DEF ConfirmDelete, BaseInv, PageOK
    <2> QED
      BY <1>1, <2>1 DEF ConfirmDelete, Update, EditOps
  <1>2. CASE Update
    <2>1. NodeShown(dialog.vm).name \in NodeNames
      BY <1>2, ShownNode DEF Update, BaseInv, PageOK
    <2> QED
      BY <1>2, <2>1 DEF Update, EditOps
  <1>3. CASE Add
    BY <1>3 DEF Add, Update, EditOps
  <1> QED
    BY <1>1, <1>2, <1>3

LEMMA TasksStep ==
    ASSUME BaseInv, [Next]_<<vars, bound>>
    PROVE  TasksOK'
  <1> USE DEF BaseInv
  <1>1. CASE UNCHANGED task
    BY <1>1 DEF TasksOK, Running
  <1>2. CASE \E c \in Clusters : Open(c)
    BY <1>2, OpenTask, OneTask
  <1>3. ASSUME NEW t \in Slots, Serve(t)
        PROVE  TasksOK'
    BY <1>3, ServedTask, OneTask
  <1>4. ASSUME NEW t \in Slots, Answer(t)
        PROVE  TasksOK'
    BY <1>4, AnsweredTask, OneTask
  <1>5. ASSUME NEW t \in Slots, Reject(t)
        PROVE  TasksOK'
    <2>1. PICK x \in {Idle, Dead} : task' = [task EXCEPT ![t] = x]
      BY <1>5 DEF Reject
    <2> QED
      BY <2>1, OneTask
  <1>6. CASE Tick
    BY <1>6, TickTask, OneTask
  <1>7. CASE ConfirmDelete \/ Update \/ Add
    BY <1>7, SendsEdit, EditTask, OneTask
  <1> QED
    BY <1>1, <1>2, <1>3, <1>4, <1>5, <1>6, <1>7 DEF Next, vars, Leave, Work, SelectNode, ShowAddNode,
       AskToDelete, Cancel, SetDialog

LEMMA NoDialogIs == NoDialog.kind = "none" /\ NoDialog.vm = None
  BY DEF NoDialog

(* The dialog is about a node that is shown.                                 *)
LEMMA DialogStep ==
    ASSUME PageOK, NEW k, NEW s \in Views
    PROVE  /\ DialogAfter(k, s) \in {dialog, NoDialog}
           /\ DialogAfter(k, s) = dialog /\ dialog.vm # None => Stored(s, dialog.vm)
  <1>1. DialogAfter(k, s) \in {dialog, NoDialog}
    BY DEF DialogAfter
  <1>2. dialog.vm # None /\ ~Stored(s, dialog.vm) => DialogAfter(k, s) = NoDialog
    BY DEF DialogAfter
  <1> QED
    BY <1>1, <1>2, NoDialogIs

LEMMA PageStep ==
    ASSUME BaseInv, [Next]_<<vars, bound>>
    PROVE  PageOK'
  <1> USE DEF BaseInv
  <1>0. bound' = bound /\ bound.visits \in Nat
    BY BoundIs DEF Next, CountOK
  <1>1. CASE UNCHANGED <<shown, page, visit, dialog>>
    BY <1>0, <1>1 DEF PageOK, Stored
  <1>2. CASE \E c \in Clusters : Open(c)
    <2>1. page' \in Clusters /\ visit' = visit + 1 /\ visit < bound.visits /\ UNCHANGED <<shown, dialog>>
      BY <1>2 DEF Open
    <2>2. visit' \in 0..bound'.visits /\ visit' # 0 /\ page' # None
      BY <1>0, <2>1, InitialAssumption DEF PageOK
    <2> QED
      BY <2>1, <2>2 DEF PageOK, Stored
  <1>3. ASSUME NEW t \in Slots, Answer(t)
        PROVE  PageOK'
    <2> DEFINE k == task[t]
               s == Applied(k, shown)
    <2>1. CallOK(t, k) /\ k.phase = "answered"
      BY <1>3, AnsweredTask
    <2>2. /\ shown' = s /\ dialog' = DialogAfter(k, s) /\ UNCHANGED <<page, visit>>
      BY <1>3 DEF Answer
    <2>3. /\ s \in Views /\ s.name = IF k.op = "load" THEN k.to ELSE shown.name
          /\ k.op # "load" => s.status = shown.status
      BY <2>1, AppliedIs DEF PageOK
    <2>4. k.to # None
      BY <2>1, InitialAssumption DEF CallOK, Calls
    <2> HIDE DEF s
    <2>5. /\ dialog' \in {dialog, NoDialog}
          /\ dialog' = dialog /\ dialog.vm # None => Stored(s, dialog.vm)
      BY <2>2, <2>3, DialogStep
    <2>6. shown.name # None => s.name # None
      BY <2>3, <2>4
    <2>7. s.name = None => s.status = None
      BY <2>3, <2>4 DEF PageOK
    <2>8. CASE dialog' = NoDialog
      BY <1>0, <2>2, <2>3, <2>7, <2>8, NoDialogIs DEF PageOK
    <2>9. CASE dialog' = dialog
      BY <1>0, <2>2, <2>3, <2>5, <2>6, <2>7, <2>9 DEF PageOK, Stored
    <2> QED
      BY <2>5, <2>8, <2>9
  <1>4. ASSUME NEW t \in Slots, Reject(t)
        PROVE  PageOK'
    <2>1. /\ UNCHANGED <<shown, visit>>
          /\ \/ page' = None /\ dialog' = NoDialog
             \/ UNCHANGED <<page, dialog>>
      BY <1>4 DEF Reject
    <2> QED
      BY <1>0, <2>1, NoDialogIs DEF PageOK, Stored
  <1>5. CASE Leave \/ Cancel
    <2>1. UNCHANGED <<shown, visit>> /\ dialog' = NoDialog /\ page' \in {page, None}
      BY <1>5 DEF Leave, Cancel, SetDialog
    <2> QED
      BY <1>0, <2>1, NoDialogIs DEF PageOK
  <1>6. CASE SelectNode
    <2>1. PICK i \in DOMAIN shown.nodes : SetDialog([kind |-> "edit", vm |-> shown.nodes[i].vm])
      BY <1>6 DEF SelectNode
    <2>2. dialog' = [kind |-> "edit", vm |-> shown.nodes[i].vm] /\ UNCHANGED <<shown, page, visit>>
      BY <2>1 DEF SetDialog
    <2>3. shown.nodes[i].vm # None
      <3>1. shown.nodes \in Seq(Nodes)
        BY ViewIs DEF PageOK
      <3> QED
        BY <3>1, InNodes
    <2>4. page # None /\ shown.name # None
      BY <1>6, InitialAssumption DEF SelectNode, InSync, PageOK
    <2>5. dialog'.kind = "edit" /\ dialog'.vm = shown.nodes[i].vm
      BY <2>2
    <2>6. Stored(shown, dialog'.vm)
      BY <2>1, <2>5 DEF Stored
    <2> QED
      BY <1>0, <2>2, <2>3, <2>4, <2>5, <2>6 DEF PageOK, Stored
  <1>7. CASE ShowAddNode
    <2>1. dialog' = [kind |-> "add", vm |-> None] /\ UNCHANGED <<shown, page, visit>>
      BY <1>7 DEF ShowAddNode, SetDialog
    <2>2. page # None /\ shown.name # None
      BY <1>7, InitialAssumption DEF ShowAddNode, InSync, PageOK
    <2> QED
      BY <1>0, <2>1, <2>2 DEF PageOK
  <1>8. CASE AskToDelete
    <2>1. dialog' = [dialog EXCEPT !.kind = "confirm"] /\ dialog.kind = "edit" /\ UNCHANGED <<shown, page, visit>>
      BY <1>8 DEF AskToDelete, SetDialog
    <2>2. dialog'.kind = "confirm" /\ dialog'.vm = dialog.vm
      BY <2>1
    <2> QED
      BY <1>0, <2>1, <2>2 DEF PageOK, Stored
  <1>9. CASE Update
    <2> DEFINE n == NodeShown(dialog.vm).name
               l == RelockFirst(shown.nodes, n, "ChangeResources")
    <2>1. /\ shown' = [shown EXCEPT !.nodes = l] /\ UNCHANGED <<page, visit, dialog>>
          /\ dialog.kind = "edit"
      BY <1>9 DEF Update, SendEdit
    <2>2. dialog.vm # None /\ shown \in Views /\ shown.nodes \in Seq(Nodes)
      BY <2>1, ViewIs DEF PageOK
    <2>3. n \in NodeNames /\ Has(shown.nodes, n)
      BY <2>2, ShownNode
    <2>4. "ChangeResources" \in Locks
      BY DEF Locks, Marks
    <2> HIDE DEF n
    <2>5. /\ l \in Seq(Nodes) /\ DOMAIN l = DOMAIN shown.nodes
          /\ \A i \in DOMAIN shown.nodes : l[i].vm = shown.nodes[i].vm
      BY <2>2, <2>3, <2>4, RelockFirstIs
    <2> HIDE DEF l
    <2>6. /\ shown' \in Views /\ shown'.name = shown.name /\ shown'.status = shown.status /\ shown'.nodes = l
      BY <2>1, <2>2, <2>5, ViewWith
    <2>7. Stored(shown', dialog.vm)
      BY <2>2, <2>5, <2>6 DEF PageOK, Stored
    <2> QED
      BY <1>0, <2>1, <2>6, <2>7 DEF PageOK
  <1> QED
    BY <1>1, <1>2, <1>3, <1>4, <1>5, <1>6, <1>7, <1>8, <1>9 DEF Next, vars, Tick, Work, Serve, SetDialog,
       ConfirmDelete, Add, SendEdit

(* The slots of edits, step by step.                                         *)
LEMMA EditSlots ==
    ASSUME BaseInv, NEW t \in Slots, NEW x, task' = [task EXCEPT ![t] = x], NEW e \in Edits
    PROVE  task'[<<"edit", e>>] = IF t = <<"edit", e>> THEN x ELSE task[<<"edit", e>>]
  <1>1. <<"edit", e>> \in Slots
    BY SlotsAre
  <1> QED
    BY <1>1 DEF BaseInv, TasksOK

LEMMA CountStep ==
    ASSUME BaseInv, [Next]_<<vars, bound>>
    PROVE  CountOK'
  <1> USE DEF BaseInv
  <1> DEFINE Made == \A e \in Edits : Running(<<"edit", e>>) => e <= edits
  <1>0. /\ bound' = bound /\ bound \in Bounds /\ bound.edits \in Nat /\ bound.fails \in Nat
        /\ edits \in 0..bound.edits /\ fails \in 0..bound.fails
        /\ told \subseteq [edit : 1..edits, to : Clusters] /\ crossed \in BOOLEAN /\ Made
    BY BoundIs DEF Next, CountOK
  <1>1. ASSUME NEW t \in Slots, NEW x, task' = [task EXCEPT ![t] = x], UNCHANGED edits,
               t[1] = "edit" => x \in {Idle, Dead} \/ Running(t)
        PROVE  Made'
    <2> SUFFICES ASSUME NEW e \in Edits, Running(<<"edit", e>>)'
                 PROVE  e <= edits
      BY <1>1
    <2>1. task'[<<"edit", e>>] = IF t = <<"edit", e>> THEN x ELSE task[<<"edit", e>>]
      BY <1>1, EditSlots
    <2>2. Running(<<"edit", e>>)
      BY <1>1, <2>1 DEF Running
    <2> QED
      BY <1>0, <2>2
  <1>2. CASE UNCHANGED <<edits, fails, told, crossed, task>>
    BY <1>0, <1>2 DEF CountOK, Running
  <1>3. CASE Work
    <2>1. UNCHANGED <<edits, told, crossed, task>> /\ fails' \in 0..bound.fails
      BY <1>0, <1>3 DEF Work
    <2> QED
      BY <1>0, <2>1 DEF CountOK, Running
  <1>4. CASE \/ \E c \in Clusters : Open(c)
             \/ Tick \/ \E t \in Slots : Serve(t)
    <2>1. UNCHANGED <<edits, fails, told, crossed>>
      BY <1>4 DEF Open, Tick, Serve
    <2>2. Made'
      <3>1. CASE \E c \in Clusters : Open(c)
        BY <1>1, <2>1, <3>1, OpenTask
      <3>2. CASE Tick
        BY <1>1, <2>1, <3>2, TickTask
      <3>3. CASE \E t \in Slots : Serve(t)
        <4>1. PICK t \in Slots : Serve(t)
          BY <3>3
        <4>2. PICK x : task' = [task EXCEPT ![t] = x]
          BY <4>1, ServedTask
        <4>3. Running(t)
          BY <4>1 DEF Serve
        <4> QED
          BY <1>1, <2>1, <4>2, <4>3
      <3> QED
        BY <1>4, <3>1, <3>2, <3>3
    <2> QED
      BY <1>0, <2>1, <2>2 DEF CountOK
  <1>5. ASSUME NEW t \in Slots, Answer(t) \/ Reject(t)
        PROVE  CountOK'
    <2> DEFINE k == task[t]
    <2>1. CallOK(t, k) /\ Running(t) /\ edits' = edits
      BY <1>5 DEF Answer, Reject, TasksOK
    <2>2. t[1] = "edit" => Told(t) \in [edit : 1..edits, to : Clusters]
      <3>1. ASSUME t[1] = "edit"
            PROVE  t[2] \in 1..edits
        <4>1. t[2] \in Edits /\ t = <<"edit", t[2]>>
          BY <3>1, SlotsAre
        <4>2. t[2] <= edits
          BY <1>0, <2>1, <4>1
        <4>3. t[2] \in Nat /\ t[2] >= 1
          BY <4>1, BoundAssumption DEF Edits, Bound
        <4> QED
          BY <1>0, <4>2, <4>3
      <3>2. k.to \in Clusters
        BY <2>1 DEF CallOK, Calls
      <3> QED
        BY <3>1, <3>2 DEF Told
    <2>3. told' \subseteq [edit : 1..edits, to : Clusters]
      <3>1. /\ told' \subseteq (told \cup {Told(t)})
            /\ t[1] # "edit" => told' \subseteq told
        BY <1>5 DEF Answer, Reject
      <3> QED
        BY <1>0, <2>2, <3>1
    <2>4. crossed' \in BOOLEAN
      BY <1>0, <1>5 DEF Answer, Reject, OutOfDate
    <2>5. fails' \in 0..bound.fails
      BY <1>0, <1>5 DEF Answer, Reject
    <2>6. Made'
      BY <1>1, <1>5, <2>1, AnsweredTask DEF Reject
    <2> QED
      BY <1>0, <2>1, <2>3, <2>4, <2>5, <2>6 DEF CountOK
  <1>6. CASE ConfirmDelete \/ Update \/ Add
    <2>1. PICK op \in EditOps, n \in NodeNames : SendEdit(op, n) /\ dialog.kind # "none"
      BY <1>6, SendsEdit
    <2>2. edits' = edits + 1 /\ edits < bound.edits /\ UNCHANGED <<fails, crossed>>
      BY <2>1 DEF SendEdit
    <2>3. told' \subseteq [edit : 1..edits', to : Clusters]
      <3>1. told' \subseteq told \cup {[edit |-> edits + 1, to |-> shown.name]}
        BY <1>6 DEF ConfirmDelete, Update, Add
      <3>2. PICK x : x.to = shown.name /\ x.to \in Clusters
        BY <2>1, EditTask
      <3> QED
        BY <1>0, <2>2, <3>1, <3>2
    <2>4. Made'
      <3>1. PICK x : <<"edit", edits + 1>> \in Slots /\ task' = [task EXCEPT ![<<"edit", edits + 1>>] = x]
        BY <2>1, EditTask
      <3>2. SUFFICES ASSUME NEW e \in Edits, Running(<<"edit", e>>)'
                     PROVE  e <= edits + 1
        BY <2>2
      <3>3. task'[<<"edit", e>>] = IF e = edits + 1 THEN x ELSE task[<<"edit", e>>]
        BY <3>1, EditSlots
      <3>4. e \in Nat
        BY VisitsAndEdits
      <3> QED
        BY <1>0, <3>2, <3>3, <3>4 DEF Running
    <2> QED
      BY <1>0, <2>2, <2>3, <2>4 DEF CountOK
  <1> QED
    BY <1>2, <1>3, <1>4, <1>5, <1>6 DEF Next, vars, Leave, SelectNode, ShowAddNode, AskToDelete, Cancel,
       SetDialog

LEMMA BaseStep ==
    ASSUME BaseInv, [Next]_<<vars, bound>>
    PROVE  BaseInv'
  BY ServerStep, TasksStep, PageStep, CountStep DEF BaseInv

LEMMA BaseInit == Init => BaseInv /\ KeepsMaster
  <1> SUFFICES ASSUME Init
               PROVE  BaseInv /\ KeepsMaster
    OBVIOUS
  <1>1. \A b \in Bounds : b.visits \in Nat /\ b.edits \in Nat /\ b.fails \in Nat
    BY BoundIs
  <1>2. ASSUME NEW c \in Clusters
        PROVE  server[c] \in Records /\ HasMaster(server[c].nodes)
    <2> DEFINE l == [i \in DOMAIN Initial[c] |-> Node(c, Initial[c][i], None)]
    <2>1. server[c] = [status |-> "Sync", nodes |-> l]
      BY DEF Init
    <2>2. /\ DOMAIN Initial[c] = 1..Len(Initial[c]) /\ Len(Initial[c]) \in Nat
          /\ \A i \in DOMAIN Initial[c] : Initial[c][i] \in NodeNames
      BY InitialAssumption
    <2>3. \A i \in DOMAIN Initial[c] : l[i] \in Nodes /\ l[i].name = Initial[c][i]
      BY <2>2, NodeFields DEF Locks
    <2>4. DOMAIN l = DOMAIN Initial[c]
      OBVIOUS
    <2>5. l \in Seq(Nodes)
      <3>1. l = [i \in 1..Len(Initial[c]) |-> l[i]]
        BY <2>2
      <3> HIDE DEF l
      <3> QED
        BY <2>2, <2>3, <2>4, <3>1
    <2>6. PICK i \in DOMAIN Initial[c] : Initial[c][i] \in Masters
      BY InitialAssumption DEF ToSet
    <2> HIDE DEF l
    <2>7. server[c] \in Records
      BY <2>1, <2>5 DEF Records
    <2> QED
      BY <2>1, <2>3, <2>4, <2>6, <2>7 DEF HasMaster
  <1>3. ServerOK /\ KeepsMaster
    <2>1. server \in [Clusters -> Records]
      BY <1>2 DEF Init
    <2>2. queue \in Seq(Jobs)
      BY DEF Init
    <2>3. KeepsMaster
      BY <1>2 DEF KeepsMaster, HasMaster
    <2> QED
      BY <2>1, <2>2, <2>3 DEF ServerOK
  <1>4. TasksOK
    BY DEF Init, TasksOK, Running
  <1>5. PageOK
    <2>1. shown \in Views
      <3>1. <<>> \in Seq(Nodes)
        OBVIOUS
      <3> QED
        BY <3>1 DEF Init, Views
    <2> QED
      BY <1>1, <2>1, NoDialogIs DEF Init, PageOK
  <1>6. CountOK
    <2>1. \A e \in Edits : ~Running(<<"edit", e>>)
      BY SlotsAre DEF Init, Running
    <2>2. bound \in Bounds /\ edits = 0 /\ fails = 0 /\ told = {} /\ crossed = FALSE
      BY DEF Init
    <2>3. 0 \in 0..bound.edits /\ 0 \in 0..bound.fails
      BY <1>1, <2>2
    <2>4. told \subseteq [edit : 1..edits, to : Clusters] /\ crossed \in BOOLEAN
      BY <2>2
    <2> QED
      BY <2>1, <2>2, <2>3, <2>4 DEF CountOK
  <1> QED
    BY <1>3, <1>4, <1>5, <1>6 DEF BaseInv

LEMMA BaseIsTyped == BaseInv => TypeOK
  <1> SUFFICES ASSUME BaseInv
               PROVE  TypeOK
    OBVIOUS
  <1>1. \A c \in Clusters : server[c].status \in {"Sync", "Error"} /\ server[c].nodes \in Seq(Nodes)
    BY RecordIs DEF BaseInv, ServerOK
  <1>2. \A t \in Slots : Running(t) => task[t].phase \in {"sent", "answered", "failed"} /\ task[t].to \in Clusters
    BY DEF BaseInv, TasksOK, CallOK, Calls
  <1>3. /\ shown.name \in Clusters \cup {None} /\ shown.status \in {"Sync", "Error", None}
        /\ shown.nodes \in Seq(Nodes)
    BY ViewIs DEF BaseInv, PageOK
  <1>4. told \subseteq [edit : Edits, to : Clusters]
    BY KnownIs, BoundIs DEF BaseInv, CountOK
  <1> QED
    BY <1>1, <1>2, <1>3, <1>4 DEF BaseInv, PageOK, CountOK, TypeOK
-----------------------------------------------------------------------------
(* What a list of nodes says, and what became of the edits since it was      *)
(* taken.                                                                    *)
Slot(e) == <<"edit", e>>

\* The store knows of the edit to the cluster.
Knows(e, c) == [edit |-> e, to |-> c] \in told

ToldOf(c) == {e \in Edits : Knows(e, c)}

Sent(e, c)     == Running(Slot(e)) /\ task[Slot(e)].to = c /\ task[Slot(e)].phase = "sent"
Answered(e, c) == Running(Slot(e)) /\ task[Slot(e)].to = c /\ task[Slot(e)].phase = "answered"

\* The server has carried out the edit, or its answer was lost.
Served(e, c) == Answered(e, c) \/ (Knows(e, c) /\ ~Running(Slot(e)))

\* Of the edits that the list takes no account of, only deletions of what is
\* not in it have been carried out.
Untouched(nodes, known, c) ==
    \A e \in Edits : Served(e, c) /\ e \notin known =>
        Running(Slot(e)) /\ task[Slot(e)].op = "delete" /\ ~Has(nodes, task[Slot(e)].node)

\* A list without a lock is that of the server, until the server carries out
\* another edit.
Current(nodes, known, c) ==
    ~AnyLock(nodes) /\ Untouched(nodes, known, c) => nodes = server[c].nodes /\ NoJobs(c)

LEMMA SlotIs ==
    ASSUME NEW e \in Edits
    PROVE  /\ Slot(e) \in Slots /\ Slot(e)[1] = "edit" /\ Slot(e)[2] = e
           /\ \A t \in Slots : t[1] = "edit" /\ t[2] = e => t = Slot(e)
           /\ \A v : <<"load", v>> # Slot(e) /\ <<"poll", v>> # Slot(e)
  BY SlotsAre DEF Slot

LEMMA NotRunning == \A t \in Slots : task[t] \in {Idle, Dead} <=> ~Running(t)
  BY DEF Running

(* What becomes of an edit in a step.                                        *)
LEMMA EditStep ==
    ASSUME BaseInv, [Next]_<<vars, bound>>, NEW e \in Edits
    PROVE  \/ /\ task'[Slot(e)] = task[Slot(e)]
              /\ \A c \in Clusters : Knows(e, c)' <=> Knows(e, c)
           \/ Serve(Slot(e)) /\ UNCHANGED told
           \/ /\ Running(Slot(e)) /\ task[Slot(e)].phase = "answered"
              /\ task'[Slot(e)] \in {Idle, Dead} /\ told' = told \cup {Told(Slot(e))}
           \/ /\ Running(Slot(e)) /\ task[Slot(e)].phase # "answered"
              /\ task'[Slot(e)] \in {Idle, Dead} /\ told' = told \ {Told(Slot(e))}
           \/ /\ e = edits + 1 /\ edits' = edits + 1 /\ e > edits
              /\ task'[Slot(e)].phase = "sent" /\ ~Running(Slot(e))
              /\ \A c \in Clusters : ~Knows(e, c)
  <1> DEFINE Goal == \/ /\ task'[Slot(e)] = task[Slot(e)]
                        /\ \A c \in Clusters : Knows(e, c)' <=> Knows(e, c)
                     \/ Serve(Slot(e)) /\ UNCHANGED told
                     \/ /\ Running(Slot(e)) /\ task[Slot(e)].phase = "answered"
                        /\ task'[Slot(e)] \in {Idle, Dead} /\ told' = told \cup {Told(Slot(e))}
                     \/ /\ Running(Slot(e)) /\ task[Slot(e)].phase # "answered"
                        /\ task'[Slot(e)] \in {Idle, Dead} /\ told' = told \ {Told(Slot(e))}
                     \/ /\ e = edits + 1 /\ edits' = edits + 1 /\ e > edits
                        /\ task'[Slot(e)].phase = "sent" /\ ~Running(Slot(e))
                        /\ \A c \in Clusters : ~Knows(e, c)
  <1>1. CASE UNCHANGED <<task, told>>
    BY <1>1 DEF Knows
  <1>2. ASSUME NEW t \in Slots, NEW x, task' = [task EXCEPT ![t] = x], t # Slot(e)
        PROVE  task'[Slot(e)] = task[Slot(e)]
    BY <1>2, EditSlots DEF Slot
  <1>3. ASSUME NEW t \in Slots, t # Slot(e),
               told' \in {told, told \cup {Told(t)}, told \ {Told(t)}}, t[1] # "edit" => told' = told
        PROVE  \A c \in Clusters : Knows(e, c)' <=> Knows(e, c)
    <2>1. t[1] = "edit" => t[2] # e
      BY <1>3, SlotIs
    <2>2. \A c : t[1] = "edit" => [edit |-> e, to |-> c] # Told(t)
      BY <2>1 DEF Told
    <2> QED
      BY <1>3, <2>2 DEF Knows
  <1>4. CASE \E c \in Clusters : Open(c)
    <2>1. PICK x : <<"load", visit + 1>> \in Slots /\ task' = [task EXCEPT ![<<"load", visit + 1>>] = x]
      BY <1>4, OpenTask
    <2>2. UNCHANGED told
      BY <1>4 DEF Open
    <2>3. <<"load", visit + 1>> # Slot(e)
      BY SlotIs
    <2> QED
      BY <1>2, <2>1, <2>2, <2>3 DEF Knows
  <1>5. CASE Tick
    <2>1. PICK x : <<"poll", visit>> \in Slots /\ task' = [task EXCEPT ![<<"poll", visit>>] = x]
      BY <1>5, TickTask
    <2>2. UNCHANGED told
      BY <1>5 DEF Tick
    <2>3. <<"poll", visit>> # Slot(e)
      BY SlotIs
    <2> QED
      BY <1>2, <2>1, <2>2, <2>3 DEF Knows
  <1>6. ASSUME NEW t \in Slots, Serve(t)
        PROVE  Goal
    <2>1. PICK x : task' = [task EXCEPT ![t] = x]
      BY <1>6, ServedTask
    <2>2. UNCHANGED told
      BY <1>6 DEF Serve
    <2>3. CASE t = Slot(e)
      BY <1>6, <2>2, <2>3
    <2>4. CASE t # Slot(e)
      BY <1>2, <2>1, <2>2, <2>4 DEF Knows
    <2> QED
      BY <2>3, <2>4
  <1>7. ASSUME NEW t \in Slots, Answer(t)
        PROVE  Goal
    <2>1. PICK x : task' = [task EXCEPT ![t] = x] /\ (x = Idle \/ t[1] = "poll")
      BY <1>7, AnsweredTask
    <2>2. /\ Running(t) /\ task[t].phase = "answered"
          /\ told' = IF t[1] = "edit" THEN told \cup {Told(t)} ELSE told
      BY <1>7 DEF Answer
    <2>3. CASE t = Slot(e)
      <3>1. task'[Slot(e)] = x
        BY <2>1, <2>3, EditSlots DEF Slot
      <3>2. t[1] = "edit"
        BY <2>3, SlotIs
      <3> QED
        BY <2>1, <2>2, <2>3, <3>1, <3>2
    <2>4. CASE t # Slot(e)
      BY <1>2, <1>3, <2>1, <2>2, <2>4
    <2> QED
      BY <2>3, <2>4
  <1>8. ASSUME NEW t \in Slots, Reject(t)
        PROVE  Goal
    <2>1. PICK x \in {Idle, Dead} : task' = [task EXCEPT ![t] = x]
      BY <1>8 DEF Reject
    <2>2. /\ Running(t)
          /\ IF t[1] = "edit" /\ task[t].phase = "answered" THEN told' = told \cup {Told(t)}
             ELSE told' = IF t[1] = "edit" THEN told \ {Told(t)} ELSE told
      BY <1>8 DEF Reject
    <2>3. CASE t = Slot(e)
      <3>1. task'[Slot(e)] = x
        BY <2>1, <2>3, EditSlots DEF Slot
      <3>2. t[1] = "edit"
        BY <2>3, SlotIs
      <3> QED
        BY <2>1, <2>2, <2>3, <3>1, <3>2
    <2>4. CASE t # Slot(e)
      BY <1>2, <1>3, <2>1, <2>2, <2>4
    <2> QED
      BY <2>3, <2>4
  <1>9. CASE ConfirmDelete \/ Update \/ Add
    <2>1. PICK op \in EditOps, n \in NodeNames : SendEdit(op, n) /\ dialog.kind # "none"
      BY <1>9, SendsEdit
    <2>2. PICK x : /\ <<"edit", edits + 1>> \in Slots /\ task' = [task EXCEPT ![<<"edit", edits + 1>>] = x]
                   /\ x.phase = "sent"
      BY <2>1, EditTask
    <2>3. edits' = edits + 1 /\ edits \in Nat
      BY <2>1, BoundIs DEF SendEdit, BaseInv, CountOK
    <2>4. told' \in {told, told \cup {[edit |-> edits + 1, to |-> shown.name]}}
      BY <1>9 DEF ConfirmDelete, Update, Add
    <2>5. CASE e = edits + 1
      <3>1. task'[Slot(e)] = x
        BY <2>2, <2>5, EditSlots DEF Slot
      <3>2. ~Running(Slot(e))
        BY <2>3, <2>5 DEF BaseInv, CountOK, Slot
      <3>3. \A c \in Clusters : ~Knows(e, c)
        BY <2>3, <2>5 DEF BaseInv, CountOK, Knows
      <3> QED
        BY <2>2, <2>3, <2>5, <3>1, <3>2, <3>3
    <2>6. CASE e # edits + 1
      <3>1. task'[Slot(e)] = task[Slot(e)]
        BY <2>2, <2>6, EditSlots DEF Slot
      <3>2. \A c \in Clusters : Knows(e, c)' <=> Knows(e, c)
        BY <2>4, <2>6 DEF Knows
      <3> QED
        BY <3>1, <3>2
    <2> QED
      BY <2>5, <2>6
  <1> HIDE DEF Goal
  <1>10. (UNCHANGED <<task, told>>) => Goal
    BY <1>1 DEF Goal
  <1>11. Goal
    BY <1>10, <1>4, <1>5, <1>6, <1>7, <1>8, <1>9 DEF Goal, Next, vars, Leave, Work, SelectNode, ShowAddNode,
       AskToDelete, Cancel, SetDialog
  <1> QED
    BY <1>11 DEF Goal

LEMMA RunsIs == \A t \in Slots : /\ Running(t) <=> task[t] \notin {Idle, Dead}
                                 /\ Running(t)' <=> task'[t] \notin {Idle, Dead}
  BY DEF Running

(* What was carried out stays so, and an edit that runs on is the same.      *)
LEMMA ServedStays ==
    ASSUME BaseInv, [Next]_<<vars, bound>>, NEW e \in Edits, NEW c \in Clusters, Served(e, c)
    PROVE  /\ Served(e, c)'
           /\ Running(Slot(e))' => /\ Running(Slot(e)) /\ task'[Slot(e)].op = task[Slot(e)].op
                                   /\ task'[Slot(e)].node = task[Slot(e)].node
  <1>1. Slot(e) \in Slots
    BY SlotIs
  <1>2. CASE /\ task'[Slot(e)] = task[Slot(e)]
             /\ \A d \in Clusters : Knows(e, d)' <=> Knows(e, d)
    BY <1>1, <1>2, RunsIs DEF Served, Answered
  <1>3. CASE Serve(Slot(e))
    <2>1. Running(Slot(e)) /\ task[Slot(e)].phase = "sent"
      BY <1>3 DEF Serve
    <2> QED
      BY <2>1 DEF Served, Answered
  <1>4. CASE /\ Running(Slot(e)) /\ task[Slot(e)].phase = "answered"
             /\ task'[Slot(e)] \in {Idle, Dead} /\ told' = told \cup {Told(Slot(e))}
    <2>1. task[Slot(e)].to = c
      BY <1>4 DEF Served, Answered
    <2>2. Told(Slot(e)) = [edit |-> e, to |-> c]
      BY <2>1, SlotIs DEF Told
    <2>3. Knows(e, c)'
      BY <1>4, <2>2 DEF Knows
    <2>4. ~Running(Slot(e))'
      BY <1>1, <1>4, RunsIs
    <2> QED
      BY <2>3, <2>4 DEF Served
  <1>5. CASE Running(Slot(e)) /\ task[Slot(e)].phase # "answered"
    BY <1>5 DEF Served, Answered
  <1>6. CASE ~Running(Slot(e)) /\ \A d \in Clusters : ~Knows(e, d)
    BY <1>6 DEF Served, Answered
  <1> QED
    BY <1>2, <1>3, <1>4, <1>5, <1>6, EditStep

(* An edit that waits for the server waited before, or is new.               *)
LEMMA SentStays ==
    ASSUME BaseInv, [Next]_<<vars, bound>>, NEW e \in Edits, NEW c \in Clusters, Sent(e, c)'
    PROVE  \/ Sent(e, c) /\ task'[Slot(e)] = task[Slot(e)]
           \/ e > edits /\ \A d \in Clusters : ~Knows(e, d)
  <1>1. Slot(e) \in Slots
    BY SlotIs
  <1>2. CASE task'[Slot(e)] = task[Slot(e)]
    BY <1>1, <1>2, RunsIs DEF Sent
  <1>3. CASE Serve(Slot(e))
    <2>1. PICK x : task' = [task EXCEPT ![Slot(e)] = x] /\ x.phase \in {"failed", "answered"}
      BY <1>1, <1>3, ServedTask
    <2>2. task'[Slot(e)] = x
      BY <1>1, <2>1, EditSlots DEF Slot
    <2> QED
      BY <2>1, <2>2 DEF Sent
  <1>4. CASE task'[Slot(e)] \in {Idle, Dead}
    BY <1>1, <1>4, RunsIs DEF Sent
  <1>5. CASE e > edits /\ \A d \in Clusters : ~Knows(e, d)
    BY <1>5
  <1> QED
    BY <1>2, <1>3, <1>4, <1>5, EditStep

LEMMA UntouchedBefore ==
    ASSUME BaseInv, [Next]_<<vars, bound>>, NEW nodes, NEW known, NEW c \in Clusters,
           Untouched(nodes, known, c)'
    PROVE  Untouched(nodes, known, c)
  <1>1. SUFFICES ASSUME NEW e \in Edits, Served(e, c), e \notin known
                 PROVE  Running(Slot(e)) /\ task[Slot(e)].op = "delete" /\ ~Has(nodes, task[Slot(e)].node)
    BY DEF Untouched
  <1>2. /\ Served(e, c)'
        /\ Running(Slot(e))' => /\ Running(Slot(e)) /\ task'[Slot(e)].op = task[Slot(e)].op
                                /\ task'[Slot(e)].node = task[Slot(e)].node
    BY <1>1, ServedStays
  <1>3. Running(Slot(e))' /\ task'[Slot(e)].op = "delete" /\ ~Has(nodes, task'[Slot(e)].node)
    BY <1>1, <1>2 DEF Untouched
  <1> QED
    BY <1>2, <1>3

(* What changes the nodes of a cluster for which there is no job: an edit    *)
(* that is carried out.                                                      *)
LEMMA ServerQuiet ==
    ASSUME BaseInv, [Next]_<<vars, bound>>, NEW c \in Clusters, NoJobs(c)
    PROVE  \/ server'[c].nodes = server[c].nodes /\ NoJobs(c)'
           \/ \E e \in Edits : /\ Sent(e, c) /\ Answered(e, c)' /\ task'[Slot(e)].op = task[Slot(e)].op
                               /\ task'[Slot(e)].node = task[Slot(e)].node
                               /\ ~Refused(task[Slot(e)].op, c, task[Slot(e)].node)
  <1>1. CASE UNCHANGED <<server, queue>>
    BY <1>1 DEF NoJobs
  <1>2. CASE Work
    BY <1>2, ServerWork
  <1>3. ASSUME NEW t \in Slots, Serve(t)
        PROVE  \/ server'[c].nodes = server[c].nodes /\ NoJobs(c)'
               \/ \E e \in Edits : /\ Sent(e, c) /\ Answered(e, c)' /\ task'[Slot(e)].op = task[Slot(e)].op
                                   /\ task'[Slot(e)].node = task[Slot(e)].node
                                   /\ ~Refused(task[Slot(e)].op, c, task[Slot(e)].node)
    <2> DEFINE k == task[t]
               h == Handled(k.op, server[k.to].nodes, k.to, k.node)
    <2>1. /\ CallOK(t, k) /\ k.phase = "sent" /\ k.op \in ReadOps \cup EditOps /\ k.to \in Clusters
          /\ k.op \in EditOps => k.node \in NodeNames
      BY <1>3, ServesKnown
    <2>2. CASE Refused(k.op, k.to, k.node)
      BY <1>3, <2>2 DEF Serve, NoJobs
    <2>3. CASE ~Refused(k.op, k.to, k.node)
      <3>1. /\ server' = [server EXCEPT ![k.to].nodes = h]
            /\ queue' = IF k.op \in EditOps THEN Append(queue, [op |-> k.op, to |-> k.to, node |-> k.node])
                                            ELSE queue
        BY <1>3, <2>3 DEF Serve
      <3>2. server[k.to].nodes \in Seq(Nodes)
        BY <2>1, RecordIs DEF BaseInv, ServerOK
      <3>3. h \in Seq(Nodes) /\ (k.op \in ReadOps => h = server[k.to].nodes)
        BY <2>1, <2>3, <3>2, HandledIs DEF Refused
      <3> HIDE DEF h
      <3>4. /\ \A d \in Clusters : server'[d].nodes = IF d = k.to THEN h ELSE server[d].nodes
        BY <2>1, <3>1, <3>3, NodesOfServer DEF BaseInv
      <3>5. CASE k.op \in ReadOps
        <4>1. queue' = queue
          BY <3>1, <3>5 DEF ReadOps, EditOps
        <4> QED
          BY <3>3, <3>4, <3>5, <4>1 DEF NoJobs
      <3>6. CASE k.op \in EditOps /\ k.to # c
        <4>1. queue \in Seq(Jobs)
          BY DEF BaseInv, ServerOK
        <4>2. NoJobs(c)'
          BY <3>1, <3>6, <4>1 DEF NoJobs
        <4> QED
          BY <3>4, <3>6, <4>2
      <3>7. CASE k.op \in EditOps /\ k.to = c
        <4>1. t[1] = "edit"
          BY <2>1, <3>7, OpsDiffer DEF CallOK, EditOps, PollOps
        <4>2. PICK e \in Edits : t = Slot(e)
          BY <4>1, SlotsAre DEF Slot
        <4>3. PICK x : /\ task' = [task EXCEPT ![t] = x] /\ CallOK(t, x) /\ x.phase = "answered"
                       /\ x.op = k.op /\ x.to = k.to /\ x.node = k.node
          BY <1>3, <2>3, ServedTask
        <4>4. task'[Slot(e)] = x
          BY <4>2, <4>3, EditSlots DEF Slot
        <4>5. x \notin {Idle, Dead}
          BY <3>7, <4>3 DEF Idle, Dead, EditOps
        <4>6. Answered(e, c)'
          BY <3>7, <4>2, <4>3, <4>4, <4>5, RunsIs DEF Answered
        <4>7. Sent(e, c)
          BY <1>3, <2>1, <3>7, <4>2 DEF Sent, Serve
        <4> QED
          BY <2>3, <3>7, <4>2, <4>3, <4>4, <4>6, <4>7
      <3> QED
        BY <2>1, <3>5, <3>6, <3>7
    <2> QED
      BY <2>2, <2>3
  <1>4. \/ UNCHANGED <<server, queue>> \/ Work \/ \E t \in Slots : Serve(t)
    BY DEF Next, vars, Open, Answer, Reject, Leave, Tick, SelectNode, ShowAddNode,
       AskToDelete, Cancel, SetDialog, ConfirmDelete, Update, Add, SendEdit
  <1> QED
    BY <1>1, <1>2, <1>3, <1>4

(* The step every list goes through.                                         *)
LEMMA CurrentKept ==
    ASSUME BaseInv, [Next]_<<vars, bound>>, NEW nodes, NEW known, NEW c \in Clusters,
           Current(nodes, known, c), \A e \in Edits : Sent(e, c) => e \notin known
    PROVE  Current(nodes, known, c)'
  <1>1. SUFFICES ASSUME ~AnyLock(nodes), Untouched(nodes, known, c)'
                 PROVE  nodes = server'[c].nodes /\ NoJobs(c)'
    BY DEF Current, AnyLock
  <1>2. nodes = server[c].nodes /\ NoJobs(c)
    BY <1>1, UntouchedBefore DEF Current
  <1>3. ASSUME NEW e \in Edits, Sent(e, c), Answered(e, c)', task'[Slot(e)].op = task[Slot(e)].op,
               task'[Slot(e)].node = task[Slot(e)].node, ~Refused(task[Slot(e)].op, c, task[Slot(e)].node)
        PROVE  FALSE
    <2>1. e \notin known /\ Served(e, c)'
      BY <1>3 DEF Served
    <2>2. task'[Slot(e)].op = "delete" /\ ~Has(nodes, task'[Slot(e)].node)
      BY <1>1, <2>1 DEF Untouched
    <2> QED
      BY <1>2, <1>3, <2>2 DEF Refused
  <1> QED
    BY <1>2, <1>3, ServerQuiet
-----------------------------------------------------------------------------
Reads(t) == Running(t) /\ task[t].op \in ReadOps /\ task[t].phase = "answered"

\* What a call brings back: a list, and the edits it takes account of.
ReadInv(t) ==
    LET k == task[t]
    IN  Reads(t) =>
          /\ ~k.answer.hidden => Current(k.answer.cluster.nodes, k.answer.known, k.to)
          /\ k.answer.known \subseteq 1..edits
          /\ \A e \in Edits : Sent(e, k.to) => e \notin k.answer.known

\* The list in the store, unless it was out of date when it was put there.
ShownInv ==
    ~crossed /\ shown.name # None =>
        /\ Current(shown.nodes, ToldOf(shown.name), shown.name)
        /\ \A e \in Edits : Sent(e, shown.name) /\ Knows(e, shown.name) => AnyLock(shown.nodes)

\* The store shows the lock of a change before the server sets it.
ChangesTold ==
    \A e \in Edits : Running(Slot(e)) /\ task[Slot(e)].op = "change" => Knows(e, task[Slot(e)].to)

NameIsPages == page # None /\ ~crossed => shown.name = page \/ Running(<<"load", visit>>)

Inv == /\ BaseInv
       /\ \A t \in Slots : ReadInv(t)
       /\ ShownInv /\ ChangesTold /\ NameIsPages

LEMMA CurrentWeaker ==
    ASSUME NEW nodes, NEW known, NEW more, NEW c, known \subseteq more
    PROVE  Current(nodes, more, c) => Current(nodes, known, c)
  BY DEF Current, Untouched

LEMMA ReadTyped ==
    ASSUME BaseInv, NEW t \in Slots, Reads(t)
    PROVE  /\ CallOK(t, task[t]) /\ task[t].to \in Clusters
           /\ task[t].answer.cluster.nodes \in Seq(Nodes) /\ t[1] # "edit"
  <1>1. CallOK(t, task[t]) /\ task[t].op \in ReadOps /\ task[t].phase = "answered"
    BY DEF Reads, BaseInv, TasksOK
  <1>2. task[t].answer \in Answers /\ task[t].to \in Clusters
    BY <1>1 DEF CallOK, Calls
  <1>3. t[1] # "edit"
    BY <1>1, OpsDiffer DEF CallOK, EditOps, ReadOps
  <1> QED
    BY <1>1, <1>2, <1>3 DEF Answers, Records

(* Where the answer of a call for a list comes from.                         *)
LEMMA ReadStep ==
    ASSUME BaseInv, [Next]_<<vars, bound>>, NEW t \in Slots, Reads(t)'
    PROVE  \/ Reads(t) /\ task'[t] = task[t]
           \/ Serve(t) /\ task[t].op \in ReadOps
  <1>1. task'[t] \notin {Idle, Dead} /\ task'[t].op \in ReadOps /\ task'[t].phase = "answered"
    BY RunsIs DEF Reads
  <1>2. CASE task'[t] = task[t]
    BY <1>1, <1>2, RunsIs DEF Reads
  <1>3. ASSUME NEW u \in Slots, NEW x, task' = [task EXCEPT ![u] = x], task'[t] # task[t]
        PROVE  u = t /\ task'[t] = x
    BY <1>3 DEF BaseInv, TasksOK
  <1>4. CASE task'[t] # task[t] /\ \E c \in Clusters : Open(c)
    BY <1>1, <1>3, <1>4, OpenTask
  <1>5. CASE task'[t] # task[t] /\ Tick
    BY <1>1, <1>3, <1>5, TickTask DEF Idle, PollOps, ReadOps
  <1>6. ASSUME task'[t] # task[t], NEW u \in Slots, Serve(u)
        PROVE  Serve(t) /\ task[t].op \in ReadOps
    <2>1. PICK x : task' = [task EXCEPT ![u] = x] /\ x.op = task[u].op
      BY <1>6, ServedTask
    <2> QED
      BY <1>1, <1>3, <1>6, <2>1
  <1>7. ASSUME task'[t] # task[t], NEW u \in Slots, Answer(u)
        PROVE  FALSE
    <2>1. PICK x : /\ task' = [task EXCEPT ![u] = x]
                   /\ x = Idle \/ (x.op \in PollOps /\ (x.op = "nodes" => x.phase = "sent"))
      BY <1>7, AnsweredTask
    <2>2. task'[t] = x
      BY <1>3, <1>7, <2>1
    <2> QED
      BY <1>1, <2>1, <2>2 DEF PollOps, ReadOps
  <1>8. ASSUME task'[t] # task[t], NEW u \in Slots, Reject(u)
        PROVE  FALSE
    <2>1. PICK x \in {Idle, Dead} : task' = [task EXCEPT ![u] = x]
      BY <1>8 DEF Reject
    <2> QED
      BY <1>1, <1>3, <1>8, <2>1
  <1>9. CASE task'[t] # task[t] /\ (ConfirmDelete \/ Update \/ Add)
    <2>1. PICK op \in EditOps, n \in NodeNames : SendEdit(op, n) /\ dialog.kind # "none"
      BY <1>9, SendsEdit
    <2>2. PICK x : /\ <<"edit", edits + 1>> \in Slots /\ task' = [task EXCEPT ![<<"edit", edits + 1>>] = x]
                   /\ x.phase = "sent"
      BY <2>1, EditTask
    <2> QED
      BY <1>1, <1>3, <1>9, <2>2
  <1> QED
    BY <1>2, <1>4, <1>5, <1>6, <1>7, <1>8, <1>9 DEF Next, vars, Leave, Work, SelectNode, ShowAddNode,
       AskToDelete, Cancel, SetDialog

LEMMA EditsGrow ==
    ASSUME BaseInv, [Next]_<<vars, bound>>
    PROVE  edits \in Nat /\ edits' \in {edits, edits + 1}
  <1>1. edits \in Nat
    BY BoundIs DEF BaseInv, CountOK
  <1> QED
    BY <1>1 DEF Next, vars, Open, Serve, Answer, Reject, Leave, Tick, Work, SelectNode, ShowAddNode,
       AskToDelete, Cancel, SetDialog, ConfirmDelete, Update, Add, SendEdit

LEMMA ReadKept ==
    ASSUME BaseInv, [Next]_<<vars, bound>>, NEW t \in Slots, ReadInv(t)
    PROVE  ReadInv(t)'
  <1> SUFFICES ASSUME Reads(t)'
               PROVE  /\ ~task'[t].answer.hidden =>
                           Current(task[t].answer.cluster.nodes, task[t].answer.known, task[t].to)'
                      /\ task'[t].answer.known \subseteq 1..edits'
                      /\ \A e \in Edits : Sent(e, task[t].to)' => e \notin task'[t].answer.known
    BY DEF ReadInv
  <1>0. edits \in Nat /\ edits' \in {edits, edits + 1} /\ Edits \subseteq Nat
    BY EditsGrow, VisitsAndEdits
  <1>1. CASE Reads(t) /\ task'[t] = task[t]
    <2> DEFINE k == task[t]
    <2>1. PICK c \in Clusters : c = k.to
      BY <1>1, ReadTyped
    <2>2. PICK l \in Seq(Nodes) : l = k.answer.cluster.nodes
      BY <1>1, ReadTyped
    <2>3. PICK known \in SUBSET (1..edits) : known = k.answer.known
      BY <1>1 DEF ReadInv
    <2>4. \A e \in Edits : Sent(e, c) => e \notin known
      BY <1>1, <2>1, <2>3 DEF ReadInv
    <2>5. ~k.answer.hidden => Current(l, known, c)
      BY <1>1, <2>1, <2>2, <2>3 DEF ReadInv
    <2>6. ~k.answer.hidden => Current(l, known, c)'
      BY <2>4, <2>5, CurrentKept
    <2>7. \A e \in Edits : Sent(e, c)' => e \notin known
      BY <1>0, <2>3, <2>4, SentStays
    <2>8. known \subseteq 1..edits'
      BY <1>0, <2>3
    <2>9. c = task'[t].to /\ l = task'[t].answer.cluster.nodes /\ known = task'[t].answer.known
      BY <1>1, <2>1, <2>2, <2>3
    <2>10. ~task'[t].answer.hidden => Current(task[t].answer.cluster.nodes, task[t].answer.known, task[t].to)'
      BY <1>1, <2>6, <2>9
    <2> QED
      BY <2>7, <2>8, <2>9, <2>10
  <1>2. CASE Serve(t) /\ task[t].op \in ReadOps
    <2> DEFINE k == task[t]
    <2>1. /\ k.to \in Clusters /\ k.phase = "sent"
      BY <1>2, ServesKnown
    <2>2. ~Refused(k.op, k.to, k.node) /\ k.op \notin EditOps
      BY <1>2 DEF Refused, ReadOps, EditOps
    <2>3. PICK x : /\ task' = [task EXCEPT ![t] = x] /\ x.to = k.to
                   /\ x.answer = [cluster |-> server[k.to], known |-> Known(k.to), hidden |-> Hidden(k.to)]
      BY <1>2, <2>2, ServedTask
    <2>4. task'[t] = x
      BY <2>3 DEF BaseInv, TasksOK
    <2>5. PICK c \in Clusters : c = k.to
      BY <2>1
    <2>6. server[c].nodes \in Seq(Nodes)
      BY RecordIs DEF BaseInv, ServerOK
    <2>7. PICK l \in Seq(Nodes) : l = server[c].nodes
      BY <2>6
    <2>8. Known(c) \subseteq 1..edits
      BY KnownIs DEF BaseInv
    <2>9. PICK known \in SUBSET (1..edits) : known = Known(c)
      BY <2>8
    <2>10. c = task'[t].to /\ l = task'[t].answer.cluster.nodes /\ known = task'[t].answer.known
           /\ task'[t].answer.hidden = Hidden(c)
      BY <2>3, <2>4, <2>5, <2>7, <2>9
    <2>11. \A e \in Edits : Sent(e, c) => e \notin known
      <3> SUFFICES ASSUME NEW e \in Edits, Sent(e, c), e \in known
                   PROVE  FALSE
        OBVIOUS
      <3>1. task[Slot(e)] # Idle /\ task[Slot(e)].to = c /\ task[Slot(e)].phase = "sent"
        BY SlotIs, RunsIs DEF Sent
      <3> QED
        BY <2>9, <3>1 DEF Known, Slot
    <2>12. \A e \in Edits : Sent(e, c)' => e \notin known
      BY <1>0, <2>9, <2>11, SentStays
    <2>13. ~Hidden(c) => Current(l, known, c)'
      <3> SUFFICES ASSUME ~Hidden(c), ~AnyLock(l)
                   PROVE  l = server'[c].nodes /\ NoJobs(c)'
        BY DEF Current, AnyLock
      <3>1. NoJobs(c)
        BY <2>7 DEF Hidden, AnyLock, NoJobs
      <3>2. queue' = queue
        BY <1>2, <2>2 DEF Serve
      <3>3. \A e \in Edits : Slot(e) = t => FALSE
        <4>1. t[1] # "edit"
          BY <1>2, ServesKnown, OpsDiffer DEF CallOK, EditOps, ReadOps
        <4> QED
          BY <4>1, SlotIs
      <3>4. \/ server'[c].nodes = server[c].nodes /\ NoJobs(c)'
            \/ \E e \in Edits : Sent(e, c) /\ Answered(e, c)'
        BY <3>1, ServerQuiet
      <3>5. \A e \in Edits : ~(Sent(e, c) /\ Answered(e, c)')
        <4> SUFFICES ASSUME NEW e \in Edits, Sent(e, c), Answered(e, c)'
                     PROVE  FALSE
          OBVIOUS
        <4>1. task'[Slot(e)] = task[Slot(e)]
          BY <2>3, <3>3, EditSlots DEF Slot
        <4> QED
          BY <4>1 DEF Sent, Answered
      <3> QED
        BY <2>7, <3>4, <3>5
    <2>14. ~task'[t].answer.hidden => Current(task[t].answer.cluster.nodes, task[t].answer.known, task[t].to)'
      BY <2>10, <2>13
    <2>15. known \subseteq 1..edits'
      BY <1>0
    <2> QED
      BY <2>10, <2>12, <2>14, <2>15
  <1> QED
    BY <1>1, <1>2, ReadStep

LEMMA KnowsOld ==
    ASSUME BaseInv, NEW e, NEW c, Knows(e, c)
    PROVE  e <= edits
  <1>1. edits \in Nat
    BY BoundIs DEF BaseInv, CountOK
  <1>2. [edit |-> e, to |-> c] \in [edit : 1..edits, to : Clusters]
    BY DEF BaseInv, CountOK, Knows
  <1>3. e \in 1..edits
    BY <1>2
  <1> QED
    BY <1>1, <1>3

(* What an answer tells the store of the edits.                              *)
LEMMA ToldIs ==
    ASSUME NEW t \in Slots, Answer(t)
    PROVE  /\ t[1] # "edit" => told' = told
           /\ \A e \in Edits, c \in Clusters :
                Knows(e, c)' => Knows(e, c) \/ (t = Slot(e) /\ task[t].to = c)
  <1>1. told' = IF t[1] = "edit" THEN told \cup {Told(t)} ELSE told
    BY DEF Answer
  <1>2. \A e \in Edits, c \in Clusters :
          t[1] = "edit" /\ [edit |-> e, to |-> c] = Told(t) => t = Slot(e) /\ task[t].to = c
    BY SlotIs DEF Told
  <1> QED
    BY <1>1, <1>2 DEF Knows

(* The list in the store after a step, when it was current before, and what  *)
(* the store knows then was accounted for.                                   *)
LEMMA ShownStays ==
    ASSUME BaseInv, [Next]_<<vars, bound>>, NEW c \in Clusters, NEW l, NEW known \in SUBSET Edits,
           Current(l, known, c), \A e \in known : e <= edits,
           \A e \in Edits : Sent(e, c) => e \notin known,
           shown'.name = c, shown'.nodes = l, \A e \in Edits : Knows(e, c)' => e \in known
    PROVE  ShownInv'
  <1>1. Current(l, known, c)'
    BY CurrentKept
  <1>2. Untouched(l, ToldOf(c), c)' => Untouched(l, known, c)'
    <2>1. \A e \in Edits : e \notin known => e \notin ToldOf(c)'
      BY DEF ToldOf
    <2> QED
      BY <2>1 DEF Untouched
  <1>3. Current(l, ToldOf(c), c)'
    BY <1>1, <1>2 DEF Current
  <1>4. ASSUME NEW e \in Edits, Sent(e, c)', Knows(e, c)'
        PROVE  FALSE
    <2>1. e \in known
      BY <1>4
    <2>2. e <= edits /\ e \in Nat /\ edits \in Nat
      BY <2>1, VisitsAndEdits, EditsGrow
    <2> QED
      BY <1>4, <2>1, <2>2, SentStays
  <1>5. Current(shown.nodes, ToldOf(shown.name), shown.name)'
    BY <1>3
  <1>6. \A e \in Edits : ~(Sent(e, shown.name)' /\ Knows(e, shown.name)')
    BY <1>4
  <1> QED
    BY <1>5, <1>6 DEF ShownInv

(* A lock that is shown says enough.                                         *)
LEMMA ShownLocked ==
    ASSUME AnyLock(shown.nodes)'
    PROVE  ShownInv'
  BY DEF ShownInv, Current

(* The store is left alone, and learns of no edit to its cluster.            *)
LEMMA ShownLeft ==
    ASSUME BaseInv, [Next]_<<vars, bound>>, ShownInv, ~crossed, shown.name # None,
           shown'.name = shown.name, shown'.nodes = shown.nodes,
           \A e \in Edits : Knows(e, shown.name)' => Knows(e, shown.name)
    PROVE  ShownInv'
  <1>1. CASE AnyLock(shown.nodes)
    <2>1. AnyLock(shown'.nodes)
      BY <1>1
    <2> QED
      BY <2>1, ShownLocked DEF AnyLock
  <1>2. CASE ~AnyLock(shown.nodes)
    <2>1. PICK c \in Clusters : c = shown.name
      BY ViewIs DEF BaseInv, PageOK
    <2>2. PICK l : l = shown.nodes
      OBVIOUS
    <2>3. PICK known \in SUBSET Edits : known = ToldOf(c)
      BY DEF ToldOf
    <2>4. \A e \in Edits : e \in known <=> Knows(e, c)
      BY <2>3 DEF ToldOf
    <2>5. Current(l, known, c)
      BY <2>1, <2>2, <2>3 DEF ShownInv
    <2>6. \A e \in Edits : Sent(e, c) => e \notin known
      BY <1>2, <2>1, <2>4 DEF ShownInv
    <2>7. \A e \in known : e <= edits
      BY <2>4, KnowsOld
    <2>8. \A e \in Edits : Knows(e, c)' => e \in known
      BY <2>1, <2>4
    <2>9. shown'.name = c /\ shown'.nodes = l
      BY <2>1, <2>2
    <2> QED
      BY <2>5, <2>6, <2>7, <2>8, <2>9, ShownStays
  <1> QED
    BY <1>1, <1>2

(* The answer to a call for a list.                                          *)
LEMMA ShownRead ==
    ASSUME BaseInv, [Next]_<<vars, bound>>, NEW t \in Slots, Answer(t), task[t].op \in ReadOps, ReadInv(t),
           ~crossed'
    PROVE  shown'.name = page /\ ShownInv'
  <1> DEFINE k == task[t]
  <1>1. Reads(t) /\ CallOK(t, k) /\ k.phase = "answered"
    BY AnsweredTask DEF Reads, Answer
  <1>2. k.to \in Clusters /\ k.answer.cluster.nodes \in Seq(Nodes) /\ t[1] # "edit"
    BY <1>1, ReadTyped
  <1>3. shown' = Applied(k, shown) /\ crossed' = OutOfDate(k)
    BY DEF Answer, ReadOps
  <1>4. /\ k.to = page /\ (k.op = "nodes" => k.to = shown.name) /\ ~k.answer.hidden
        /\ \A d \in told : d.to = k.to => d.edit \in k.answer.known
    BY <1>3 DEF OutOfDate
  <1>5. shown'.nodes = k.answer.cluster.nodes /\ shown'.name = k.to
    BY <1>1, <1>3, <1>4, AppliedIs DEF BaseInv, PageOK, ReadOps
  <1>6. PICK c \in Clusters : c = k.to
    BY <1>2
  <1>7. PICK l : l = k.answer.cluster.nodes
    OBVIOUS
  <1>8. PICK known \in SUBSET Edits : known = k.answer.known
    BY <1>1 DEF CallOK, Answers, ReadOps
  <1>9. Current(l, known, c) /\ known \subseteq 1..edits /\ \A e \in Edits : Sent(e, c) => e \notin known
    BY <1>1, <1>4, <1>6, <1>7, <1>8 DEF ReadInv
  <1>10. \A e \in known : e <= edits
    BY <1>9, EditsGrow
  <1>11. \A e \in Edits : Knows(e, c)' => e \in known
    <2>1. told' = told
      BY <1>2, ToldIs
    <2> QED
      BY <1>4, <1>6, <1>8, <2>1 DEF Knows
  <1>12. shown'.name = c /\ shown'.nodes = l
    BY <1>5, <1>6, <1>7
  <1>13. ShownInv'
    BY <1>9, <1>10, <1>11, <1>12, ShownStays
  <1> QED
    BY <1>4, <1>5, <1>13

(* The answer to a deletion of what is not in the list.                      *)
LEMMA ShownDelete ==
    ASSUME BaseInv, [Next]_<<vars, bound>>, NEW t \in Slots, Answer(t), task[t].op = "delete",
           ShownInv, ~crossed, shown.name # None, ~Has(shown.nodes, task[t].node), shown' = shown,
           ~AnyLock(shown.nodes)
    PROVE  ShownInv'
  <1>1. t[1] = "edit" /\ task[t].phase = "answered" /\ Running(t)
    BY AnsweredTask, OpsDiffer DEF CallOK, PollOps, Answer
  <1>2. PICK f \in Edits : t = Slot(f)
    BY <1>1, SlotsAre DEF Slot
  <1>3. PICK c \in Clusters : c = shown.name
    BY ViewIs DEF BaseInv, PageOK
  <1>4. CASE task[t].to # c
    BY <1>3, <1>4, ToldIs, ShownLeft
  <1>5. CASE task[t].to = c
    <2>1. PICK l : l = shown.nodes
      OBVIOUS
    <2>2. PICK known \in SUBSET Edits : known = ToldOf(c) \cup {f}
      BY <1>2 DEF ToldOf
    <2>3. \A e \in Edits : e \in known <=> Knows(e, c) \/ e = f
      BY <2>2 DEF ToldOf
    <2>4. Untouched(l, known, c) => Untouched(l, ToldOf(c), c)
      <3> SUFFICES ASSUME Untouched(l, known, c), NEW e \in Edits, Served(e, c), e \notin ToldOf(c)
                   PROVE  Running(Slot(e)) /\ task[Slot(e)].op = "delete" /\ ~Has(l, task[Slot(e)].node)
        BY DEF Untouched
      <3>1. CASE e = f
        BY <1>1, <1>2, <2>1, <3>1
      <3>2. CASE e # f
        BY <2>2, <3>2 DEF Untouched
      <3> QED
        BY <3>1, <3>2
    <2>5. Current(l, known, c)
      BY <1>3, <2>1, <2>4 DEF ShownInv, Current
    <2>6. \A e \in Edits : Sent(e, c) => e \notin known
      BY <1>1, <1>2, <1>3, <2>3 DEF ShownInv, Sent
    <2>7. \A e \in known : e <= edits
      <3>1. f <= edits
        BY <1>1, <1>2 DEF BaseInv, CountOK, Slot
      <3> QED
        BY <2>3, <3>1, KnowsOld
    <2>8. \A e \in Edits : Knows(e, c)' => e \in known
      BY <1>2, <2>3, ToldIs, SlotIs
    <2>9. shown'.name = c /\ shown'.nodes = l
      BY <1>3, <2>1
    <2> QED
      BY <2>5, <2>6, <2>7, <2>8, <2>9, ShownStays
  <1> QED
    BY <1>4, <1>5

LEMMA ShownStep ==
    ASSUME Inv, [Next]_<<vars, bound>>
    PROVE  ShownInv'
  <1> USE DEF Inv
  <1> SUFFICES ASSUME ~crossed', shown'.name # None, ~AnyLock(shown.nodes)'
               PROVE  ShownInv'
    BY DEF ShownInv, Current
  <1>1. ASSUME ~crossed, shown'.name = shown.name, shown'.nodes = shown.nodes,
               \A e \in Edits, c \in Clusters : Knows(e, c)' => Knows(e, c)
        PROVE  ShownInv'
    <2>1. shown.name # None /\ shown.name \in Clusters
      BY <1>1, ViewIs DEF PageOK, BaseInv
    <2> QED
      BY <1>1, <2>1, ShownLeft
  <1>2. CASE UNCHANGED <<shown, told, crossed>>
    BY <1>1, <1>2 DEF Knows
  <1>3. ASSUME NEW t \in Slots, Reject(t)
        PROVE  ShownInv'
    <2>1. shown' = shown /\ told' \subseteq told /\ ~crossed
      BY <1>3 DEF Reject
    <2> QED
      BY <1>1, <2>1 DEF Knows
  <1>4. CASE Update
    <2> DEFINE n == NodeShown(dialog.vm).name
               l == RelockFirst(shown.nodes, n, "ChangeResources")
    <2>1. /\ shown' = [shown EXCEPT !.nodes = l] /\ dialog.kind = "edit"
      BY <1>4 DEF Update
    <2>2. dialog.vm # None /\ shown \in Views /\ shown.nodes \in Seq(Nodes)
      BY <2>1, ViewIs DEF PageOK, BaseInv
    <2>3. Has(shown.nodes, n)
      BY <2>2, ShownNode DEF BaseInv
    <2>4. "ChangeResources" \in Locks /\ "ChangeResources" # None
      BY InitialAssumption DEF Locks, Marks
    <2> HIDE DEF n
    <2>5. l \in Seq(Nodes) /\ AnyLock(l)
      BY <2>2, <2>3, <2>4, RelockFirstIs
    <2> HIDE DEF l
    <2>6. shown'.nodes = l
      BY <2>1, <2>2, <2>5, ViewWith
    <2> QED
      BY <2>5, <2>6
  <1>5. ASSUME NEW t \in Slots, Answer(t)
        PROVE  ShownInv'
    <2> DEFINE k == task[t]
    <2>1. CallOK(t, k) /\ k.phase = "answered" /\ shown' = Applied(k, shown) /\ shown \in Views
      BY <1>5, AnsweredTask DEF Answer, BaseInv, PageOK
    <2>2. k.op \in {"load", "statuses", "nodes", "add", "delete", "change"}
      BY <2>1 DEF CallOK, Calls, PollOps, EditOps
    <2>3. CASE k.op \in ReadOps
      BY <1>5, <2>3, ShownRead
    <2>4. CASE k.op = "add"
      BY <2>1, <2>4, AppliedIs
    <2>5. CASE k.op \notin ReadOps
      <3>1. shown'.name = shown.name /\ shown.name # None /\ ~crossed
        <4>1. k.op # "load"
          BY <2>5 DEF ReadOps
        <4>2. shown'.name = shown.name
          BY <2>1, <4>1, AppliedIs
        <4>3. crossed' = crossed
          BY <1>5, <2>5 DEF Answer, ReadOps
        <4> QED
          BY <4>2, <4>3
      <3>2. CASE k.op = "delete"
        <4>1. ~Has(shown.nodes, k.node) /\ shown' = shown
          BY <2>1, <3>2, AppliedIs
        <4> QED
          BY <1>5, <3>1, <3>2, <4>1, ShownDelete
      <3>3. CASE k.op \in {"statuses", "change"}
        <4>1. shown' = shown
          BY <2>1, <3>3, AppliedIs
        <4>2. \A e \in Edits, c \in Clusters : Knows(e, c)' => Knows(e, c)
          <5>1. CASE t[1] # "edit"
            BY <1>5, <5>1, ToldIs DEF Knows
          <5>2. CASE t[1] = "edit"
            <6>1. k.op = "change"
              BY <2>1, <3>3, <5>2, OpsDiffer DEF CallOK, EditOps
            <6>2. \A e \in Edits : t = Slot(e) => Knows(e, k.to)
              BY <1>5, <6>1 DEF ChangesTold, Answer
            <6> QED
              BY <1>5, <6>2, ToldIs
          <5> QED
            BY <5>1, <5>2
        <4> QED
          BY <1>1, <3>1, <4>1, <4>2
      <3> QED
        BY <2>2, <2>4, <2>5, <3>2, <3>3 DEF ReadOps
    <2> QED
      BY <2>3, <2>5
  <1> QED
    BY <1>2, <1>3, <1>4, <1>5 DEF Next, vars, Open, Serve, Leave, Tick, Work, SelectNode, ShowAddNode,
       AskToDelete, Cancel, SetDialog, ConfirmDelete, Add, SendEdit

LEMMA ChangesStep ==
    ASSUME Inv, [Next]_<<vars, bound>>
    PROVE  ChangesTold'
  <1> SUFFICES ASSUME NEW e \in Edits, Running(Slot(e))', task'[Slot(e)].op = "change"
               PROVE  Knows(e, task[Slot(e)].to)'
    BY DEF ChangesTold
  <1>0. Slot(e) \in Slots /\ task'[Slot(e)] \notin {Idle, Dead} /\ BaseInv
    BY SlotIs, RunsIs DEF Inv
  <1>1. CASE /\ task'[Slot(e)] = task[Slot(e)]
             /\ \A c \in Clusters : Knows(e, c)' <=> Knows(e, c)
    <2>1. Running(Slot(e)) /\ task[Slot(e)].to \in Clusters
      BY <1>0, <1>1, RunsIs DEF BaseInv, TasksOK, CallOK, Calls
    <2>2. PICK c \in Clusters : c = task[Slot(e)].to
      BY <2>1
    <2>3. Knows(e, c)
      BY <1>1, <2>1, <2>2 DEF ChangesTold, Inv
    <2>4. Knows(e, c)' /\ c = task'[Slot(e)].to
      BY <1>1, <2>2, <2>3
    <2> QED
      BY <2>4
  <1>2. CASE Serve(Slot(e)) /\ UNCHANGED told
    <2>1. PICK x : /\ task' = [task EXCEPT ![Slot(e)] = x]
                   /\ x.op = task[Slot(e)].op /\ x.to = task[Slot(e)].to
      BY <1>0, <1>2, ServedTask
    <2>2. task'[Slot(e)] = x
      BY <1>0, <2>1, EditSlots DEF Slot
    <2>3. Running(Slot(e))
      BY <1>2 DEF Serve
    <2>4. Knows(e, task[Slot(e)].to) /\ task'[Slot(e)].to = task[Slot(e)].to
      BY <2>1, <2>2, <2>3 DEF ChangesTold, Inv
    <2> QED
      BY <1>2, <2>4 DEF Knows
  <1>3. CASE e = edits + 1 /\ edits' = edits + 1
    <2>1. edits' # edits
      BY <1>0, <1>3, EditsGrow
    <2>2. ConfirmDelete \/ Update \/ Add
      BY <2>1 DEF Next, vars, Open, Serve, Answer, Reject, Leave, Tick, Work, SelectNode, ShowAddNode,
         AskToDelete, Cancel, SetDialog
    <2>3. PICK op \in EditOps, n \in NodeNames : SendEdit(op, n) /\ dialog.kind # "none" /\ (Update <=> op = "change")
      BY <1>0, <2>2, SendsEdit
    <2>4. PICK x : /\ <<"edit", edits + 1>> \in Slots /\ task' = [task EXCEPT ![<<"edit", edits + 1>>] = x]
                   /\ x.op = op /\ x.to = shown.name
      BY <1>0, <2>3, EditTask
    <2>5. task'[Slot(e)] = x
      BY <1>0, <1>3, <2>4, EditSlots DEF Slot
    <2>6. Update
      BY <2>3, <2>4, <2>5
    <2>7. [edit |-> e, to |-> shown.name] \in told'
      BY <1>3, <2>6 DEF Update
    <2> QED
      BY <2>4, <2>5, <2>7 DEF Knows
  <1> QED
    BY <1>0, <1>1, <1>2, <1>3, EditStep

(* The slot of the call that the page waits for.                             *)
LEMMA NamesStep ==
    ASSUME Inv, [Next]_<<vars, bound>>
    PROVE  NameIsPages'
  <1> SUFFICES ASSUME page' # None, ~crossed'
               PROVE  shown'.name = page' \/ Running(<<"load", visit>>)'
    BY DEF NameIsPages
  <1>0. /\ BaseInv /\ DOMAIN task = Slots
        /\ page # None => <<"load", visit>> \in Slots
    <2>1. BaseInv
      BY DEF Inv
    <2>2. page # None => visit \in Visits
      BY <2>1, BoundIs DEF BaseInv, PageOK, CountOK
    <2> QED
      BY <2>1, <2>2, SlotsAre DEF BaseInv, TasksOK
  <1>1. ASSUME ~crossed, shown'.name = shown.name, page' = page, visit' = visit, NEW t \in Slots, NEW x,
               task' = [task EXCEPT ![t] = x], t # <<"load", visit>> \/ x \notin {Idle, Dead}
        PROVE  shown'.name = page' \/ Running(<<"load", visit>>)'
    <2>1. shown.name = page \/ Running(<<"load", visit>>)
      BY <1>1 DEF Inv, NameIsPages
    <2>2. PICK u \in Slots : u = <<"load", visit>>
      BY <1>0, <1>1
    <2>3. task'[u] = IF t = u THEN x ELSE task[u]
      BY <1>0, <1>1
    <2>4. Running(u) => Running(u)'
      BY <1>1, <2>2, <2>3, RunsIs
    <2>5. u = <<"load", visit'>>
      BY <1>1, <2>2
    <2> QED
      BY <1>1, <2>1, <2>2, <2>4, <2>5
  <1>2. CASE UNCHANGED <<task, page, visit, crossed>> /\ shown'.name = shown.name
    BY <1>2 DEF Inv, NameIsPages, Running
  <1>3. ASSUME NEW c \in Clusters, Open(c)
        PROVE  Running(<<"load", visit>>)'
    <2>1. PICK x : /\ <<"load", visit + 1>> \in Slots /\ task' = [task EXCEPT ![<<"load", visit + 1>>] = x]
                   /\ x \notin {Idle, Dead}
      BY <1>0, <1>3, OpenTask
    <2>2. visit' = visit + 1
      BY <1>3 DEF Open
    <2>3. task'[<<"load", visit + 1>>] = x
      BY <1>0, <2>1
    <2> QED
      BY <2>1, <2>2, <2>3 DEF Running
  <1>4. CASE Tick
    <2>1. PICK x : <<"poll", visit>> \in Slots /\ task' = [task EXCEPT ![<<"poll", visit>>] = x]
      BY <1>0, <1>4, TickTask
    <2>2. UNCHANGED <<shown, page, visit, crossed>>
      BY <1>4 DEF Tick
    <2>3. PICK u \in Slots : u = <<"poll", visit>>
      BY <2>1
    <2>4. u # <<"load", visit>>
      BY <2>3
    <2> QED
      BY <1>1, <2>1, <2>2, <2>3, <2>4
  <1>5. ASSUME NEW t \in Slots, Serve(t)
        PROVE  shown'.name = page' \/ Running(<<"load", visit>>)'
    <2>1. PICK x : task' = [task EXCEPT ![t] = x] /\ x.op = task[t].op /\ CallOK(t, x)
      BY <1>0, <1>5, ServedTask
    <2>2. UNCHANGED <<shown, page, visit, crossed>>
      BY <1>5 DEF Serve
    <2>3. x.op \in {"load"} \cup PollOps \cup EditOps
      BY <2>1 DEF CallOK, Calls
    <2>4. x \notin {Idle, Dead}
      BY <2>3 DEF Idle, Dead, PollOps, EditOps
    <2> QED
      BY <1>1, <2>1, <2>2, <2>4
  <1>6. ASSUME NEW t \in Slots, Answer(t)
        PROVE  shown'.name = page' \/ Running(<<"load", visit>>)'
    <2>1. CASE task[t].op \in ReadOps
      <3>1. shown'.name = page /\ page' = page
        BY <1>0, <1>6, <2>1, ShownRead DEF Inv, Answer
      <3> QED
        BY <3>1
    <2>2. CASE task[t].op \notin ReadOps
      <3>1. CallOK(t, task[t]) /\ task[t].phase = "answered"
        BY <1>0, <1>6, AnsweredTask
      <3>2. PICK x : task' = [task EXCEPT ![t] = x]
        BY <1>0, <1>6, AnsweredTask
      <3>3. UNCHANGED <<page, visit, crossed>> /\ shown' = Applied(task[t], shown)
        BY <1>6, <2>2 DEF Answer, ReadOps
      <3>4. shown'.name = shown.name
        BY <1>0, <2>2, <3>1, <3>3, AppliedIs DEF ReadOps, BaseInv, PageOK
      <3>5. t[1] # "load"
        BY <2>2, <3>1, OpsDiffer DEF CallOK, ReadOps
      <3>6. t # <<"load", visit>>
        BY <3>5
      <3> QED
        BY <1>1, <3>2, <3>3, <3>4, <3>6
    <2> QED
      BY <2>1, <2>2
  <1>7. ASSUME NEW t \in Slots, Reject(t)
        PROVE  shown'.name = page' \/ Running(<<"load", visit>>)'
    <2>1. PICK x : task' = [task EXCEPT ![t] = x]
      BY <1>7 DEF Reject
    <2>2. UNCHANGED <<shown, visit, page>> /\ ~crossed /\ task[t].op # "load"
      BY <1>7 DEF Reject
    <2>3. CallOK(t, task[t])
      BY <1>0, <1>7 DEF Reject, BaseInv, TasksOK
    <2>4. t[1] # "load"
      BY <2>2, <2>3, OpsDiffer DEF CallOK
    <2>5. t # <<"load", visit>>
      BY <2>4
    <2> QED
      BY <1>1, <2>1, <2>2, <2>5
  <1>8. CASE ConfirmDelete \/ Update \/ Add
    <2>1. PICK op \in EditOps, n \in NodeNames : SendEdit(op, n) /\ dialog.kind # "none"
      BY <1>0, <1>8, SendsEdit
    <2>2. PICK x : <<"edit", edits + 1>> \in Slots /\ task' = [task EXCEPT ![<<"edit", edits + 1>>] = x]
      BY <1>0, <2>1, EditTask
    <2>3. PICK u \in Slots : u = <<"edit", edits + 1>>
      BY <2>2
    <2>4. u # <<"load", visit>>
      BY <2>3
    <2>5. UNCHANGED <<page, visit, crossed>>
      BY <2>1 DEF SendEdit
    <2>6. shown'.name = shown.name
      <3>1. shown \in Views
        BY <1>0 DEF BaseInv, PageOK
      <3>2. shown' = shown \/ \E l : shown' = [shown EXCEPT !.nodes = l]
        BY <1>8 DEF ConfirmDelete, Update, Add
      <3> QED
        BY <3>1, <3>2 DEF Views
    <2> QED
      BY <1>1, <2>2, <2>3, <2>4, <2>5, <2>6
  <1> QED
    BY <1>2, <1>3, <1>4, <1>5, <1>6, <1>7, <1>8 DEF Next, vars, Leave, Work, SelectNode, ShowAddNode,
       AskToDelete, Cancel, SetDialog
-----------------------------------------------------------------------------
LEMMA InvInit == Init => Inv
  <1> SUFFICES ASSUME Init
               PROVE  Inv
    OBVIOUS
  <1>1. BaseInv
    BY BaseInit
  <1>2. \A t \in Slots : ~Running(t)
    BY DEF Init, Running
  <1>3. \A t \in Slots : ReadInv(t)
    BY <1>2 DEF ReadInv, Reads
  <1>4. ShownInv /\ NameIsPages
    BY DEF Init, ShownInv, NameIsPages
  <1>5. ChangesTold
    BY <1>2, SlotIs DEF ChangesTold
  <1> QED
    BY <1>1, <1>3, <1>4, <1>5 DEF Inv

LEMMA InvStep ==
    ASSUME Inv, [Next]_<<vars, bound>>
    PROVE  Inv'
  <1>1. BaseInv' /\ \A t \in Slots : ReadInv(t)'
    BY BaseStep, ReadKept DEF Inv
  <1>2. ShownInv' /\ ChangesTold' /\ NameIsPages'
    BY ShownStep, ChangesStep, NamesStep
  <1> QED
    BY <1>1, <1>2 DEF Inv

(* Lists, calls and dialogs are always of their types, a dialog about a node *)
(* is about one that is shown, and every cluster keeps a master, however     *)
(* many deletions are confirmed before the worker gets to the first.         *)
THEOREM NodesAreSound == Spec => []NodesInv
  <1>1. Init => Inv /\ KeepsMaster
    BY InvInit, BaseInit
  <1>2. Inv /\ KeepsMaster /\ [Next]_<<vars, bound>> => (Inv /\ KeepsMaster)'
    BY InvStep, ServerStep DEF Inv
  <1>3. Inv /\ KeepsMaster => NodesInv
    BY BaseIsTyped DEF Inv, NodesInv
  <1> QED
    BY <1>1, <1>2, <1>3, PTL DEF Spec

LEMMA QuietIsCurrent == Inv => QuietMeansCurrent
  <1> SUFFICES ASSUME Inv, page # None, Quiet, ~crossed
               PROVE  shown.name = page /\ shown.nodes = server[page].nodes
    BY DEF QuietMeansCurrent
  <1>1. visit \in Visits /\ page \in Clusters
    BY BoundIs DEF Inv, BaseInv, PageOK, CountOK
  <1>2. <<"load", visit>> \in Slots
    BY <1>1, SlotsAre
  <1>3. shown.name = page
    BY <1>2 DEF Inv, NameIsPages, Quiet
  <1>4. shown.name # None
    BY <1>1, <1>3, InitialAssumption
  <1>5. Current(shown.nodes, ToldOf(page), page)
    BY <1>3, <1>4 DEF Inv, ShownInv
  <1>6. Untouched(shown.nodes, ToldOf(page), page)
    BY SlotIs DEF Quiet, Untouched, Served, Answered, ToldOf
  <1> QED
    BY <1>3, <1>5, <1>6 DEF Current, Quiet

(* When nothing is under way and no lock is shown, the list on the page is   *)
(* that of the server, whatever the order of polls, edits and visits, unless *)
(* it was out of date when it was put into the store.                        *)
THEOREM QuietPagesAreCurrent == Spec => []QuietMeansCurrent
  <1>1. Inv /\ [Next]_<<vars, bound>> => Inv'
    BY InvStep
  <1> QED
    BY <1>1, InvInit, QuietIsCurrent, PTL DEF Spec

LEMMA RequestGoesToPage ==
    ASSUME Inv, [Next]_<<vars, bound>>, edits' # edits, ~Running(<<"load", visit>>), ~crossed
    PROVE  task'[<<"edit", edits'>>].to = page
  <1>0. BaseInv
    BY DEF Inv
  <1>1. ConfirmDelete \/ Update \/ Add
    BY DEF Next, vars, Open, Serve, Answer, Reject, Leave, Tick, Work, SelectNode, ShowAddNode,
       AskToDelete, Cancel, SetDialog
  <1>2. PICK op \in EditOps, n \in NodeNames : SendEdit(op, n) /\ dialog.kind # "none"
    BY <1>0, <1>1, SendsEdit
  <1>3. PICK x : /\ <<"edit", edits + 1>> \in Slots /\ task' = [task EXCEPT ![<<"edit", edits + 1>>] = x]
                 /\ x.to = shown.name
    BY <1>0, <1>2, EditTask
  <1>4. task'[<<"edit", edits + 1>>] = x /\ edits' = edits + 1
    BY <1>2, <1>3 DEF SendEdit, Inv, BaseInv, TasksOK
  <1>5. page # None
    BY <1>2 DEF Inv, BaseInv, PageOK
  <1> QED
    BY <1>3, <1>4, <1>5 DEF Inv, NameIsPages

(* A dialog sends its request for the cluster of the URL, unless the page    *)
(* still waits for its cluster or was given an outdated answer.              *)
THEOREM RequestsGoToPage == Spec => EditsGoToPage
  <1>1. Inv /\ [Next]_<<vars, bound>> => Inv'
    BY InvStep
  <1>2. Inv /\ [Next]_<<vars, bound>> =>
          [edits' # edits => \/ task'[<<"edit", edits'>>].to = page
                             \/ Running(<<"load", visit>>)
                             \/ crossed]_vars
    BY RequestGoesToPage
  <1> QED
    BY <1>1, <1>2, InvInit, PTL DEF Spec, EditsGoToPage
===============================================================================
