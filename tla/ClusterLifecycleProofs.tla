------------------------- MODULE ClusterLifecycleProofs -------------------------
(***************************************************************************)
(* Handlers and the worker, any number of them, use the file as            *)
(* SnapshotStore says, whatever is requested of whatever clusters.  What   *)
(* that takes is that data is held from a load to the next save only, and  *)
(* that there is a copy of the record wherever a program saves one: each   *)
(* Save comes right behind the instruction that makes the copy (Copies).   *)
(***************************************************************************)
EXTENDS ClusterLifecycle, ClusterPolls, PositionsProofs, SequenceTheorems, TLAPS

Edits == Statuses \cup {"lockChange", "lockDelete", "lockCreate", "unlock", "remove", "keep",
                        "find", "findWithPeer", "findAll", "sshKey", "kubeconfig", "resources"}

Instruction ==
    [do : {"get"}, edit : Edits] \cup [do : {"log"}, level : Levels]
        \cup [do : {"absent", "save", "erase", "clear", "work", "send", "useCase", "notLast"}]

Copies(i) == i.do \in {"get", "absent"}

\* A program that begins without a copy of a record
Fresh(p) == \A i \in 1..Len(p) : p[i].do = "save" => i > 1 /\ Copies(p[i - 1])

\* The rest of a program, with the copy that the thread has
Sound(p, c) ==
    \A i \in 1..Len(p) :
        p[i].do = "save" => IF i = 1 THEN c \in Repo!Cluster ELSE Copies(p[i - 1])

ThreadState ==
    [request : Request \cup {NoRequest}, program : Seq(Instruction), ok : Seq(Instruction),
     err : Seq(Instruction), copy : Records, read : Records, data : Repo!DB \cup {Repo!NoData}]

\* A thread in state s
Threading(s) ==
    /\ Sound(s.program, s.copy) /\ Fresh(s.ok) /\ Fresh(s.err)
    /\ s.request = NoRequest => s.program = <<>> /\ s.ok = <<>> /\ s.err = <<>>
    /\ s.data # Repo!NoData => s.program # <<>> /\ Head(s.program).do \in Writes
    /\ s.request.kind \in {"edit", "clear"} =>
          /\ s.ok = <<>> /\ s.err = <<>>
          /\ \A i \in 1..Len(s.program) : s.program[i].do \notin {"useCase", "send"}

Event == {r \in Request : r.kind \notin {"edit", "clear"}}

\* What the threads share
Shared ==
    /\ db \in Repo!DB
    /\ queue \in Seq(Event) /\ Len(queue) <= Capacity
    /\ todo \subseteq Request /\ kills \in Nat
    /\ \E s \in Scenarios : todo \subseteq s.requests /\ kills <= s.kills
    /\ lost \in BOOLEAN /\ cleared \subseteq Names

LifecycleIInv ==
    /\ Shared
    /\ thread \in [Threads -> ThreadState]
    /\ \A t \in Threads : Threading(thread[t])

\* A step that neither loads nor saves
Aside ==
    db' = db /\ \A u \in Threads : thread'[u].data = thread[u].data
-----------------------------------------------------------------------------
(* Programs *)
LEMMA InstructionTypes ==
    /\ \A e \in Edits : Get(e) \in Instruction
    /\ \A l \in Levels : Log(l) \in Instruction
    /\ {Absent, Save, Erase, ClearLogs, Work, Send, UseCase, NotLast} \subseteq Instruction
BY DEF Get, Log, Absent, Save, Erase, ClearLogs, Work, Send, UseCase, NotLast, Instruction

LEMMA ConcatFresh ==
    ASSUME NEW p \in Seq(Instruction), NEW q \in Seq(Instruction), Fresh(p), Fresh(q)
    PROVE  p \o q \in Seq(Instruction) /\ Fresh(p \o q)
<1>1. p \o q \in Seq(Instruction) /\ Len(p \o q) = Len(p) + Len(q)
      BY ConcatProperties
<1>2. ASSUME NEW i \in 1..Len(p \o q), (p \o q)[i].do = "save"
      PROVE  i > 1 /\ Copies((p \o q)[i - 1])
  <2>1. CASE i <= Len(p)
        BY <1>1, <1>2, <2>1, ConcatProperties DEF Fresh
  <2>2. CASE i > Len(p)
    <3>1. i - Len(p) \in 1..Len(q) /\ (p \o q)[i] = q[i - Len(p)]
          BY <1>1, <2>2, ConcatProperties
    <3>2. i - Len(p) > 1 /\ Copies(q[i - Len(p) - 1])
          BY <1>2, <3>1 DEF Fresh
    <3>3. (p \o q)[i - 1] = q[i - 1 - Len(p)]
          BY <1>1, <3>1, <3>2, ConcatProperties
    <3> QED
        BY <3>2, <3>3
  <2> QED
      BY <1>1, <2>1, <2>2
<1> QED
    BY <1>1, <1>2 DEF Fresh

LEMMA UpdateStatusFresh ==
    ASSUME NEW s \in Statuses
    PROVE  UpdateStatus(s) \in Seq(Instruction) /\ Fresh(UpdateStatus(s))
<1>1. Get(s) \in Instruction /\ Save \in Instruction
      BY InstructionTypes DEF Edits
<1>2. Get(s).do = "get"
      BY DEF Get
<1> QED
    BY <1>1, <1>2 DEF UpdateStatus, Fresh, Copies

(* The handlers and the use cases, of which edits have none *)
LEMMA HandlerFresh ==
    ASSUME NEW k \in Kinds
    PROVE  /\ Handler(k) \in Seq(Instruction) /\ Fresh(Handler(k))
           /\ k \in {"edit", "clear"} =>
                \A i \in 1..Len(Handler(k)) : Handler(k)[i].do \notin {"useCase", "send"}
<1> USE DEF Get, Log, Absent, Save, Send, Copies, Fresh, Instruction, Edits, Levels
<1>1. CreateHandler \in Seq(Instruction) /\ Fresh(CreateHandler)
      BY DEF CreateHandler
<1>2. ChangeHandler \in Seq(Instruction) /\ Fresh(ChangeHandler)
      BY DEF ChangeHandler
<1>3. AddHandler \in Seq(Instruction) /\ Fresh(AddHandler)
      BY DEF AddHandler
<1>4. DeleteHandler \in Seq(Instruction) /\ Fresh(DeleteHandler)
      BY DEF DeleteHandler, Statuses
<1>5. DelNodeHandler \in Seq(Instruction) /\ Fresh(DelNodeHandler)
      BY DEF DelNodeHandler
<1>6. /\ EditHandler \in Seq(Instruction) /\ Fresh(EditHandler)
      /\ \A i \in 1..Len(EditHandler) : EditHandler[i].do \notin {"useCase", "send"}
      BY DEF EditHandler
<1> HIDE DEF Get, Log, Absent, Save, Send, Copies, Fresh, Instruction, Edits, Levels
<1>7. /\ ClearHandler \in Seq(Instruction) /\ Fresh(ClearHandler)
      /\ \A i \in 1..Len(ClearHandler) : ClearHandler[i].do \notin {"useCase", "send"}
      BY InstructionTypes DEF ClearHandler, ClearLogs, Fresh
<1> QED
    BY <1>1, <1>2, <1>3, <1>4, <1>5, <1>6, <1>7 DEF Handler, Kinds

LEMMA ExecuteFresh ==
    ASSUME NEW k \in Kinds \ {"edit", "clear"}
    PROVE  Execute(k) \in Seq(Instruction) /\ Fresh(Execute(k))
<1> USE DEF Get, Log, Save, Erase, Work, NotLast, Copies, Fresh, Instruction, Edits, Levels
<1>1. CreateCluster \in Seq(Instruction) /\ Fresh(CreateCluster)
      BY DEF CreateCluster
<1>2. DeleteCluster \in Seq(Instruction) /\ Fresh(DeleteCluster)
      BY DEF DeleteCluster
<1>3. AddNode \in Seq(Instruction) /\ Fresh(AddNode)
      BY DEF AddNode
<1>4. DeleteNode \in Seq(Instruction) /\ Fresh(DeleteNode)
      BY DEF DeleteNode
<1>5. ChangeResources \in Seq(Instruction) /\ Fresh(ChangeResources)
      BY DEF ChangeResources
<1> HIDE DEF Get, Log, Save, Erase, Work, NotLast, Copies, Fresh, Instruction, Edits, Levels
<1> QED
    BY <1>1, <1>2, <1>3, <1>4, <1>5 DEF Execute, Kinds

(* The arms of the dispatcher *)
LEMMA ArmsFresh ==
    ASSUME NEW k \in Kinds \ {"edit", "clear"}
    PROVE  /\ Dispatch(k) \in Seq(Instruction) /\ Fresh(Dispatch(k))
           /\ OkArm(k) \in Seq(Instruction) /\ Fresh(OkArm(k))
           /\ ErrArm \in Seq(Instruction) /\ Fresh(ErrArm)
<1>1. /\ <<>> \in Seq(Instruction) /\ Fresh(<<>>)
      /\ \A l \in Levels : <<Log(l)>> \in Seq(Instruction) /\ Fresh(<<Log(l)>>)
      /\ <<UseCase>> \in Seq(Instruction) /\ Fresh(<<UseCase>>)
      BY InstructionTypes DEF Fresh, Log, UseCase
<1>2. <<Get("unlock"), Save>> \in Seq(Instruction) /\ Fresh(<<Get("unlock"), Save>>)
      BY DEF Get, Save, Instruction, Edits, Fresh, Copies
<1>3. <<Log("info"), Get("unlock"), Save>> \in Seq(Instruction)
          /\ Fresh(<<Log("info"), Get("unlock"), Save>>)
      BY DEF Log, Get, Save, Instruction, Edits, Levels, Fresh, Copies
<1>4. Dispatch(k) \in Seq(Instruction) /\ Fresh(Dispatch(k))
      BY <1>1, UpdateStatusFresh, ConcatFresh DEF Dispatch, Statuses
<1>5. ErrArm \in Seq(Instruction) /\ Fresh(ErrArm)
      BY <1>1, UpdateStatusFresh, ConcatFresh DEF ErrArm, Statuses, Levels
<1>6. /\ UpdateStatus("Sync") \in Seq(Instruction) /\ Fresh(UpdateStatus("Sync"))
      /\ "info" \in Levels /\ "deleted" \in Levels
      BY UpdateStatusFresh DEF Statuses, Levels
<1>7. /\ UpdateStatus("Sync") \o <<Log("info")>> \in Seq(Instruction)
      /\ Fresh(UpdateStatus("Sync") \o <<Log("info")>>)
      BY <1>1, <1>6, ConcatFresh
<1>8. /\ <<Log("info"), Get("unlock"), Save>> \o UpdateStatus("Sync") \in Seq(Instruction)
      /\ Fresh(<<Log("info"), Get("unlock"), Save>> \o UpdateStatus("Sync"))
      BY <1>3, <1>6, ConcatFresh
<1>9. /\ <<Log("deleted")>> \o UpdateStatus("Sync") \in Seq(Instruction)
      /\ Fresh(<<Log("deleted")>> \o UpdateStatus("Sync"))
      BY <1>1, <1>6, ConcatFresh
<1>10. /\ <<Log("info")>> \o UpdateStatus("Sync") \in Seq(Instruction)
       /\ Fresh(<<Log("info")>> \o UpdateStatus("Sync"))
       BY <1>1, <1>6, ConcatFresh
<1>11. /\ <<Log("info")>> \o UpdateStatus("Sync") \o <<Get("unlock"), Save>> \in Seq(Instruction)
       /\ Fresh(<<Log("info")>> \o UpdateStatus("Sync") \o <<Get("unlock"), Save>>)
       BY <1>2, <1>10, ConcatFresh
<1>12. OkArm(k) \in Seq(Instruction) /\ Fresh(OkArm(k))
       BY <1>1, <1>7, <1>8, <1>9, <1>11 DEF OkArm, Kinds
<1> QED
    BY <1>4, <1>5, <1>12
-----------------------------------------------------------------------------
(* Records and what is written *)
LEMMA EditType ==
    ASSUME NEW e, NEW b \in Body, NEW n \in NodeNames, ~EditFails(e, b, n)
    PROVE  Edit(e, b, n) \in Body
<1>0. b.nodes[n] \in Seq(Locks)
      BY DEF Body
<1>1. ASSUME NEW l \in Locks PROVE SetAllLocks(b, n, l) \in Body
  <2>1. [i \in DOMAIN b.nodes[n] |-> l] \in Seq(Locks)
        BY <1>0, <1>1
  <2> QED
      BY <2>1 DEF SetAllLocks, Body
<1>2. ASSUME NEW l \in Locks PROVE SetLock(b, n, l) \in Body
  <2>1. [b.nodes[n] EXCEPT ![1] = l] \in Seq(Locks)
    <3> DEFINE p == b.nodes[n]
               q == [p EXCEPT ![1] = l]
    <3>1. p \in [1..Len(p) -> Locks] /\ Len(p) \in Nat
          BY <1>0
    <3> HIDE DEF p
    <3>2. q \in [1..Len(p) -> Locks]
          BY <1>2, <3>1
    <3> HIDE DEF q
    <3>3. q \in Seq(Locks)
          BY <3>1, <3>2, SeqDef
    <3> QED
        BY <3>3 DEF p, q
  <2> QED
      BY <2>1 DEF SetLock, Body
<1>3. [b EXCEPT !.nodes[n] = Append(@, "Create")] \in Body
  <2>1. Append(b.nodes[n], "Create") \in Seq(Locks)
        BY <1>0 DEF Locks
  <2> QED
      BY <2>1 DEF Body
<1>4. [b EXCEPT !.nodes[n] = <<>>] \in Body
  <2>1. <<>> \in Seq(Locks)
        OBVIOUS
  <2> QED
      BY <2>1 DEF Body
<1>5. e \in Statuses => [b EXCEPT !.status = e] \in Body
      BY DEF Body
<1>6. /\ SetAllLocks(b, n, "ChangeResources") \in Body /\ SetLock(b, n, "Delete") \in Body
      /\ SetLock(b, n, "None") \in Body
      BY <1>1, <1>2 DEF Locks
<1> QED
    BY <1>3, <1>4, <1>5, <1>6 DEF Edit

LEMMA NewClusterType ==
    ASSUME NEW n \in Names
    PROVE  NewCluster(n) \in Repo!Cluster
<1>1. \A x \in NodeNames : [i \in 1..Initial[x] |-> "None"] \in Seq(Locks)
      BY ThreadAssumption DEF Locks
<1> QED
    BY <1>1 DEF NewCluster, Repo!Cluster, Body, Statuses

LEMMA RecordType ==
    ASSUME NEW d \in Repo!DB, NEW n \in Names
    PROVE  Record(d, n) \in Records
BY DEF Record, Records, Repo!DB, Repo!HasCluster

LEMMA ApplyType ==
    ASSUME NEW o \in Repo!WriteOps, NEW d \in Repo!DB
    PROVE  Repo!Apply(o, d) \in Repo!DB
<1>1. CASE o \in Repo!SaveClusterOps
  <2>1. Repo!SaveCluster(d, o.cluster) \in Repo!DB
        BY <1>1 DEF Repo!SaveClusterOps, Repo!SaveCluster, Repo!HasCluster, Repo!DB
  <2> QED
      BY <1>1, <2>1 DEF Repo!SaveClusterOps, Repo!Apply
<1>2. CASE o \in Repo!DeleteClusterOps
  <2>1. Repo!DeleteCluster(d, o.name) \in Repo!DB
        BY DEF Repo!DeleteCluster, Repo!DeleteLogs, Repo!DB
  <2> QED
      BY <1>2, <2>1 DEF Repo!DeleteClusterOps, Repo!Apply
<1>3. CASE o \in Repo!SaveLogOps
  <2>1. Repo!SaveLog(d, o.entry) \in Repo!DB
        BY <1>3 DEF Repo!SaveLogOps, Repo!SaveLog, Repo!DB
  <2> QED
      BY <1>3, <2>1 DEF Repo!SaveLogOps, Repo!Apply
<1>4. CASE o \in Repo!DeleteLogsOps
  <2>1. Repo!DeleteLogs(d, o.name) \in Repo!DB
        BY DEF Repo!DeleteLogs, Repo!DB
  <2> QED
      BY <1>4, <2>1 DEF Repo!DeleteLogsOps, Repo!Apply
<1> QED
    BY <1>1, <1>2, <1>3, <1>4 DEF Repo!WriteOps

LEMMA WriteOpType ==
    ASSUME LifecycleIInv, NEW t \in Threads, \E i \in Writes : At(t, i)
    PROVE  WriteOp(t) \in Repo!WriteOps
<1> DEFINE s == thread[t]
<1>1. /\ s \in ThreadState /\ s.program \in Seq(Instruction) /\ s.program # <<>>
      /\ Sound(s.program, s.copy) /\ s.request \in Request
      BY DEF LifecycleIInv, ThreadState, Threading, At
<1>2. 1 \in 1..Len(s.program) /\ Head(s.program) = s.program[1] /\ Head(s.program) \in Instruction
      BY <1>1
<1>3. Cluster(t) \in Names
      BY <1>1 DEF Cluster, Request
<1>4. CASE Head(s.program).do = "save"
  <2>1. s.copy \in Repo!Cluster
        BY <1>1, <1>2, <1>4 DEF Sound
  <2> QED
      BY <1>4, <2>1 DEF WriteOp, Repo!WriteOps, Repo!SaveClusterOps
<1>5. CASE Head(s.program).do = "log"
  <2>1. Head(s.program).level \in Levels
        BY <1>2, <1>5 DEF Instruction
  <2> QED
      BY <1>3, <1>5, <2>1 DEF WriteOp, Repo!WriteOps, Repo!SaveLogOps, Repo!LogEntry
<1>6. CASE Head(s.program).do = "erase"
      BY <1>3, <1>6 DEF WriteOp, Repo!WriteOps, Repo!DeleteClusterOps
<1>7. CASE Head(s.program).do = "clear"
      BY <1>3, <1>7 DEF WriteOp, Repo!WriteOps, Repo!DeleteLogsOps
<1> QED
    BY <1>4, <1>5, <1>6, <1>7 DEF At, Writes
-----------------------------------------------------------------------------
(* How a thread goes on *)
LEMMA FreshSound ==
    ASSUME NEW p \in Seq(Instruction), Fresh(p), NEW c
    PROVE  Sound(p, c)
BY DEF Fresh, Sound

LEMMA TailSound ==
    ASSUME NEW p \in Seq(Instruction), p # <<>>, NEW c, NEW d, Sound(p, c),
           Copies(Head(p)) => d \in Repo!Cluster
    PROVE  /\ Tail(p) \in Seq(Instruction) /\ Sound(Tail(p), d)
           /\ \A i \in 1..Len(Tail(p)) : i + 1 \in 1..Len(p) /\ Tail(p)[i] = p[i + 1]
<1>1. /\ Tail(p) \in Seq(Instruction) /\ Len(Tail(p)) = Len(p) - 1
      /\ \A i \in 1..Len(Tail(p)) : i + 1 \in 1..Len(p) /\ Tail(p)[i] = p[i + 1]
      BY HeadTailProperties
<1>2. ASSUME NEW i \in 1..Len(Tail(p)), Tail(p)[i].do = "save"
      PROVE  IF i = 1 THEN d \in Repo!Cluster ELSE Copies(Tail(p)[i - 1])
  <2>1. Copies(p[i])
        BY <1>1, <1>2 DEF Sound
  <2>2. CASE i = 1
        BY <2>1, <2>2
  <2>3. CASE i # 1
        BY <1>1, <2>1, <2>3
  <2> QED
      BY <2>2, <2>3
<1> QED
    BY <1>1, <1>2 DEF Sound

\* Proceed, of a record r that the thread has become
LEMMA Proceeds ==
    ASSUME NEW s \in ThreadState, Threading(s), s.program # <<>>,
           NEW r \in ThreadState, r.program = Tail(s.program),
           r.request = s.request, r.ok = s.ok, r.err = s.err, r.data = Repo!NoData,
           Copies(Head(s.program)) => r.copy \in Repo!Cluster
    PROVE  Threading(r)
<1>1. s.program \in Seq(Instruction)
      BY DEF ThreadState
<1>2. /\ Sound(r.program, r.copy)
      /\ \A i \in 1..Len(r.program) :
            i + 1 \in 1..Len(s.program) /\ r.program[i] = s.program[i + 1]
      BY <1>1, TailSound DEF Threading
<1> QED
    BY <1>2 DEF Threading

\* Any other program that begins without a copy
LEMMA Turns ==
    ASSUME NEW s \in ThreadState, Threading(s), s.request # NoRequest,
           NEW r \in ThreadState, Fresh(r.program), Fresh(r.ok), Fresh(r.err),
           r.request = s.request, r.data = Repo!NoData,
           s.request.kind \in {"edit", "clear"} => r.program = <<>> /\ r.ok = <<>> /\ r.err = <<>>
    PROVE  Threading(r)
<1>1. r.program \in Seq(Instruction)
      BY DEF ThreadState
<1>2. Sound(r.program, r.copy)
      BY <1>1, FreshSound
<1> QED
    BY <1>2 DEF Threading

LEMMA RestingType == Resting \in ThreadState /\ Threading(Resting)
<1>1. <<>> \in Seq(Instruction) /\ Len(<<>>) = 0
      OBVIOUS
<1>2. Resting \in ThreadState
      BY <1>1 DEF Resting, ThreadState, Records
<1> QED
    BY <1>1, <1>2 DEF Resting, Threading, Sound, Fresh, NoRequest

LEMMA ThreadMoves ==
    ASSUME LifecycleIInv, NEW t \in Threads, NEW r \in ThreadState, Threading(r),
           thread' = [thread EXCEPT ![t] = r]
    PROVE  /\ thread' \in [Threads -> ThreadState]
           /\ \A u \in Threads : Threading(thread[u])'
           /\ r.data = thread[t].data => \A u \in Threads : thread'[u].data = thread[u].data
<1>1. thread \in [Threads -> ThreadState] /\ \A u \in Threads : Threading(thread[u])
      BY DEF LifecycleIInv
<1>2. \A u \in Threads : thread'[u] = IF u = t THEN r ELSE thread[u]
      BY <1>1
<1>3. \A u \in Threads : Threading(thread[u])'
      BY <1>1, <1>2 DEF Threading
<1> QED
    BY <1>1, <1>2, <1>3

\* What is known of a thread at an instruction
LEMMA AtFacts ==
    ASSUME LifecycleIInv, NEW t \in Threads, NEW d, At(t, d)
    PROVE  /\ thread[t] \in ThreadState /\ Threading(thread[t])
           /\ thread[t].program \in Seq(Instruction) /\ thread[t].program # <<>>
           /\ Head(thread[t].program) \in Instruction /\ Head(thread[t].program).do = d
           /\ 1 \in 1..Len(thread[t].program)
           /\ Head(thread[t].program) = thread[t].program[1]
           /\ thread[t].request \in Request /\ thread[t].request # NoRequest
           /\ Cluster(t) \in Names /\ NodeOf(t) \in NodeNames
           /\ d \notin Writes => thread[t].data = Repo!NoData
<1>1. /\ thread[t] \in ThreadState /\ Threading(thread[t])
      /\ thread[t].program # <<>> /\ Head(thread[t].program).do = d
      BY DEF LifecycleIInv, At
<1>2. /\ thread[t].program \in Seq(Instruction)
      /\ thread[t].request \in Request \cup {NoRequest}
      BY <1>1 DEF ThreadState
<1>3. /\ Head(thread[t].program) \in Instruction /\ 1 \in 1..Len(thread[t].program)
      /\ Head(thread[t].program) = thread[t].program[1]
      BY <1>1, <1>2
<1>4. thread[t].request # NoRequest /\ thread[t].request \in Request
      BY <1>1, <1>2 DEF Threading
<1>5. Cluster(t) \in Names /\ NodeOf(t) \in NodeNames
      BY <1>4 DEF Cluster, NodeOf, Request
<1>6. d \notin Writes => thread[t].data = Repo!NoData
      BY <1>1 DEF Threading
<1> QED
    BY <1>1, <1>2, <1>3, <1>4, <1>5, <1>6

LEMMA FailStep ==
    ASSUME LifecycleIInv, NEW t \in Threads, NEW d, At(t, d), d \notin Writes, Fail(t)
    PROVE  /\ thread' \in [Threads -> ThreadState]
           /\ \A u \in Threads : Threading(thread[u])'
           /\ \A u \in Threads : thread'[u].data = thread[u].data
<1> DEFINE s == thread[t]
           r == [[s EXCEPT !.ok = <<>>, !.err = <<>>] EXCEPT !.program = s.err]
<1>1. /\ s \in ThreadState /\ Threading(s) /\ s.request # NoRequest /\ s.data = Repo!NoData
      BY AtFacts
<1>2. <<>> \in Seq(Instruction) /\ Fresh(<<>>) /\ s.err \in Seq(Instruction)
      BY <1>1 DEF Fresh, ThreadState
<1>3. /\ r \in ThreadState /\ r.program = s.err /\ r.ok = <<>> /\ r.err = <<>>
      /\ r.request = s.request /\ r.data = s.data
      BY <1>1, <1>2 DEF ThreadState
<1>4. Fresh(s.err) /\ (s.request.kind \in {"edit", "clear"} => s.err = <<>>)
      BY <1>1 DEF Threading
<1> HIDE DEF r
<1>5. Threading(r)
      BY <1>1, <1>2, <1>3, <1>4, Turns
<1>6. thread' = [thread EXCEPT ![t] = r]
      BY DEF Fail, Continue, r
<1> QED
    BY <1>3, <1>5, <1>6, ThreadMoves
-----------------------------------------------------------------------------
(* The invariant *)
LEMMA LifecycleTypes == LifecycleIInv => TypeOK
<1>1. Event \subseteq Request
      BY DEF Event
<1>2. queue \in Seq(Event) => queue \in Seq(Request)
      BY <1>1
<1> QED
    BY <1>2 DEF LifecycleIInv, Shared, TypeOK, ThreadState

LEMMA LifecycleInit == Init => LifecycleIInv
<1> SUFFICES ASSUME Init PROVE LifecycleIInv
    OBVIOUS
<1>1. \A n \in Names : InSync(n) \in Repo!Cluster
  <2> TAKE n \in Names
  <2>1. NewCluster(n) \in Repo!Cluster
        BY NewClusterType
  <2>2. "Sync" \in Statuses
        BY DEF Statuses
  <2> QED
      BY <2>1, <2>2 DEF InSync, Repo!Cluster, Body
<1>2. db \in Repo!DB
      BY <1>1 DEF Init, Repo!EmptyDB, Repo!DB
<1>3. queue \in Seq(Event) /\ Len(queue) <= Capacity
      BY ThreadAssumption DEF Init
<1>4. /\ todo \subseteq Request /\ kills \in Nat
      /\ \E s \in Scenarios : todo \subseteq s.requests /\ kills <= s.kills
  <2>1. PICK s \in Scenarios : todo = s.requests /\ kills = s.kills
        BY DEF Init
  <2>2. s \in Scenario
        BY ScenarioAssumption
  <2> QED
      BY <2>1, <2>2 DEF Scenario
<1>5. thread \in [Threads -> ThreadState] /\ \A t \in Threads : Threading(thread[t])
      BY RestingType DEF Init
<1> QED
    BY <1>2, <1>3, <1>4, <1>5 DEF Init, LifecycleIInv, Shared

(* The steps of the threads, with what they show the other threads of it *)
LEMMA CallStep ==
    ASSUME LifecycleIInv, NEW t \in Threads, Call(t)
    PROVE  LifecycleIInv' /\ Aside
<1>1. PICK q \in todo :
         /\ todo' = todo \ {q}
         /\ thread' = [thread EXCEPT ![t] = [Resting EXCEPT !.request = q,
                                                           !.program = Handler(q.kind)]]
      BY DEF Call
<1> DEFINE r == [Resting EXCEPT !.request = q, !.program = Handler(q.kind)]
<1>2. q \in Request /\ q.kind \in Kinds /\ q # NoRequest
  <2>1. q \in Request
        BY DEF LifecycleIInv, Shared
  <2>2. NoRequest \notin Request
        BY DEF NoRequest, Request, Kinds
  <2> QED
      BY <2>1, <2>2 DEF Request
<1>3. /\ Handler(q.kind) \in Seq(Instruction) /\ Fresh(Handler(q.kind))
      /\ q.kind \in {"edit", "clear"} =>
            \A i \in 1..Len(Handler(q.kind)) : Handler(q.kind)[i].do \notin {"useCase", "send"}
      BY <1>2, HandlerFresh
<1>4. /\ r \in ThreadState /\ r.request = q /\ r.program = Handler(q.kind)
      /\ r.ok = <<>> /\ r.err = <<>> /\ r.data = Repo!NoData
      BY <1>2, <1>3, RestingType DEF Resting, ThreadState
<1>5. Sound(Handler(q.kind), r.copy) /\ Fresh(<<>>)
      BY <1>3, FreshSound DEF Fresh
<1> HIDE DEF r
<1>6. Threading(r)
      BY <1>2, <1>3, <1>4, <1>5 DEF Threading
<1>7. thread[t].data = Repo!NoData
      BY DEF Call, Resting
<1>8. thread' = [thread EXCEPT ![t] = r]
      BY <1>1 DEF r
<1>9. /\ thread' \in [Threads -> ThreadState]
      /\ \A u \in Threads : Threading(thread[u])'
      /\ \A u \in Threads : thread'[u].data = thread[u].data
      BY <1>4, <1>6, <1>7, <1>8, ThreadMoves
<1>10. Shared'
       BY <1>1 DEF Call, LifecycleIInv, Shared
<1> QED
    BY <1>9, <1>10 DEF LifecycleIInv, Aside, Call

LEMMA ReceiveStep ==
    ASSUME LifecycleIInv, Receive
    PROVE  LifecycleIInv' /\ Aside
<1> DEFINE q == Head(queue)
           r == [Resting EXCEPT !.request = q, !.program = Dispatch(q.kind)]
<1>1. queue \in Seq(Event) /\ queue # <<>> /\ Len(queue) <= Capacity /\ Capacity \in Nat
      BY ThreadAssumption DEF Receive, LifecycleIInv, Shared
<1>2. q \in Event /\ Tail(queue) \in Seq(Event) /\ Len(Tail(queue)) <= Capacity
      BY <1>1
<1>3. q \in Request /\ q.kind \in Kinds \ {"edit", "clear"} /\ q # NoRequest
  <2>1. NoRequest \notin Request
        BY DEF NoRequest, Request, Kinds
  <2> QED
      BY <1>2, <2>1 DEF Event, Request
<1>4. Dispatch(q.kind) \in Seq(Instruction) /\ Fresh(Dispatch(q.kind))
      BY <1>3, ArmsFresh
<1>5. /\ r \in ThreadState /\ r.request = q /\ r.program = Dispatch(q.kind)
      /\ r.ok = <<>> /\ r.err = <<>> /\ r.data = Repo!NoData
      BY <1>3, <1>4, RestingType DEF Resting, ThreadState
<1>6. Sound(Dispatch(q.kind), r.copy) /\ Fresh(<<>>)
      BY <1>4, FreshSound DEF Fresh
<1>7. Worker \in Threads /\ thread[Worker].data = Repo!NoData
      BY DEF Receive, Resting, Threads
<1>8. thread' = [thread EXCEPT ![Worker] = r]
      BY DEF Receive
<1> HIDE DEF r, q
<1>9. Threading(r)
      BY <1>3, <1>5, <1>6 DEF Threading
<1>10. /\ thread' \in [Threads -> ThreadState]
       /\ \A u \in Threads : Threading(thread[u])'
       /\ \A u \in Threads : thread'[u].data = thread[u].data
       BY <1>5, <1>7, <1>8, <1>9, ThreadMoves
<1>11. Shared'
       BY <1>2 DEF Receive, LifecycleIInv, Shared
<1> QED
    BY <1>10, <1>11 DEF LifecycleIInv, Aside, Receive

LEMMA FinishStep ==
    ASSUME LifecycleIInv, NEW t \in Threads, Finish(t)
    PROVE  LifecycleIInv' /\ Aside
<1> DEFINE s == thread[t]
           r == [[s EXCEPT !.ok = <<>>, !.err = <<>>] EXCEPT !.program = s.ok]
<1>1. /\ s \in ThreadState /\ Threading(s) /\ s.program = <<>> /\ s.data = Repo!NoData
      BY DEF LifecycleIInv, Finish, Threading
<1>2. /\ thread' \in [Threads -> ThreadState]
      /\ \A u \in Threads : Threading(thread[u])'
      /\ \A u \in Threads : thread'[u].data = thread[u].data
  <2>1. CASE s.ok = <<>>
    <3>1. thread' = [thread EXCEPT ![t] = Resting] /\ Resting.data = s.data
          BY <1>1, <2>1 DEF Finish, Resting
    <3> QED
        BY <3>1, RestingType, ThreadMoves
  <2>2. CASE s.ok # <<>>
    <3>1. /\ s.request # NoRequest /\ s.request.kind \notin {"edit", "clear"} /\ Fresh(s.ok)
          /\ Fresh(<<>>) /\ <<>> \in Seq(Instruction) /\ s.ok \in Seq(Instruction)
          BY <1>1, <2>2 DEF Threading, ThreadState, Fresh
    <3>2. /\ r \in ThreadState /\ r.program = s.ok /\ r.ok = <<>> /\ r.err = <<>>
          /\ r.request = s.request /\ r.data = s.data
          BY <1>1, <3>1 DEF ThreadState
    <3>3. thread' = [thread EXCEPT ![t] = r]
          BY <2>2 DEF Finish, Continue
    <3> HIDE DEF r
    <3>4. Threading(r)
          BY <1>1, <3>1, <3>2, Turns
    <3> QED
        BY <3>2, <3>3, <3>4, ThreadMoves
  <2> QED
      BY <2>1, <2>2
<1>3. Shared'
      BY DEF Finish, LifecycleIInv, Shared
<1> QED
    BY <1>2, <1>3 DEF LifecycleIInv, Aside, Finish

LEMMA EnterUseCaseStep ==
    ASSUME LifecycleIInv, NEW t \in Threads, EnterUseCase(t)
    PROVE  LifecycleIInv' /\ Aside
<1> DEFINE s == thread[t]
           k == s.request.kind
           r == [[s EXCEPT !.ok = OkArm(k), !.err = ErrArm] EXCEPT !.program = Execute(k)]
<1>0. At(t, "useCase") /\ "useCase" \notin Writes
      BY DEF EnterUseCase, Writes
<1>1. /\ s \in ThreadState /\ Threading(s) /\ s.request \in Request /\ s.request # NoRequest
      /\ s.data = Repo!NoData
      BY <1>0, AtFacts
<1>2. 1 \in 1..Len(s.program) /\ s.program[1].do = "useCase"
  <2>1. Head(s.program).do = "useCase" /\ Head(s.program) = s.program[1] /\ 1 \in 1..Len(s.program)
        BY <1>0, AtFacts
  <2> QED
      BY <2>1
<1>3. k \in Kinds \ {"edit", "clear"}
      BY <1>1, <1>2 DEF Threading, Request
<1>4. /\ Execute(k) \in Seq(Instruction) /\ Fresh(Execute(k))
      /\ OkArm(k) \in Seq(Instruction) /\ Fresh(OkArm(k))
      /\ ErrArm \in Seq(Instruction) /\ Fresh(ErrArm)
      BY <1>3, ExecuteFresh, ArmsFresh
<1>5. /\ r \in ThreadState /\ r.program = Execute(k) /\ r.ok = OkArm(k) /\ r.err = ErrArm
      /\ r.request = s.request /\ r.data = s.data
      BY <1>1, <1>4 DEF ThreadState
<1>6. thread' = [thread EXCEPT ![t] = r]
      BY DEF EnterUseCase, Continue
<1> HIDE DEF r
<1>7. Threading(r)
      BY <1>1, <1>3, <1>4, <1>5, Turns
<1>8. /\ thread' \in [Threads -> ThreadState]
      /\ \A u \in Threads : Threading(thread[u])'
      /\ \A u \in Threads : thread'[u].data = thread[u].data
      BY <1>5, <1>6, <1>7, ThreadMoves
<1>9. Shared'
      BY DEF EnterUseCase, LifecycleIInv, Shared
<1> QED
    BY <1>8, <1>9 DEF LifecycleIInv, Aside, EnterUseCase

LEMMA GetClusterStep ==
    ASSUME LifecycleIInv, NEW t \in Threads, GetCluster(t)
    PROVE  LifecycleIInv' /\ Aside
<1> DEFINE s     == thread[t]
           found == Record(db, Cluster(t))
           edit  == Head(s.program).edit
           copy  == [found EXCEPT !.body = Edit(edit, @, NodeOf(t))]
           r     == [[s EXCEPT !.read = found, !.copy = copy] EXCEPT !.program = Tail(s.program)]
<1>0. At(t, "get") /\ "get" \notin Writes /\ "get" # "save"
      BY DEF GetCluster, Writes
<1>1. /\ s \in ThreadState /\ Threading(s) /\ s.program # <<>> /\ s.data = Repo!NoData
      /\ s.program \in Seq(Instruction) /\ Cluster(t) \in Names /\ NodeOf(t) \in NodeNames
      BY <1>0, AtFacts
<1>2. /\ thread' \in [Threads -> ThreadState]
      /\ \A u \in Threads : Threading(thread[u])'
      /\ \A u \in Threads : thread'[u].data = thread[u].data
  <2>1. CASE found = NoRecord \/ EditFails(edit, found.body, NodeOf(t))
        BY <1>0, <2>1, FailStep DEF GetCluster
  <2>2. CASE ~(found = NoRecord \/ EditFails(edit, found.body, NodeOf(t)))
    <3>1. found \in Repo!Cluster
      <4>1. found \in Records
            BY <1>1, RecordType DEF LifecycleIInv, Shared
      <4> QED
          BY <2>2, <4>1 DEF Records
    <3>2. found.body \in Body
          BY <3>1 DEF Repo!Cluster
    <3>3. Edit(edit, found.body, NodeOf(t)) \in Body
          BY <1>1, <2>2, <3>2, EditType
    <3>4. copy \in Repo!Cluster
          BY <3>1, <3>3 DEF Repo!Cluster
    <3>5. Tail(s.program) \in Seq(Instruction)
          BY <1>1
    <3> HIDE DEF found, copy
    <3>6. /\ r \in ThreadState /\ r.program = Tail(s.program) /\ r.copy = copy
          /\ r.request = s.request /\ r.ok = s.ok /\ r.err = s.err /\ r.data = s.data
          BY <1>1, <3>1, <3>4, <3>5 DEF ThreadState, Records
    <3>7. thread' = [thread EXCEPT ![t] = r]
          BY <2>2 DEF GetCluster, Proceed, Continue, found, copy
    <3> HIDE DEF r
    <3>8. Threading(r)
          BY <1>1, <3>4, <3>6, Proceeds
    <3> QED
        BY <3>6, <3>7, <3>8, ThreadMoves
  <2> QED
      BY <2>1, <2>2
<1>3. Shared'
      BY DEF GetCluster, LifecycleIInv, Shared
<1> QED
    BY <1>2, <1>3 DEF LifecycleIInv, Aside, GetCluster

LEMMA CheckAbsentStep ==
    ASSUME LifecycleIInv, NEW t \in Threads, CheckAbsent(t)
    PROVE  LifecycleIInv' /\ Aside
<1> DEFINE s    == thread[t]
           copy == NewCluster(Cluster(t))
           r    == [[s EXCEPT !.read = NoRecord, !.copy = copy] EXCEPT !.program = Tail(s.program)]
<1>0. At(t, "absent") /\ "absent" \notin Writes
      BY DEF CheckAbsent, Writes
<1>1. /\ s \in ThreadState /\ Threading(s) /\ s.program # <<>> /\ s.data = Repo!NoData
      /\ s.program \in Seq(Instruction) /\ Cluster(t) \in Names
      BY <1>0, AtFacts
<1>2. /\ thread' \in [Threads -> ThreadState]
      /\ \A u \in Threads : Threading(thread[u])'
      /\ \A u \in Threads : thread'[u].data = thread[u].data
  <2>1. CASE Repo!HasCluster(db, Cluster(t))
        BY <1>0, <2>1, FailStep DEF CheckAbsent
  <2>2. CASE ~Repo!HasCluster(db, Cluster(t))
    <3>1. copy \in Repo!Cluster /\ Tail(s.program) \in Seq(Instruction)
          BY <1>1, NewClusterType
    <3> HIDE DEF copy
    <3>2. /\ r \in ThreadState /\ r.program = Tail(s.program) /\ r.copy = copy
          /\ r.request = s.request /\ r.ok = s.ok /\ r.err = s.err /\ r.data = s.data
          BY <1>1, <3>1 DEF ThreadState, Records
    <3>3. thread' = [thread EXCEPT ![t] = r]
          BY <2>2 DEF CheckAbsent, Proceed, Continue, copy
    <3> HIDE DEF r
    <3>4. Threading(r)
          BY <1>1, <3>1, <3>2, Proceeds
    <3> QED
        BY <3>2, <3>3, <3>4, ThreadMoves
  <2> QED
      BY <2>1, <2>2
<1>3. Shared'
      BY DEF CheckAbsent, LifecycleIInv, Shared
<1> QED
    BY <1>2, <1>3 DEF LifecycleIInv, Aside, CheckAbsent

\* An instruction that is neither a copy nor a write, and succeeds
LEMMA PlainProceed ==
    ASSUME LifecycleIInv, NEW t \in Threads, NEW d, At(t, d),
           d \notin Writes, d \notin {"get", "absent"}, Proceed(t, thread[t])
    PROVE  /\ thread' \in [Threads -> ThreadState]
           /\ \A u \in Threads : Threading(thread[u])'
           /\ \A u \in Threads : thread'[u].data = thread[u].data
<1> DEFINE s == thread[t]
           r == [s EXCEPT !.program = Tail(s.program)]
<1>1. /\ s \in ThreadState /\ Threading(s) /\ s.program # <<>> /\ s.data = Repo!NoData
      /\ s.program \in Seq(Instruction) /\ Head(s.program).do = d
      BY AtFacts
<1>2. Tail(s.program) \in Seq(Instruction) /\ ~Copies(Head(s.program))
      BY <1>1 DEF Copies
<1>3. /\ r \in ThreadState /\ r.program = Tail(s.program)
      /\ r.request = s.request /\ r.ok = s.ok /\ r.err = s.err /\ r.data = s.data
      BY <1>1, <1>2 DEF ThreadState
<1>4. thread' = [thread EXCEPT ![t] = r]
      BY DEF Proceed, Continue
<1> HIDE DEF r
<1>5. Threading(r)
      BY <1>1, <1>2, <1>3, Proceeds
<1> QED
    BY <1>3, <1>4, <1>5, ThreadMoves

LEMMA CheckNotLastStep ==
    ASSUME LifecycleIInv, NEW t \in Threads, CheckNotLast(t)
    PROVE  LifecycleIInv' /\ Aside
<1> DEFINE s    == thread[t]
           body == s.copy.body
           r    == [s EXCEPT !.program = <<Log("error")>>]
<1>0. /\ At(t, "notLast") /\ "notLast" \notin Writes /\ "notLast" \notin {"get", "absent"}
      BY DEF CheckNotLast, Writes
<1>1. /\ s \in ThreadState /\ Threading(s) /\ s.program # <<>> /\ s.data = Repo!NoData
      /\ s.program \in Seq(Instruction) /\ s.request # NoRequest
      BY <1>0, AtFacts
<1>2. /\ thread' \in [Threads -> ThreadState]
      /\ \A u \in Threads : Threading(thread[u])'
      /\ \A u \in Threads : thread'[u].data = thread[u].data
  <2>1. CASE IsSingle(body)
    <3>1. <<Log("error")>> \in Seq(Instruction)
          BY InstructionTypes DEF Levels
    <3>2. /\ r \in ThreadState /\ r.program = <<Log("error")>>
          /\ r.request = s.request /\ r.ok = s.ok /\ r.err = s.err /\ r.data = s.data
          BY <1>1, <3>1 DEF ThreadState
    <3>3. thread' = [thread EXCEPT ![t] = r]
          BY <2>1 DEF CheckNotLast, Continue
    <3>4. /\ Len(<<Log("error")>>) = 1 /\ <<Log("error")>>[1].do = "log"
          BY DEF Log
    <3> HIDE DEF r
    <3>5. Threading(r)
          BY <1>1, <3>2, <3>4 DEF Threading, Sound
    <3> QED
        BY <3>2, <3>3, <3>5, ThreadMoves
  <2>2. CASE ~IsSingle(body) /\ EditFails("findWithPeer", body, NodeOf(t))
        BY <1>0, <2>2, FailStep DEF CheckNotLast
  <2>3. CASE ~IsSingle(body) /\ ~EditFails("findWithPeer", body, NodeOf(t))
        BY <1>0, <2>3, PlainProceed DEF CheckNotLast
  <2> QED
      BY <2>1, <2>2, <2>3
<1>3. Shared'
      BY DEF CheckNotLast, LifecycleIInv, Shared
<1> QED
    BY <1>2, <1>3 DEF LifecycleIInv, Aside, CheckNotLast

LEMMA DoWorkStep ==
    ASSUME LifecycleIInv, NEW t \in Threads, DoWork(t)
    PROVE  LifecycleIInv' /\ Aside
<1>1. At(t, "work") /\ "work" \notin Writes /\ "work" \notin {"get", "absent"}
      BY DEF DoWork, Writes
<1>2. /\ thread' \in [Threads -> ThreadState]
      /\ \A u \in Threads : Threading(thread[u])'
      /\ \A u \in Threads : thread'[u].data = thread[u].data
      BY <1>1, FailStep, PlainProceed DEF DoWork
<1>3. Shared'
      BY DEF DoWork, LifecycleIInv, Shared
<1> QED
    BY <1>2, <1>3 DEF LifecycleIInv, Aside, DoWork

LEMMA SendEventStep ==
    ASSUME LifecycleIInv, NEW t \in Threads, SendEvent(t)
    PROVE  LifecycleIInv' /\ Aside
<1>1. At(t, "send") /\ "send" \notin Writes /\ "send" \notin {"get", "absent"}
      BY DEF SendEvent, Writes
<1>2. /\ thread' \in [Threads -> ThreadState]
      /\ \A u \in Threads : Threading(thread[u])'
      /\ \A u \in Threads : thread'[u].data = thread[u].data
      BY <1>1, PlainProceed DEF SendEvent
<1>3. thread[t].request \in Event
  <2>1. /\ thread[t].request \in Request /\ Threading(thread[t])
        /\ 1 \in 1..Len(thread[t].program) /\ thread[t].program[1].do = "send"
    <3>1. /\ thread[t].request \in Request /\ Threading(thread[t])
          /\ 1 \in 1..Len(thread[t].program) /\ Head(thread[t].program).do = "send"
          /\ Head(thread[t].program) = thread[t].program[1]
          BY <1>1, AtFacts
    <3> QED
        BY <3>1
  <2> QED
      BY <2>1 DEF Threading, Event
<1>4. queue' \in Seq(Event) /\ Len(queue') <= Capacity
  <2>1. queue \in Seq(Event) /\ Len(queue) < Capacity /\ queue' = Append(queue, thread[t].request)
        BY DEF SendEvent, LifecycleIInv, Shared
  <2>2. Len(queue') = Len(queue) + 1 /\ queue' \in Seq(Event)
        BY <1>3, <2>1
  <2> QED
      BY <2>1, <2>2, ThreadAssumption
<1>5. Shared'
      BY <1>4 DEF SendEvent, LifecycleIInv, Shared
<1> QED
    BY <1>2, <1>5 DEF LifecycleIInv, Aside, SendEvent

LEMMA LoadFileStep ==
    ASSUME LifecycleIInv, NEW t \in Threads, LoadFile(t)
    PROVE  /\ LifecycleIInv' /\ db' = db /\ db \in Repo!DB /\ thread[t].data = Repo!NoData
           /\ \A u \in Threads : thread'[u].data = IF u = t THEN db ELSE thread[u].data
<1> DEFINE s == thread[t]
           r == [s EXCEPT !.data = db]
<1>1. PICK d \in Writes : At(t, d)
      BY DEF LoadFile
<1>2. /\ s \in ThreadState /\ Threading(s) /\ s.request # NoRequest
      /\ s.program # <<>> /\ Head(s.program).do \in Writes
      BY <1>1, AtFacts
<1>3. db \in Repo!DB /\ db' = db /\ s.data = Repo!NoData
      BY DEF LoadFile, LifecycleIInv, Shared
<1>4. /\ r \in ThreadState /\ r.data = db /\ r.program = s.program /\ r.copy = s.copy
      /\ r.request = s.request /\ r.ok = s.ok /\ r.err = s.err
      BY <1>2, <1>3 DEF ThreadState
<1>5. thread' = [thread EXCEPT ![t] = r]
      BY DEF LoadFile
<1> HIDE DEF r
<1>6. Threading(r)
      BY <1>2, <1>4 DEF Threading
<1>7. /\ thread' \in [Threads -> ThreadState]
      /\ \A u \in Threads : Threading(thread[u])'
      BY <1>4, <1>5, <1>6, ThreadMoves
<1>8. \A u \in Threads : thread'[u].data = IF u = t THEN db ELSE thread[u].data
      BY <1>4, <1>5 DEF LifecycleIInv
<1>9. Shared'
      BY DEF LoadFile, LifecycleIInv, Shared
<1> QED
    BY <1>3, <1>7, <1>8, <1>9 DEF LifecycleIInv

LEMMA SaveFileStep ==
    ASSUME LifecycleIInv, NEW t \in Threads, SaveFile(t)
    PROVE  /\ LifecycleIInv' /\ thread[t].data \in Repo!DB /\ WriteOp(t) \in Repo!WriteOps
           /\ \A u \in Threads : thread'[u].data = IF u = t THEN Repo!NoData ELSE thread[u].data
<1> DEFINE s == thread[t]
           q == IF At(t, "save")
                THEN [s EXCEPT !.data = Repo!NoData, !.copy = NoRecord, !.read = NoRecord]
                ELSE [s EXCEPT !.data = Repo!NoData]
           r == [q EXCEPT !.program = Tail(q.program)]
<1>1. /\ s \in ThreadState /\ Threading(s) /\ s.data # Repo!NoData
      /\ s.program # <<>> /\ Head(s.program).do \in Writes
      BY DEF SaveFile, LifecycleIInv, Threading
<1>2. s.data \in Repo!DB /\ s.program \in Seq(Instruction)
      BY <1>1 DEF ThreadState
<1>3. \E i \in Writes : At(t, i)
      BY <1>1 DEF At
<1>4. WriteOp(t) \in Repo!WriteOps
      BY <1>3, WriteOpType
<1>5. db' \in Repo!DB
      BY <1>2, <1>4, ApplyType DEF SaveFile
<1>6. /\ q \in ThreadState /\ q.data = Repo!NoData /\ q.program = s.program
      /\ q.request = s.request /\ q.ok = s.ok /\ q.err = s.err
      BY <1>1 DEF ThreadState, Records
<1>7. thread' = [thread EXCEPT ![t] = r]
      BY DEF SaveFile, Proceed, Continue
<1> HIDE DEF q
<1>8. /\ r \in ThreadState /\ r.data = Repo!NoData /\ r.program = Tail(s.program)
      /\ r.request = s.request /\ r.ok = s.ok /\ r.err = s.err
  <2>1. Tail(s.program) \in Seq(Instruction) /\ Tail(q.program) = Tail(s.program)
        BY <1>1, <1>2, <1>6
  <2> QED
      BY <1>6, <2>1 DEF ThreadState
<1>9. ~Copies(Head(s.program))
      BY <1>1 DEF Copies, Writes
<1> HIDE DEF r
<1>10. Threading(r)
       BY <1>1, <1>8, <1>9, Proceeds
<1>11. /\ thread' \in [Threads -> ThreadState]
       /\ \A u \in Threads : Threading(thread[u])'
       BY <1>7, <1>8, <1>10, ThreadMoves
<1>12. \A u \in Threads : thread'[u].data = IF u = t THEN Repo!NoData ELSE thread[u].data
       BY <1>7, <1>8 DEF LifecycleIInv
<1>13. Shared'
  <2>1. lost' \in BOOLEAN /\ cleared' \subseteq Names
        BY <1>3, AtFacts DEF SaveFile, Remember, LifecycleIInv, Shared, Erases
  <2> QED
      BY <1>5, <2>1 DEF SaveFile, LifecycleIInv, Shared
<1> QED
    BY <1>2, <1>4, <1>11, <1>12, <1>13 DEF LifecycleIInv

LEMMA CrashStep ==
    ASSUME LifecycleIInv, Crash
    PROVE  LifecycleIInv' /\ db' = db /\ \A u \in Threads : thread'[u].data = Repo!NoData
<1>1. /\ thread' \in [Threads -> ThreadState]
      /\ \A u \in Threads : Threading(thread[u])' /\ thread'[u].data = Repo!NoData
  <2>1. \A u \in Threads : thread'[u] = Resting
        BY DEF Crash
  <2>2. \A u \in Threads : Threading(thread[u])'
        BY <2>1, RestingType DEF Threading
  <2> QED
      BY <2>1, <2>2, RestingType DEF Crash, Resting
<1>2. Shared'
  <2>1. kills' \in Nat /\ kills' <= kills /\ kills \in Nat
        BY DEF Crash, LifecycleIInv, Shared
  <2>2. PICK s \in Scenarios : todo \subseteq s.requests /\ kills <= s.kills
        BY DEF LifecycleIInv, Shared
  <2>3. s.kills \in Nat
        BY ScenarioAssumption DEF Scenario
  <2>4. todo' \subseteq s.requests /\ kills' <= s.kills
        BY <2>1, <2>2, <2>3 DEF Crash
  <2>5. <<>> \in Seq(Event) /\ Len(<<>>) <= Capacity
        BY ThreadAssumption
  <2> QED
      BY <2>1, <2>4, <2>5 DEF Crash, LifecycleIInv, Shared
<1> QED
    BY <1>1, <1>2 DEF LifecycleIInv, Crash

(* LifecycleIInv is inductive: no instruction of any program saves a record *)
(* without a copy, and data is held in the middle of a write only.          *)
LEMMA LifecycleInvariant == Spec => []LifecycleIInv
<1>1. LifecycleIInv /\ [Next]_vars => LifecycleIInv'
  <2> SUFFICES ASSUME LifecycleIInv, [Next]_vars
               PROVE  LifecycleIInv'
      OBVIOUS
  <2>1. ASSUME NEW t \in Threads, Call(t) \/ Step(t)
        PROVE  LifecycleIInv'
        BY <2>1, CallStep, FinishStep, EnterUseCaseStep, GetClusterStep, CheckAbsentStep,
           CheckNotLastStep, DoWorkStep, SendEventStep, LoadFileStep, SaveFileStep DEF Step
  <2>2. CASE Receive
        BY <2>2, ReceiveStep
  <2>3. CASE Crash
        BY <2>3, CrashStep
  <2>4. CASE UNCHANGED vars
    <3> QED
        BY <2>4 DEF vars, LifecycleIInv, Shared, Threading
  <2> QED
      BY <2>1, <2>2, <2>3, <2>4 DEF Next
<1> QED
    BY <1>1, LifecycleInit, PTL DEF Spec

(* The worker and any number of handlers keep to the types: in particular   *)
(* the channel never holds more than its capacity.                          *)
THEOREM LifecycleTypeOK == Spec => []TypeOK
BY LifecycleInvariant, LifecycleTypes, PTL

LEMMA StoreInit == Init => Store!Init
<1> DEFINE loaded == [t \in Threads |-> thread[t].data]
<1> SUFFICES ASSUME Init PROVE Store!Init
    OBVIOUS
<1>1. db \in Store!DB
      BY LifecycleInit DEF LifecycleIInv, Shared, Store!DB, Repo!DB, Store!Cluster,
         Repo!Cluster, Store!LogEntry, Repo!LogEntry
<1>2. \A n \in Names : InSync(n).name = n
      BY DEF InSync, NewCluster
<1>3. Store!NamesUnique(db)
      BY <1>2 DEF Init, Repo!EmptyDB, Store!NamesUnique
<1>4. loaded = [t \in Threads |-> Store!NoData]
      BY DEF Init, Resting, Repo!NoData, Store!NoData
<1> QED
    BY <1>1, <1>3, <1>4 DEF Store!Init

LEMMA StoreStep ==
    LifecycleIInv /\ [Next]_vars =>
        [\/ \E t \in Threads : \/ Store!Load(t)
                               \/ SaveFile(t) /\ Store!Commit(t, WriteOp(t))
         \/ Store!Forget(Threads)]_(Store!vars)
<1> DEFINE loaded == [t \in Threads |-> thread[t].data]
<1> SUFFICES ASSUME LifecycleIInv, [Next]_vars
             PROVE  \/ db' = db /\ loaded' = loaded
                    \/ \E t \in Threads : \/ Store!Load(t)
                                          \/ SaveFile(t) /\ Store!Commit(t, WriteOp(t))
                    \/ Store!Forget(Threads)
    BY DEF Store!vars
<1>1. ASSUME Aside PROVE db' = db /\ loaded' = loaded
      BY <1>1 DEF Aside
<1>2. ASSUME NEW t \in Threads,
             \/ Call(t) \/ Finish(t) \/ EnterUseCase(t) \/ GetCluster(t) \/ CheckAbsent(t)
             \/ CheckNotLast(t) \/ DoWork(t) \/ SendEvent(t)
      PROVE  Aside
      BY <1>2, CallStep, FinishStep, EnterUseCaseStep, GetClusterStep, CheckAbsentStep,
         CheckNotLastStep, DoWorkStep, SendEventStep
<1>3. ASSUME NEW t \in Threads, LoadFile(t) PROVE Store!Load(t)
  <2>1. /\ db' = db /\ db \in Repo!DB /\ thread[t].data = Repo!NoData
        /\ \A u \in Threads : thread'[u].data = IF u = t THEN db ELSE thread[u].data
        BY <1>3, LoadFileStep
  <2>2. loaded' = [loaded EXCEPT ![t] = db] /\ loaded[t] = Store!NoData
        BY <2>1 DEF Repo!NoData, Store!NoData
  <2>3. db # Unreadable
        BY <2>1, NoFileAssumption
  <2> QED
      BY <2>1, <2>2, <2>3 DEF Store!Load
<1>4. ASSUME NEW t \in Threads, SaveFile(t) PROVE Store!Commit(t, WriteOp(t))
  <2>1. /\ thread[t].data # Repo!NoData
        /\ \A u \in Threads : thread'[u].data = IF u = t THEN Repo!NoData ELSE thread[u].data
        BY <1>4, SaveFileStep DEF SaveFile
  <2>2. loaded' = [loaded EXCEPT ![t] = Store!NoData] /\ loaded[t] # Store!NoData
        BY <2>1 DEF Repo!NoData, Store!NoData
  <2>3. db' = Repo!Apply(WriteOp(t), loaded[t])
        BY <1>4 DEF SaveFile
  <2>4. ASSUME NEW o, NEW d PROVE Repo!Apply(o, d) = Store!Apply(o, d)
        BY DEF Repo!Apply, Store!Apply, Repo!SaveCluster, Store!SaveCluster, Repo!HasCluster,
           Store!HasCluster, Repo!DeleteCluster, Store!DeleteCluster, Repo!DeleteLogs,
           Store!DeleteLogs, Repo!SaveLog, Store!SaveLog
  <2> QED
      BY <2>2, <2>3, <2>4 DEF Store!Commit
<1>5. ASSUME Crash PROVE Store!Forget(Threads)
      BY <1>5, CrashStep DEF Store!Forget, Repo!NoData, Store!NoData
<1>6. ASSUME UNCHANGED vars PROVE db' = db /\ loaded' = loaded
      BY <1>6 DEF vars
<1>7. ASSUME Receive PROVE Aside
      BY <1>7, ReceiveStep
<1> QED
    BY <1>1, <1>2, <1>3, <1>4, <1>5, <1>6, <1>7 DEF Next, Step

(* Whatever is requested of whatever clusters, in whatever order, every     *)
(* handler, the dispatcher and every use case touch the file only in the    *)
(* load and the save of SnapshotStore, and save what they are at.           *)
THEOREM LifecycleRefinesStore == Spec => RefinesStore
BY StoreInit, StoreStep, LifecycleInvariant, PTL DEF Spec, RefinesStore

(* The whole backend implements the store: what it saves is one of the      *)
(* repository's operations, on a record or an entry of the right type.      *)
THEOREM LifecycleImplementsStore == Spec => Store!Spec
<1>1. LifecycleIInv /\ [Next]_vars => [Store!Next]_(Store!vars)
  <2> SUFFICES ASSUME LifecycleIInv, [Next]_vars
               PROVE  [Store!Next]_(Store!vars)
      OBVIOUS
  <2>1. ASSUME NEW t \in Threads, SaveFile(t), Store!Commit(t, WriteOp(t)) PROVE Store!Next
    <3>1. WriteOp(t) \in Repo!WriteOps
          BY <2>1, SaveFileStep
    <3>2. WriteOp(t) \in Store!WriteOps
          BY <3>1 DEF Repo!WriteOps, Store!WriteOps, Repo!SaveClusterOps, Store!SaveClusterOps,
             Repo!DeleteClusterOps, Store!DeleteClusterOps, Repo!SaveLogOps, Store!SaveLogOps,
             Repo!DeleteLogsOps, Store!DeleteLogsOps, Repo!Cluster, Store!Cluster,
             Repo!LogEntry, Store!LogEntry
    <3>3. \E o \in Store!WriteOps : Store!Commit(t, o)
      <4> DEFINE o == WriteOp(t)
      <4>1. o \in Store!WriteOps /\ Store!Commit(t, o)
            BY <2>1, <3>2
      <4> HIDE DEF o
      <4> QED
          BY <4>1 DEF Store!Commit
    <3> QED
        BY <3>3 DEF Store!Next
  <2> QED
      BY <2>1, StoreStep DEF Store!Next
<1> QED
    BY <1>1, StoreInit, LifecycleInvariant, PTL DEF Spec, Store!Spec
-----------------------------------------------------------------------------
(***************************************************************************)
(* What is left when nothing is running any more.  A record that is in a   *)
(* passing state, and a node that is locked, has an event in the channel   *)
(* that will settle it, or a thread that answers for it: whatever happens  *)
(* to that thread it sends the event, saves a final state, erases the      *)
(* record, unlocks or removes the node, or logs an error (Owner, Unlocker).*)
(* That holds of the file as long as each save puts back what was there    *)
(* but for the mark of its own request (CopyFits), which is why it is said *)
(* of behaviours that have lost nothing only.                              *)
(***************************************************************************)
Passing   == {"Pending", "Creating", "Destroying"}
Final     == {"Sync", "Error"}
LockEdits == {"lockChange", "lockDelete", "lockCreate"}
Settling  == {"create", "delete"}
Locking   == {"add", "change", "deleteNode"}

\* The instructions after which a copy may have a passing state, or a lock
Marking(i) == i.do = "absent" \/ (i.do = "get" /\ i.edit \in Passing \cup LockEdits)
Plain(p)   == \A i \in 1..Len(p) : ~Marking(p[i])

Marks == {[kind |-> "create", program |-> CreateHandler],
          [kind |-> "create", program |-> Dispatch("create")],
          [kind |-> "delete", program |-> DeleteHandler],
          [kind |-> "change", program |-> ChangeHandler],
          [kind |-> "add", program |-> AddHandler],
          [kind |-> "deleteNode", program |-> DelNodeHandler],
          [kind |-> "deleteNode", program |-> <<Get("lockDelete"), Save, Send>>]}

\* What is left of a program that has just marked
Marked == {<<Save, Send>>, <<Save, Log("info"), Send>>, <<Save, UseCase>>}

\* Only a creation and a deletion put a record in a passing state, and only
\* the requests about a node lock one.
Shape(s) ==
    /\ Plain(s.ok) /\ Plain(s.err)
    /\ Plain(s.program) \/ [kind |-> s.request.kind, program |-> s.program] \in Marks

(* What a thread that is about to save will make of the state of the record *)
(* and of its locks: what they were in the file, but for its own mark.      *)
StatusFits(s) ==
    \/ s.request.kind \in Settling /\ s.program \in Marked
    \/ s.copy.body.status \in Final
    \/ s.read # NoRecord /\ s.copy.body.status = s.read.body.status

LocksFit(s) ==
    \A x \in NodeNames : IsLocked(s.copy.body, x) =>
        \/ s.request.kind \in Locking /\ s.program \in Marked /\ x = s.request.node
        \/ s.read # NoRecord /\ IsLocked(s.read.body, x)

CopyFits(s) ==
    s.program # <<>> /\ Head(s.program).do = "save" =>
        s.copy.name = s.request.name /\ StatusFits(s) /\ LocksFit(s)

DeletePrograms ==
    {DeleteCluster, <<Work, Log("info"), Work, Erase>>, <<Log("info"), Work, Erase>>,
     <<Work, Erase>>, <<Erase>>}

\* Whatever happens to this thread, it sends the event, or settles or erases the record.
Owner(s) ==
    /\ s.request.kind \in Settling
    /\ \/ s.program \in {<<Log("info"), Send>>, <<Send>>}
       \/ s.program \in {Dispatch("create"), <<Save, UseCase>>, <<UseCase>>}
       \/ s.err = ErrArm /\ s.request.kind = "create" /\ s.ok = OkArm("create")
       \/ s.err = ErrArm /\ s.request.kind = "delete" /\ s.program \in DeletePrograms
       \/ s.program \in {OkArm("create"), ErrArm}
       \/ /\ s.program \in {<<Save, Log("info")>>, <<Save, Log("error")>>}
          /\ s.copy.body.status \in Final

\* The copy has no lock on the node of the request.
Clean(s) == ~IsLocked(s.copy.body, s.request.node)

\* A deletion that has not removed the node yet
DeleteNodePrograms ==
    {DeleteNode,
     <<Get("keep"), NotLast, Work, Log("info"), Work, Get("remove"), Save, Get("keep"), Work>>,
     <<NotLast, Work, Log("info"), Work, Get("remove"), Save, Get("keep"), Work>>,
     <<Work, Log("info"), Work, Get("remove"), Save, Get("keep"), Work>>,
     <<Log("info"), Work, Get("remove"), Save, Get("keep"), Work>>,
     <<Work, Get("remove"), Save, Get("keep"), Work>>,
     <<Get("remove"), Save, Get("keep"), Work>>}

\* Whatever happens to this thread, it sends the event, unlocks or removes the
\* node of its request, or logs an error.
Unlocker(s) ==
    /\ s.request.kind \in Locking
    /\ \/ s.program \in {<<Log("info"), Send>>, <<Send>>, <<UseCase>>}
       \/ s.err = ErrArm /\ s.request.kind = "add" /\ s.ok = OkArm("add")
       \/ s.err = ErrArm /\ s.request.kind = "change" /\ s.ok = OkArm("change")
       \/ s.err = ErrArm /\ s.request.kind = "deleteNode" /\ s.program \in DeleteNodePrograms
       \/ s.program \in {ErrArm, <<Save, Log("error")>>, <<Log("error")>>}
       \/ s.program \in {OkArm("add"), <<Get("unlock"), Save, Get("Sync"), Save>>}
       \/ s.program \in {OkArm("change"), <<Get("Sync"), Save, Get("unlock"), Save>>,
                         <<Save, Get("unlock"), Save>>, <<Get("unlock"), Save>>}
       \/ /\ s.program \in {<<Save, Get("Sync"), Save>>, <<Save>>, <<Save, Get("keep"), Work>>}
          /\ Clean(s)

Waits(n)  == \E i \in 1..Len(queue) : queue[i].name = n /\ queue[i].kind \in Settling
Serves(n) == \E t \in Threads : Owner(thread[t]) /\ thread[t].request.name = n

Owned ==
    \A c \in db.clusters : c.body.status \in Passing => Waits(c.name) \/ Serves(c.name)

WaitsAt(n, x) ==
    \E i \in 1..Len(queue) : queue[i].kind \in Locking /\ queue[i].name = n /\ queue[i].node = x
ServesAt(n, x) ==
    \E t \in Threads :
        Unlocker(thread[t]) /\ thread[t].request.name = n /\ thread[t].request.node = x
Told(n) == ErrorOf(n) \in db.action_log \/ n \in cleared

\* The record of cluster n has a lock on node x.
Locked(d, n, x) ==
    \E c \in d.clusters : c.name = n /\ IsLocked(c.body, x)

Explained ==
    \A c \in db.clusters : \A x \in NodeNames :
        IsLocked(c.body, x) => Told(c.name) \/ WaitsAt(c.name, x) \/ ServesAt(c.name, x)

SettledIInv ==
    /\ LifecycleIInv
    /\ \A t \in Threads : Shape(thread[t]) /\ CopyFits(thread[t])
    /\ ~lost => Repo!NamesUnique(db) /\ Owned /\ Explained
-----------------------------------------------------------------------------
(* Instructions and programs *)
LEMMA Does ==
    /\ \A e : Get(e).do = "get" /\ Get(e).edit = e
    /\ \A l : Log(l).do = "log" /\ Log(l).level = l
    /\ Absent.do = "absent" /\ Save.do = "save" /\ Erase.do = "erase" /\ ClearLogs.do = "clear"
    /\ Work.do = "work" /\ Send.do = "send" /\ UseCase.do = "useCase" /\ NotLast.do = "notLast"
BY DEF Get, Log, Absent, Save, Erase, ClearLogs, Work, Send, UseCase, NotLast

(* What SMT does not see by itself of short sequences *)
LEMMA Walk ==
    /\ \A a : Head(<<a>>) = a /\ Tail(<<a>>) = <<>> /\ <<a>> # <<>>
    /\ \A a, b : Head(<<a, b>>) = a /\ Tail(<<a, b>>) = <<b>>
    /\ \A a, b, c : Head(<<a, b, c>>) = a /\ Tail(<<a, b, c>>) = <<b, c>>
    /\ \A a, b, c, d : Head(<<a, b, c, d>>) = a /\ Tail(<<a, b, c, d>>) = <<b, c, d>>
    /\ \A a, b, c, d, e : Head(<<a, b, c, d, e>>) = a /\ Tail(<<a, b, c, d, e>>) = <<b, c, d, e>>
    /\ \A a, b, c, d, e, f :
          Head(<<a, b, c, d, e, f>>) = a /\ Tail(<<a, b, c, d, e, f>>) = <<b, c, d, e, f>>
    /\ \A a, b, c, d, e, f, g :
          Head(<<a, b, c, d, e, f, g>>) = a /\ Tail(<<a, b, c, d, e, f, g>>) = <<b, c, d, e, f, g>>
    /\ \A a, b, c, d, e, f, g, h :
          Head(<<a, b, c, d, e, f, g, h>>) = a /\ Tail(<<a, b, c, d, e, f, g, h>>) = <<b, c, d, e, f, g, h>>
    /\ \A a, b, c, d, e, f, g, h, i :
          Head(<<a, b, c, d, e, f, g, h, i>>) = a /\ Tail(<<a, b, c, d, e, f, g, h, i>>) = <<b, c, d, e, f, g, h, i>>
    /\ \A a, b, c, d, e, f, g, h, i, j :
          Head(<<a, b, c, d, e, f, g, h, i, j>>) = a /\ Tail(<<a, b, c, d, e, f, g, h, i, j>>) = <<b, c, d, e, f, g, h, i, j>>
OBVIOUS

(* The programs of the dispatcher as they are, without concatenation *)
LEMMA TwoAndOne ==
    ASSUME NEW a, NEW b, NEW c
    PROVE  <<a, b>> \o <<c>> = <<a, b, c>>
<1> DEFINE S == {a, b, c}
           p == <<a, b>>
           q == <<c>>
           x == p \o q
           y == <<a, b, c>>
<1>1. p \in Seq(S) /\ q \in Seq(S) /\ Len(p) = 2 /\ Len(q) = 1 /\ p[1] = a /\ p[2] = b /\ q[1] = c
      OBVIOUS
<1>2. y \in Seq(S) /\ Len(y) = 3 /\ y[1] = a /\ y[2] = b /\ y[3] = c
      OBVIOUS
<1> HIDE DEF p, q, y, S
<1>3. /\ x \in Seq(S) /\ Len(x) = Len(p) + Len(q)
      /\ \A i \in 1..Len(p) + Len(q) : x[i] = IF i <= Len(p) THEN p[i] ELSE q[i - Len(p)]
      BY <1>1, ConcatProperties
<1> HIDE DEF x
<1>4. Len(x) = 3 /\ x[1] = p[1] /\ x[2] = p[2] /\ x[3] = q[3 - 2]
      BY <1>1, <1>3
<1>5. x = y
      BY <1>1, <1>2, <1>3, <1>4, SeqEqual
<1> QED
    BY <1>5 DEF x, y, p, q

LEMMA OneAndTwo ==
    ASSUME NEW a, NEW b, NEW c
    PROVE  <<a>> \o <<b, c>> = <<a, b, c>>
<1> DEFINE S == {a, b, c}
           p == <<a>>
           q == <<b, c>>
           x == p \o q
           y == <<a, b, c>>
<1>1. p \in Seq(S) /\ q \in Seq(S) /\ Len(p) = 1 /\ Len(q) = 2 /\ p[1] = a /\ q[1] = b /\ q[2] = c
      OBVIOUS
<1>2. y \in Seq(S) /\ Len(y) = 3 /\ y[1] = a /\ y[2] = b /\ y[3] = c
      OBVIOUS
<1> HIDE DEF p, q, y, S
<1>3. /\ x \in Seq(S) /\ Len(x) = Len(p) + Len(q)
      /\ \A i \in 1..Len(p) + Len(q) : x[i] = IF i <= Len(p) THEN p[i] ELSE q[i - Len(p)]
      BY <1>1, ConcatProperties
<1> HIDE DEF x
<1>4. Len(x) = 3 /\ x[1] = p[1] /\ x[2] = q[2 - 1] /\ x[3] = q[3 - 1]
      BY <1>1, <1>3
<1>5. x = y
      BY <1>1, <1>2, <1>3, <1>4, SeqEqual
<1> QED
    BY <1>5 DEF x, y, p, q

LEMMA ThreeAndTwo ==
    ASSUME NEW a, NEW b, NEW c, NEW d, NEW e
    PROVE  <<a, b, c>> \o <<d, e>> = <<a, b, c, d, e>>
<1> DEFINE S == {a, b, c, d, e}
           p == <<a, b, c>>
           q == <<d, e>>
           x == p \o q
           y == <<a, b, c, d, e>>
<1>1. /\ p \in Seq(S) /\ Len(p) = 3 /\ p[1] = a /\ p[2] = b /\ p[3] = c
      /\ q \in Seq(S) /\ Len(q) = 2 /\ q[1] = d /\ q[2] = e
      OBVIOUS
<1>2. y \in Seq(S) /\ Len(y) = 5 /\ y[1] = a /\ y[2] = b /\ y[3] = c /\ y[4] = d /\ y[5] = e
      OBVIOUS
<1> HIDE DEF p, q, y, S
<1>3. /\ x \in Seq(S) /\ Len(x) = Len(p) + Len(q)
      /\ \A i \in 1..Len(p) + Len(q) : x[i] = IF i <= Len(p) THEN p[i] ELSE q[i - Len(p)]
      BY <1>1, ConcatProperties
<1> HIDE DEF x
<1>4. /\ Len(x) = 5 /\ x[1] = p[1] /\ x[2] = p[2] /\ x[3] = p[3]
      /\ x[4] = q[4 - 3] /\ x[5] = q[5 - 3]
      BY <1>1, <1>3
<1> HIDE DEF y
<1>5. \A i \in 1..Len(x) : x[i] = y[i]
  <2> SUFFICES ASSUME NEW i \in 1..Len(x) PROVE x[i] = y[i]
      OBVIOUS
  <2>1. i = 1 \/ i = 2 \/ i = 3 \/ i = 4 \/ i = 5
        BY <1>4
  <2> QED
      BY <1>1, <1>2, <1>4, <2>1
<1>6. x = y
      BY <1>2, <1>3, <1>4, <1>5, SeqEqual
<1> QED
    BY <1>6 DEF x, y, p, q

LEMMA Literals ==
    /\ Dispatch("create") = <<Get("Creating"), Save, UseCase>> /\ Dispatch("delete") = <<UseCase>>
    /\ \A k \in Locking : Dispatch(k) = <<UseCase>>
    /\ OkArm("create") = <<Get("Sync"), Save, Log("info")>>
    /\ OkArm("add") = <<Log("info"), Get("unlock"), Save, Get("Sync"), Save>>
    /\ OkArm("change") = <<Log("info"), Get("Sync"), Save, Get("unlock"), Save>>
    /\ ErrArm = <<Get("Error"), Save, Log("error")>>
<1>1. <<UseCase>> \in Seq({UseCase})
      OBVIOUS
<1>2. <<>> \o <<UseCase>> = <<UseCase>>
      BY <1>1, ConcatEmptySeq
<1>3. /\ Dispatch("create") = <<Get("Creating"), Save, UseCase>> /\ Dispatch("delete") = <<UseCase>>
      /\ \A k \in Locking : Dispatch(k) = <<UseCase>>
      BY <1>2, TwoAndOne DEF Dispatch, UpdateStatus, Locking
<1>4. /\ OkArm("create") = <<Get("Sync"), Save, Log("info")>>
      /\ ErrArm = <<Get("Error"), Save, Log("error")>>
      BY TwoAndOne DEF OkArm, ErrArm, UpdateStatus
<1>5. OkArm("add") = <<Log("info"), Get("unlock"), Save, Get("Sync"), Save>>
      BY ThreeAndTwo DEF OkArm, UpdateStatus
<1>6. OkArm("change") = <<Log("info"), Get("Sync"), Save, Get("unlock"), Save>>
  <2>1. <<Log("info")>> \o <<Get("Sync"), Save>> = <<Log("info"), Get("Sync"), Save>>
        BY OneAndTwo
  <2>2. OkArm("change") = (<<Log("info")>> \o <<Get("Sync"), Save>>) \o <<Get("unlock"), Save>>
        BY DEF OkArm, UpdateStatus
  <2> QED
      BY <2>1, <2>2, ThreeAndTwo
<1> QED
    BY <1>3, <1>4, <1>5, <1>6

(* A thread that answers for the state of a record, or for a lock, still   *)
(* does one instruction later, and when it fails.                           *)
LEMMA OwnerTail ==
    ASSUME NEW s \in ThreadState, Owner(s), s.program # <<>>,
           Head(s.program).do \notin {"useCase", "send", "erase"},
           NEW r \in ThreadState, r.program = Tail(s.program),
           r.request = s.request, r.ok = s.ok, r.err = s.err,
           Head(s.program).do = "get" /\ Head(s.program).edit \in Final
              => r.copy.body.status \in Final,
           Head(s.program).do = "save" => s.copy.body.status \notin Final
    PROVE  Owner(r)
<1>1. CASE s.program \in {<<Log("info"), Send>>, <<Send>>}
  <2>1. s.program = <<Log("info"), Send>>
        BY <1>1, Walk, Does
  <2>2. r.program = <<Send>>
        BY <2>1, Walk
  <2> QED
      BY <2>2 DEF Owner
<1>2. CASE s.program \in {Dispatch("create"), <<Save, UseCase>>, <<UseCase>>}
  <2>1. s.program \in {<<Get("Creating"), Save, UseCase>>, <<Save, UseCase>>}
        BY <1>2, Literals, Walk, Does
  <2>2. CASE s.program = <<Get("Creating"), Save, UseCase>>
        BY <2>2, Walk DEF Owner
  <2>3. CASE s.program = <<Save, UseCase>>
        BY <2>3, Walk DEF Owner
  <2> QED
      BY <2>1, <2>2, <2>3
<1>3. CASE s.err = ErrArm /\ s.request.kind = "create" /\ s.ok = OkArm("create")
      BY <1>3 DEF Owner
<1>4. CASE s.err = ErrArm /\ s.request.kind = "delete" /\ s.program \in DeletePrograms
  <2>1. s.program # <<Erase>>
        BY Walk, Does
  <2>2. r.program \in DeletePrograms
    <3>1. CASE s.program = <<Get("findAll"), Work, Log("info"), Work, Erase>>
          BY <3>1, Walk DEF DeletePrograms
    <3>2. CASE s.program = <<Work, Log("info"), Work, Erase>>
          BY <3>2, Walk DEF DeletePrograms
    <3>3. CASE s.program = <<Log("info"), Work, Erase>>
          BY <3>3, Walk DEF DeletePrograms
    <3>4. CASE s.program = <<Work, Erase>>
          BY <3>4, Walk DEF DeletePrograms
    <3> QED
        BY <1>4, <2>1, <3>1, <3>2, <3>3, <3>4 DEF DeletePrograms, DeleteCluster
  <2> QED
      BY <1>4, <2>2 DEF Owner
<1>5. CASE s.program \in {OkArm("create"), ErrArm}
  <2>1. /\ Head(s.program).do = "get" /\ Head(s.program).edit \in Final
        /\ r.program \in {<<Save, Log("info")>>, <<Save, Log("error")>>}
    <3>1. CASE s.program = <<Get("Sync"), Save, Log("info")>>
          BY <3>1, Walk, Does DEF Final
    <3>2. CASE s.program = <<Get("Error"), Save, Log("error")>>
          BY <3>2, Walk, Does DEF Final
    <3> QED
        BY <1>5, <3>1, <3>2, Literals
  <2> QED
      BY <2>1 DEF Owner
<1>6. CASE /\ s.program \in {<<Save, Log("info")>>, <<Save, Log("error")>>}
           /\ s.copy.body.status \in Final
      BY <1>6, Walk, Does
<1> QED
    BY <1>1, <1>2, <1>3, <1>4, <1>5, <1>6 DEF Owner

LEMMA OwnerFails ==
    ASSUME NEW s \in ThreadState, Owner(s), s.program # <<>>,
           Head(s.program).do \in {"get", "absent", "notLast", "work"},
           NEW r \in ThreadState, r.program = s.err, r.request = s.request
    PROVE  Owner(r) \/ (Head(s.program).do = "get" /\ Head(s.program).edit \in Statuses)
<1>1. CASE s.program \in {<<Log("info"), Send>>, <<Send>>}
      BY <1>1, Walk, Does
<1>2. CASE s.program \in {Dispatch("create"), <<Save, UseCase>>, <<UseCase>>}
  <2>1. s.program = <<Get("Creating"), Save, UseCase>>
        BY <1>2, Walk, Does, Literals
  <2> QED
      BY <2>1, Walk, Does DEF Statuses
<1>3. CASE s.err = ErrArm
      BY <1>3 DEF Owner
<1>4. CASE s.program \in {OkArm("create"), ErrArm}
  <2>1. CASE s.program = <<Get("Sync"), Save, Log("info")>>
        BY <2>1, Walk, Does DEF Statuses
  <2>2. CASE s.program = <<Get("Error"), Save, Log("error")>>
        BY <2>2, Walk, Does DEF Statuses
  <2> QED
      BY <1>4, <2>1, <2>2, Literals
<1>5. CASE s.program \in {<<Save, Log("info")>>, <<Save, Log("error")>>}
      BY <1>5, Walk, Does
<1> QED
    BY <1>1, <1>2, <1>3, <1>4, <1>5 DEF Owner

LEMMA UnlockerTail ==
    ASSUME NEW s \in ThreadState, Unlocker(s), s.program # <<>>,
           Head(s.program).do \notin {"useCase", "send"},
           ~(Head(s.program).do = "log" /\ Head(s.program).level = "error"),
           NEW r \in ThreadState, r.program = Tail(s.program),
           r.request = s.request, r.ok = s.ok, r.err = s.err,
           Head(s.program).do = "get" /\ Head(s.program).edit \in {"unlock", "remove"} => Clean(r),
           Head(s.program).do = "save" => ~Clean(s)
    PROVE  Unlocker(r)
<1>1. CASE s.program \in {<<Log("info"), Send>>, <<Send>>, <<UseCase>>}
  <2>1. s.program = <<Log("info"), Send>>
        BY <1>1, Walk, Does
  <2>2. r.program = <<Send>>
        BY <2>1, Walk
  <2> QED
      BY <2>2 DEF Unlocker
<1>2. CASE \/ s.err = ErrArm /\ s.request.kind = "add" /\ s.ok = OkArm("add")
           \/ s.err = ErrArm /\ s.request.kind = "change" /\ s.ok = OkArm("change")
      BY <1>2 DEF Unlocker
<1>3. CASE s.err = ErrArm /\ s.request.kind = "deleteNode" /\ s.program \in DeleteNodePrograms
  <2>1. CASE s.program = DeleteNode
        BY <1>3, <2>1, Walk DEF Unlocker, DeleteNodePrograms, DeleteNode
  <2>2. CASE s.program = <<Get("keep"), NotLast, Work, Log("info"), Work, Get("remove"), Save,
                           Get("keep"), Work>>
        BY <1>3, <2>2, Walk DEF Unlocker, DeleteNodePrograms
  <2>3. CASE s.program = <<NotLast, Work, Log("info"), Work, Get("remove"), Save,
                           Get("keep"), Work>>
        BY <1>3, <2>3, Walk DEF Unlocker, DeleteNodePrograms
  <2>4. CASE s.program = <<Work, Log("info"), Work, Get("remove"), Save, Get("keep"), Work>>
        BY <1>3, <2>4, Walk DEF Unlocker, DeleteNodePrograms
  <2>5. CASE s.program = <<Log("info"), Work, Get("remove"), Save, Get("keep"), Work>>
        BY <1>3, <2>5, Walk DEF Unlocker, DeleteNodePrograms
  <2>6. CASE s.program = <<Work, Get("remove"), Save, Get("keep"), Work>>
        BY <1>3, <2>6, Walk DEF Unlocker, DeleteNodePrograms
  <2>7. CASE s.program = <<Get("remove"), Save, Get("keep"), Work>>
    <3>1. Head(s.program).do = "get" /\ Head(s.program).edit = "remove"
          BY <2>7, Walk, Does
    <3>2. r.program = <<Save, Get("keep"), Work>>
          BY <2>7, Walk
    <3> QED
        BY <3>1, <3>2 DEF Unlocker
  <2> QED
      BY <1>3, <2>1, <2>2, <2>3, <2>4, <2>5, <2>6, <2>7 DEF DeleteNodePrograms
<1>4. CASE s.program \in {ErrArm, <<Save, Log("error")>>, <<Log("error")>>}
  <2>1. CASE s.program = <<Get("Error"), Save, Log("error")>>
        BY <2>1, Walk DEF Unlocker
  <2>2. CASE s.program = <<Save, Log("error")>>
        BY <2>2, Walk DEF Unlocker
  <2>3. s.program # <<Log("error")>>
        BY Walk, Does
  <2> QED
      BY <1>4, <2>1, <2>2, <2>3, Literals
<1>5. CASE s.program \in {OkArm("add"), <<Get("unlock"), Save, Get("Sync"), Save>>}
  <2>1. CASE s.program = <<Log("info"), Get("unlock"), Save, Get("Sync"), Save>>
        BY <2>1, Walk DEF Unlocker
  <2>2. CASE s.program = <<Get("unlock"), Save, Get("Sync"), Save>>
    <3>1. Head(s.program).do = "get" /\ Head(s.program).edit = "unlock"
          BY <2>2, Walk, Does
    <3>2. r.program = <<Save, Get("Sync"), Save>>
          BY <2>2, Walk
    <3> QED
        BY <3>1, <3>2 DEF Unlocker
  <2> QED
      BY <1>5, <2>1, <2>2, Literals
<1>6. CASE s.program \in {OkArm("change"), <<Get("Sync"), Save, Get("unlock"), Save>>,
                          <<Save, Get("unlock"), Save>>, <<Get("unlock"), Save>>}
  <2>1. CASE s.program = <<Log("info"), Get("Sync"), Save, Get("unlock"), Save>>
        BY <2>1, Walk DEF Unlocker
  <2>2. CASE s.program = <<Get("Sync"), Save, Get("unlock"), Save>>
        BY <2>2, Walk DEF Unlocker
  <2>3. CASE s.program = <<Save, Get("unlock"), Save>>
        BY <2>3, Walk DEF Unlocker
  <2>4. CASE s.program = <<Get("unlock"), Save>>
    <3>1. Head(s.program).do = "get" /\ Head(s.program).edit = "unlock"
          BY <2>4, Walk, Does
    <3>2. r.program = <<Save>>
          BY <2>4, Walk
    <3> QED
        BY <3>1, <3>2 DEF Unlocker
  <2> QED
      BY <1>6, <2>1, <2>2, <2>3, <2>4, Literals
<1>7. CASE /\ s.program \in {<<Save, Get("Sync"), Save>>, <<Save>>, <<Save, Get("keep"), Work>>}
           /\ Clean(s)
      BY <1>7, Walk, Does
<1> QED
    BY <1>1, <1>2, <1>3, <1>4, <1>5, <1>6, <1>7 DEF Unlocker

LEMMA UnlockerFails ==
    ASSUME NEW s \in ThreadState, Unlocker(s), s.program # <<>>,
           Head(s.program).do \in {"get", "absent", "notLast", "work"},
           NEW r \in ThreadState, r.program = s.err, r.request = s.request
    PROVE  \/ Unlocker(r)
           \/ /\ Head(s.program).do = "get"
              /\ Head(s.program).edit \in Statuses \cup {"unlock"}
<1>1. CASE s.program \in {<<Log("info"), Send>>, <<Send>>, <<UseCase>>}
      BY <1>1, Walk, Does
<1>2. CASE s.err = ErrArm
      BY <1>2 DEF Unlocker
<1>3. CASE s.program \in {ErrArm, <<Save, Log("error")>>, <<Log("error")>>}
  <2>1. s.program = <<Get("Error"), Save, Log("error")>>
    <3>1. s.program \notin {<<Save, Log("error")>>, <<Log("error")>>}
          BY Walk, Does
    <3> QED
        BY <1>3, <3>1, Literals
  <2> QED
      BY <2>1, Walk, Does DEF Statuses
<1>4. CASE s.program \in {OkArm("add"), <<Get("unlock"), Save, Get("Sync"), Save>>}
  <2>1. s.program # <<Log("info"), Get("unlock"), Save, Get("Sync"), Save>>
        BY Walk, Does
  <2>2. s.program = <<Get("unlock"), Save, Get("Sync"), Save>>
        BY <1>4, <2>1, Literals
  <2> QED
      BY <2>2, Walk, Does
<1>5. CASE s.program \in {OkArm("change"), <<Get("Sync"), Save, Get("unlock"), Save>>,
                          <<Save, Get("unlock"), Save>>, <<Get("unlock"), Save>>}
  <2>1. s.program # <<Log("info"), Get("Sync"), Save, Get("unlock"), Save>>
        BY Walk, Does
  <2>2. s.program # <<Save, Get("unlock"), Save>>
        BY Walk, Does
  <2>3. CASE s.program = <<Get("Sync"), Save, Get("unlock"), Save>>
        BY <2>3, Walk, Does DEF Statuses
  <2>4. CASE s.program = <<Get("unlock"), Save>>
        BY <2>4, Walk, Does
  <2> QED
      BY <1>5, <2>1, <2>2, <2>3, <2>4, Literals
<1>6. CASE s.program \in {<<Save, Get("Sync"), Save>>, <<Save>>, <<Save, Get("keep"), Work>>}
      BY <1>6, Walk, Does
<1> QED
    BY <1>1, <1>2, <1>3, <1>4, <1>5, <1>6 DEF Unlocker
-----------------------------------------------------------------------------
(* Which programs mark *)
LEMMA ConcatPlain ==
    ASSUME NEW p \in Seq(Instruction), NEW q \in Seq(Instruction), Plain(p), Plain(q)
    PROVE  Plain(p \o q)
<1> SUFFICES ASSUME NEW i \in 1..Len(p \o q) PROVE ~Marking((p \o q)[i])
    BY DEF Plain
<1>1. Len(p \o q) = Len(p) + Len(q)
      BY ConcatProperties
<1>2. CASE i <= Len(p)
      BY <1>1, <1>2, ConcatProperties DEF Plain
<1>3. CASE i > Len(p)
      BY <1>1, <1>3, ConcatProperties DEF Plain
<1> QED
    BY <1>1, <1>2, <1>3

LEMMA PlainHandlers ==
    ASSUME NEW k \in Kinds
    PROVE  Plain(Handler(k)) \/ [kind |-> k, program |-> Handler(k)] \in Marks
<1>1. Plain(EditHandler) /\ Plain(ClearHandler)
      BY Does DEF EditHandler, ClearHandler, Plain, Marking, Passing, LockEdits
<1> QED
    BY <1>1 DEF Handler, Kinds, Marks

LEMMA PlainUseCases ==
    ASSUME NEW k \in Kinds \ {"edit", "clear"}
    PROVE  Plain(Execute(k))
<1> USE Does DEF Plain, Marking, Passing, LockEdits
<1>1. Plain(CreateCluster)
      BY DEF CreateCluster
<1>2. Plain(DeleteCluster)
      BY DEF DeleteCluster
<1>3. Plain(AddNode) /\ Plain(ChangeResources)
      BY DEF AddNode, ChangeResources
<1>4. Plain(DeleteNode)
      BY DEF DeleteNode
<1> QED
    BY <1>1, <1>2, <1>3, <1>4 DEF Execute, Kinds

LEMMA PlainArms ==
    ASSUME NEW k \in Kinds \ {"edit", "clear"}
    PROVE  /\ Plain(OkArm(k)) /\ Plain(ErrArm) /\ Plain(<<>>)
           /\ Plain(Dispatch(k)) \/ [kind |-> k, program |-> Dispatch(k)] \in Marks
<1> DEFINE unlock == <<Get("unlock"), Save>>
           sync   == UpdateStatus("Sync")
<1>1. /\ Plain(<<>>) /\ Plain(unlock) /\ Plain(sync) /\ Plain(<<UseCase>>)
      /\ \A l \in Levels : Plain(<<Log(l)>>)
      /\ Plain(<<Log("info"), Get("unlock"), Save>>)
      BY Does DEF Plain, Marking, Passing, LockEdits, UpdateStatus
<1>2. /\ <<>> \in Seq(Instruction) /\ unlock \in Seq(Instruction) /\ sync \in Seq(Instruction)
      /\ <<UseCase>> \in Seq(Instruction) /\ \A l \in Levels : <<Log(l)>> \in Seq(Instruction)
      /\ <<Log("info"), Get("unlock"), Save>> \in Seq(Instruction)
      BY InstructionTypes DEF UpdateStatus, Edits, Statuses, Levels
<1>3. "info" \in Levels /\ "deleted" \in Levels
      BY DEF Levels
<1> HIDE DEF unlock, sync
<1>4. Plain(<<>> \o <<UseCase>>)
      BY <1>1, <1>2, ConcatPlain
<1>5. Plain(sync \o <<Log("info")>>)
      BY <1>1, <1>2, <1>3, ConcatPlain
<1>6. Plain(<<Log("info"), Get("unlock"), Save>> \o sync)
      BY <1>1, <1>2, ConcatPlain
<1>7. Plain(<<Log("deleted")>> \o sync)
      BY <1>1, <1>2, <1>3, ConcatPlain
<1>8. Plain(<<Log("info")>> \o sync) /\ <<Log("info")>> \o sync \in Seq(Instruction)
      BY <1>1, <1>2, <1>3, ConcatPlain, ConcatProperties
<1>9. Plain(<<Log("info")>> \o sync \o unlock)
      BY <1>1, <1>2, <1>8, ConcatPlain
<1>10. Plain(OkArm(k))
       BY <1>1, <1>5, <1>6, <1>7, <1>9 DEF OkArm, Kinds, sync, unlock
<1>11. Plain(ErrArm)
       BY Literals, Does DEF Plain, Marking, Passing, LockEdits
<1>12. Plain(Dispatch(k)) \/ [kind |-> k, program |-> Dispatch(k)] \in Marks
       BY <1>4 DEF Dispatch, Marks, Kinds
<1> QED
    BY <1>1, <1>10, <1>11, <1>12

LEMMA ShapeTail ==
    ASSUME NEW s \in ThreadState, Shape(s), s.program # <<>>,
           NEW r \in ThreadState, r.program = Tail(s.program),
           r.request = s.request, r.ok = s.ok, r.err = s.err
    PROVE  /\ Shape(r)
           /\ Marking(Head(s.program)) =>
                 /\ r.program \in Marked
                 /\ IF Head(s.program).do = "get" /\ Head(s.program).edit \in LockEdits
                    THEN r.request.kind \in Locking
                    ELSE r.request.kind \in Settling
<1>1. CASE Plain(s.program)
  <2>1. s.program \in Seq(Instruction)
        BY DEF ThreadState
  <2>2. /\ \A i \in 1..Len(r.program) : i + 1 \in 1..Len(s.program) /\ r.program[i] = s.program[i + 1]
        /\ 1 \in 1..Len(s.program) /\ Head(s.program) = s.program[1]
        BY <2>1, HeadTailProperties
  <2> QED
      BY <1>1, <2>2 DEF Plain, Shape
<1>2. CASE s.request.kind = "create" /\ s.program = CreateHandler
  <2>1. s.program = <<Absent, Save, Send>>
        BY <1>2 DEF CreateHandler
  <2>2. r.program = <<Save, Send>> /\ Head(s.program) = Absent
        BY <2>1, Walk
  <2>3. Plain(<<Save, Send>>)
        BY Does DEF Plain, Marking
  <2>4. Shape(r)
        BY <2>2, <2>3 DEF Shape
  <2>5. r.program \in Marked
        BY <2>2 DEF Marked
  <2>6. IF Head(s.program).do = "get" /\ Head(s.program).edit \in LockEdits
        THEN r.request.kind \in Locking
        ELSE r.request.kind \in Settling
        BY <1>2, <2>2, Does DEF Settling, Locking, LockEdits
  <2> QED
      BY <2>4, <2>5, <2>6
<1>3. CASE s.request.kind = "delete" /\ s.program = DeleteHandler
  <2>1. s.program = <<Get("Destroying"), Save, Log("info"), Send>>
        BY <1>3 DEF DeleteHandler
  <2>2. r.program = <<Save, Log("info"), Send>> /\ Head(s.program) = Get("Destroying")
        BY <2>1, Walk
  <2>3. Plain(<<Save, Log("info"), Send>>)
        BY Does DEF Plain, Marking
  <2>4. Shape(r)
        BY <2>2, <2>3 DEF Shape
  <2>5. r.program \in Marked
        BY <2>2 DEF Marked
  <2>6. IF Head(s.program).do = "get" /\ Head(s.program).edit \in LockEdits
        THEN r.request.kind \in Locking
        ELSE r.request.kind \in Settling
        BY <1>3, <2>2, Does DEF Settling, Locking, LockEdits
  <2> QED
      BY <2>4, <2>5, <2>6
<1>4. CASE s.request.kind = "create" /\ s.program = Dispatch("create")
  <2>1. s.program = <<Get("Creating"), Save, UseCase>>
        BY <1>4, Literals
  <2>2. r.program = <<Save, UseCase>> /\ Head(s.program) = Get("Creating")
        BY <2>1, Walk
  <2>3. Plain(<<Save, UseCase>>)
        BY Does DEF Plain, Marking
  <2>4. Shape(r)
        BY <2>2, <2>3 DEF Shape
  <2>5. r.program \in Marked
        BY <2>2 DEF Marked
  <2>6. IF Head(s.program).do = "get" /\ Head(s.program).edit \in LockEdits
        THEN r.request.kind \in Locking
        ELSE r.request.kind \in Settling
        BY <1>4, <2>2, Does DEF Settling, Locking, LockEdits
  <2> QED
      BY <2>4, <2>5, <2>6
<1>5. CASE s.request.kind = "change" /\ s.program = ChangeHandler
  <2>1. s.program = <<Get("lockChange"), Save, Send>>
        BY <1>5 DEF ChangeHandler
  <2>2. r.program = <<Save, Send>> /\ Head(s.program) = Get("lockChange")
        BY <2>1, Walk
  <2>3. Plain(<<Save, Send>>)
        BY Does DEF Plain, Marking
  <2>4. Shape(r)
        BY <2>2, <2>3 DEF Shape
  <2>5. r.program \in Marked
        BY <2>2 DEF Marked
  <2>6. IF Head(s.program).do = "get" /\ Head(s.program).edit \in LockEdits
        THEN r.request.kind \in Locking
        ELSE r.request.kind \in Settling
        BY <1>5, <2>2, Does DEF Settling, Locking, LockEdits
  <2> QED
      BY <2>4, <2>5, <2>6
<1>6. CASE s.request.kind = "add" /\ s.program = AddHandler
  <2>1. s.program = <<Get("lockCreate"), Save, Log("info"), Send>>
        BY <1>6 DEF AddHandler
  <2>2. r.program = <<Save, Log("info"), Send>> /\ Head(s.program) = Get("lockCreate")
        BY <2>1, Walk
  <2>3. Plain(<<Save, Log("info"), Send>>)
        BY Does DEF Plain, Marking
  <2>4. Shape(r)
        BY <2>2, <2>3 DEF Shape
  <2>5. r.program \in Marked
        BY <2>2 DEF Marked
  <2>6. IF Head(s.program).do = "get" /\ Head(s.program).edit \in LockEdits
        THEN r.request.kind \in Locking
        ELSE r.request.kind \in Settling
        BY <1>6, <2>2, Does DEF Settling, Locking, LockEdits
  <2> QED
      BY <2>4, <2>5, <2>6
<1>7. CASE s.request.kind = "deleteNode" /\ s.program = DelNodeHandler
  <2>1. s.program = <<Log("info"), Get("lockDelete"), Save, Send>>
        BY <1>7 DEF DelNodeHandler
  <2>2. r.program = <<Get("lockDelete"), Save, Send>> /\ Head(s.program) = Log("info")
        BY <2>1, Walk
  <2>3. ~Marking(Head(s.program))
        BY <2>2, Does DEF Marking
  <2> QED
      BY <1>7, <2>2, <2>3 DEF Shape, Marks
<1>8. CASE s.request.kind = "deleteNode" /\ s.program = <<Get("lockDelete"), Save, Send>>
  <2>1. s.program = <<Get("lockDelete"), Save, Send>>
        BY <1>8
  <2>2. r.program = <<Save, Send>> /\ Head(s.program) = Get("lockDelete")
        BY <2>1, Walk
  <2>3. Plain(<<Save, Send>>)
        BY Does DEF Plain, Marking
  <2>4. Shape(r)
        BY <2>2, <2>3 DEF Shape
  <2>5. r.program \in Marked
        BY <2>2 DEF Marked
  <2>6. IF Head(s.program).do = "get" /\ Head(s.program).edit \in LockEdits
        THEN r.request.kind \in Locking
        ELSE r.request.kind \in Settling
        BY <1>8, <2>2, Does DEF Settling, Locking, LockEdits
  <2> QED
      BY <2>4, <2>5, <2>6
<1> QED
    BY <1>1, <1>2, <1>3, <1>4, <1>5, <1>6, <1>7, <1>8 DEF Shape, Marks

\* A program whose first instruction makes no copy does not go on to a save.
LEMMA TailFits ==
    ASSUME NEW s \in ThreadState, Threading(s), s.program # <<>>, ~Copies(Head(s.program)),
           NEW r, r.program = Tail(s.program)
    PROVE  CopyFits(r)
<1> SUFFICES ASSUME r.program # <<>>, Head(r.program).do = "save" PROVE FALSE
    BY DEF CopyFits
<1>1. s.program \in Seq(Instruction)
      BY DEF ThreadState
<1>2. /\ 2 \in 1..Len(s.program) /\ Head(r.program) = s.program[2]
      /\ Head(s.program) = s.program[2 - 1]
      BY <1>1
<1> QED
    BY <1>2 DEF Threading, Sound

LEMMA FreshFits ==
    ASSUME NEW r, r.program \in Seq(Instruction), Fresh(r.program)
    PROVE  CopyFits(r)
<1> SUFFICES ASSUME r.program # <<>>, Head(r.program).do = "save" PROVE FALSE
    BY DEF CopyFits
<1>1. 1 \in 1..Len(r.program) /\ Head(r.program) = r.program[1]
      OBVIOUS
<1> QED
    BY <1>1 DEF Fresh

LEMMA RecordFacts ==
    ASSUME NEW d \in Repo!DB, NEW n \in Names
    PROVE  /\ Record(d, n) = NoRecord <=> ~Repo!HasCluster(d, n)
           /\ Record(d, n) # NoRecord => Record(d, n) \in d.clusters /\ Record(d, n).name = n
<1>1. NoRecord \notin Repo!Cluster
      BY DEF NoRecord, Repo!Cluster
<1>2. ASSUME Repo!HasCluster(d, n)
      PROVE  Record(d, n) \in d.clusters /\ Record(d, n).name = n
      BY <1>2 DEF Record, Repo!HasCluster
<1>3. d.clusters \subseteq Repo!Cluster
      BY DEF Repo!DB
<1> QED
    BY <1>1, <1>2, <1>3 DEF Record
-----------------------------------------------------------------------------
(* How a step of a thread looks from outside *)
Else(t) == \A u \in Threads \ {t} : thread'[u] = thread[u]

LEMMA FailFields ==
    ASSUME LifecycleIInv, NEW t \in Threads, Fail(t)
    PROVE  /\ Else(t) /\ thread'[t].program = thread[t].err
           /\ thread'[t].ok = <<>> /\ thread'[t].err = <<>>
           /\ thread'[t].request = thread[t].request
<1>1. thread \in [Threads -> ThreadState] /\ thread[t] \in ThreadState
      BY DEF LifecycleIInv
<1>2. thread'[t] = [[thread[t] EXCEPT !.ok = <<>>, !.err = <<>>] EXCEPT !.program = thread[t].err]
      BY <1>1 DEF Fail, Continue
<1> QED
    BY <1>1, <1>2 DEF Fail, Continue, Else, ThreadState

\* Proceed, of a record q
LEMMA ProceedFields ==
    ASSUME LifecycleIInv, NEW t \in Threads, NEW q \in ThreadState, Proceed(t, q)
    PROVE  /\ Else(t) /\ thread'[t].program = Tail(q.program)
           /\ thread'[t].ok = q.ok /\ thread'[t].err = q.err
           /\ thread'[t].request = q.request /\ thread'[t].copy = q.copy
           /\ thread'[t].read = q.read
<1>1. thread \in [Threads -> ThreadState] /\ thread[t] \in ThreadState
      BY DEF LifecycleIInv
<1>2. thread'[t] = [q EXCEPT !.program = Tail(q.program)]
      BY <1>1 DEF Proceed, Continue
<1> QED
    BY <1>1, <1>2 DEF Proceed, Continue, Else, ThreadState

(* A step that leaves file and channel alone leaves the owners of all marks *)
(* their owners, if its own thread stays one.                               *)
LEMMA OwnersStay ==
    ASSUME SettledIInv, LifecycleIInv', NEW t \in Threads, Else(t),
           db' = db, queue' = queue, UNCHANGED <<lost, cleared>>,
           Shape(thread'[t]), CopyFits(thread'[t]),
           ~lost /\ Owner(thread[t]) /\ Repo!HasCluster(db, Cluster(t))
              => Owner(thread'[t]) /\ thread'[t].request = thread[t].request,
           ~lost /\ Unlocker(thread[t]) /\ Locked(db, Cluster(t), NodeOf(t))
              => Unlocker(thread'[t]) /\ thread'[t].request = thread[t].request
    PROVE  SettledIInv'
<1>1. \A u \in Threads : Shape(thread'[u]) /\ CopyFits(thread'[u])
      BY DEF SettledIInv, Else
<1>2. ASSUME ~lost, NEW c \in db.clusters, c.body.status \in Passing
      PROVE  Waits(c.name)' \/ Serves(c.name)'
  <2>1. CASE Waits(c.name)
        BY <2>1 DEF Waits
  <2>2. CASE Serves(c.name)
    <3>1. PICK u \in Threads : Owner(thread[u]) /\ thread[u].request.name = c.name
          BY <2>2 DEF Serves
    <3>2. Owner(thread'[u]) /\ thread'[u].request.name = c.name
          BY <1>2, <3>1 DEF Else, Repo!HasCluster, Cluster
    <3> QED
        BY <3>2 DEF Serves
  <2> QED
      BY <1>2, <2>1, <2>2 DEF SettledIInv, Owned
<1>3. ASSUME ~lost, NEW c \in db.clusters, NEW x \in NodeNames, IsLocked(c.body, x)
      PROVE  Told(c.name)' \/ WaitsAt(c.name, x)' \/ ServesAt(c.name, x)'
  <2>1. CASE Told(c.name)
        BY <2>1 DEF Told
  <2>2. CASE WaitsAt(c.name, x)
        BY <2>2 DEF WaitsAt
  <2>3. CASE ServesAt(c.name, x)
    <3>1. PICK u \in Threads : /\ Unlocker(thread[u]) /\ thread[u].request.name = c.name
                               /\ thread[u].request.node = x
          BY <2>3 DEF ServesAt
    <3>2. u = t => Locked(db, Cluster(t), NodeOf(t))
          BY <1>3, <3>1 DEF Locked, IsLocked, Cluster, NodeOf
    <3>3. Unlocker(thread'[u]) /\ thread'[u].request = thread[u].request
          BY <1>3, <3>1, <3>2 DEF Else
    <3> QED
        BY <3>1, <3>3 DEF ServesAt
  <2> QED
      BY <1>3, <2>1, <2>2, <2>3 DEF SettledIInv, Explained
<1>4. ~lost' => Repo!NamesUnique(db)' /\ Owned' /\ Explained'
      BY <1>2, <1>3 DEF SettledIInv, Owned, Explained, Repo!NamesUnique
<1>5. \A u \in Threads : Shape(thread[u])' /\ CopyFits(thread[u])'
      BY <1>1 DEF Shape, CopyFits, StatusFits, LocksFit
<1> QED
    BY <1>4, <1>5 DEF SettledIInv

LEMMA FailKeeps ==
    ASSUME SettledIInv, LifecycleIInv', NEW t \in Threads,
           NEW d \in {"get", "absent", "notLast", "work"}, At(t, d), Fail(t),
           db' = db, queue' = queue, UNCHANGED <<lost, cleared>>,
           d = "get" /\ Head(thread[t].program).edit \in Statuses
             => ~Repo!HasCluster(db, Cluster(t)),
           ~lost /\ d = "get" /\ Head(thread[t].program).edit = "unlock"
             => ~Locked(db, Cluster(t), NodeOf(t))
    PROVE  SettledIInv'
<1> DEFINE s == thread[t]
           r == thread'[t]
<1>1. /\ LifecycleIInv /\ s \in ThreadState /\ Threading(s) /\ Shape(s)
      /\ s.program # <<>> /\ Head(s.program).do = d /\ r \in ThreadState
      BY AtFacts DEF SettledIInv, LifecycleIInv
<1>2. /\ Else(t) /\ r.program = s.err /\ r.ok = <<>> /\ r.err = <<>> /\ r.request = s.request
      BY <1>1, FailFields
<1>3. Shape(r)
  <2>1. Plain(<<>>)
        BY DEF Plain
  <2> QED
      BY <1>1, <1>2, <2>1 DEF Shape
<1>4. CopyFits(r)
  <2>1. r.program \in Seq(Instruction) /\ Fresh(r.program)
        BY <1>1, <1>2 DEF ThreadState, Threading
  <2> QED
      BY <2>1, FreshFits
<1> HIDE DEF r
<1>5. ASSUME Owner(s), Repo!HasCluster(db, Cluster(t))
      PROVE  Owner(r)
      BY <1>1, <1>2, <1>5, OwnerFails
<1>6. ASSUME ~lost, Unlocker(s), Locked(db, Cluster(t), NodeOf(t))
      PROVE  Unlocker(r)
  <2>1. Repo!HasCluster(db, Cluster(t))
        BY <1>6 DEF Locked, Repo!HasCluster
  <2>2. ~(d = "get" /\ Head(s.program).edit \in Statuses \cup {"unlock"})
        BY <1>6, <2>1
  <2> QED
      BY <1>1, <1>2, <1>6, <2>2, UnlockerFails
<1> QED
    BY <1>2, <1>3, <1>4, <1>5, <1>6, OwnersStay DEF r

LEMMA PlainKeeps ==
    ASSUME SettledIInv, LifecycleIInv', NEW t \in Threads, NEW d \in {"notLast", "work"},
           At(t, d), Proceed(t, thread[t]), db' = db, queue' = queue, UNCHANGED <<lost, cleared>>
    PROVE  SettledIInv'
<1> DEFINE s == thread[t]
           r == thread'[t]
<1>1. /\ LifecycleIInv /\ s \in ThreadState /\ Threading(s) /\ Shape(s)
      /\ s.program # <<>> /\ Head(s.program).do = d /\ r \in ThreadState
      BY AtFacts DEF SettledIInv, LifecycleIInv
<1>2. /\ Else(t) /\ r.program = Tail(s.program) /\ r.ok = s.ok /\ r.err = s.err
      /\ r.request = s.request
      BY <1>1, ProceedFields
<1> HIDE DEF r
<1>3. Shape(r)
      BY <1>1, <1>2, ShapeTail
<1>4. CopyFits(r)
      BY <1>1, <1>2, TailFits DEF Copies
<1>5. Owner(s) => Owner(r)
      BY <1>1, <1>2, OwnerTail
<1>6. Unlocker(s) => Unlocker(r)
      BY <1>1, <1>2, UnlockerTail
<1> QED
    BY <1>2, <1>3, <1>4, <1>5, <1>6, OwnersStay DEF r
-----------------------------------------------------------------------------
(* The steps *)
LEMMA NewUnlocked ==
    ASSUME NEW n, NEW x \in NodeNames
    PROVE  ~IsLocked(NewCluster(n).body, x)
<1>1. NewCluster(n).body.nodes[x] = [i \in 1..Initial[x] |-> "None"] /\ Initial[x] \in Nat
      BY ThreadAssumption DEF NewCluster
<1>2. \A i \in DOMAIN NewCluster(n).body.nodes[x] : NewCluster(n).body.nodes[x][i] = "None"
      BY <1>1
<1>3. ASSUME NEW l, NewCluster(n).body.nodes[x] = <<l>> PROVE l = "None"
      BY <1>2, <1>3
<1> QED
    BY <1>3 DEF IsLocked

LEMMA SettledInit == Init => SettledIInv
<1> SUFFICES ASSUME Init PROVE SettledIInv
    OBVIOUS
<1>1. \A n \in Names : /\ InSync(n).name = n /\ InSync(n).body.status = "Sync"
                       /\ \A x \in NodeNames : ~IsLocked(InSync(n).body, x)
  <2> SUFFICES ASSUME NEW n \in Names
               PROVE  /\ InSync(n).name = n /\ InSync(n).body.status = "Sync"
                      /\ \A x \in NodeNames : ~IsLocked(InSync(n).body, x)
      OBVIOUS
  <2>1. /\ InSync(n).name = n /\ InSync(n).body.status = "Sync"
        /\ InSync(n).body.nodes = NewCluster(n).body.nodes
        BY DEF InSync, NewCluster
  <2>2. \A x \in NodeNames : ~IsLocked(InSync(n).body, x)
        BY <2>1, NewUnlocked DEF IsLocked
  <2> QED
      BY <2>1, <2>2
<1>2. Repo!NamesUnique(db)
      BY <1>1 DEF Init, Repo!EmptyDB, Repo!NamesUnique
<1>3. Owned
      BY <1>1 DEF Init, Repo!EmptyDB, Owned, Passing
<1>4. Explained
      BY <1>1 DEF Init, Repo!EmptyDB, Explained
<1>5. Shape(Resting) /\ CopyFits(Resting)
      BY DEF Resting, Shape, CopyFits, Plain
<1>6. \A t \in Threads : thread[t] = Resting
      BY DEF Init
<1> QED
    BY <1>2, <1>3, <1>4, <1>5, <1>6, LifecycleInit DEF SettledIInv

LEMMA RestingOwns == ~Owner(Resting) /\ ~Unlocker(Resting)
BY DEF Resting, NoRequest, Owner, Settling, Unlocker, Locking

LEMMA SettledCall ==
    ASSUME SettledIInv, NEW t \in Threads, Call(t)
    PROVE  SettledIInv'
<1>0. LifecycleIInv /\ LifecycleIInv'
      BY CallStep DEF SettledIInv
<1>1. PICK q \in todo : thread' = [thread EXCEPT ![t] = [Resting EXCEPT !.request = q,
                                                           !.program = Handler(q.kind)]]
      BY DEF Call
<1> DEFINE r == thread'[t]
<1>2. q \in Request /\ q.kind \in Kinds
      BY <1>0 DEF LifecycleIInv, Shared, Request
<1>3. /\ Else(t) /\ r.program = Handler(q.kind) /\ r.request = q /\ r.ok = <<>> /\ r.err = <<>>
      BY <1>0, <1>1 DEF LifecycleIInv, Else, Resting
<1> HIDE DEF r
<1>4. Shape(r)
  <2>1. Plain(<<>>)
        BY DEF Plain
  <2> QED
      BY <1>2, <1>3, <2>1, PlainHandlers DEF Shape
<1>5. CopyFits(r)
      BY <1>2, <1>3, HandlerFresh, FreshFits
<1>6. ~Owner(thread[t]) /\ ~Unlocker(thread[t])
      BY RestingOwns DEF Call
<1> QED
    BY <1>0, <1>3, <1>4, <1>5, <1>6, OwnersStay DEF r, Call

\* A thread at the end of a program answers for a record by what is to run next.
LEMMA EndOwns ==
    ASSUME NEW s \in ThreadState, s.program = <<>>
    PROVE  /\ Owner(s) => s.request.kind = "create" /\ s.ok = OkArm("create")
           /\ Unlocker(s) => /\ s.request.kind \in {"add", "change"}
                             /\ s.ok = OkArm(s.request.kind)
<1>1. /\ <<>> \notin {OkArm("create"), OkArm("add"), OkArm("change")}
      /\ <<>> # ErrArm /\ <<>> # Dispatch("create")
      BY Literals
<1>2. <<>> \notin DeletePrograms /\ <<>> \notin DeleteNodePrograms
      BY DEF DeletePrograms, DeleteCluster, DeleteNodePrograms, DeleteNode
<1>3. Owner(s) => s.request.kind = "create" /\ s.ok = OkArm("create")
      BY <1>1, <1>2 DEF Owner
<1>4. Unlocker(s) => /\ s.request.kind \in {"add", "change"}
                     /\ s.ok = OkArm(s.request.kind)
      BY <1>1, <1>2 DEF Unlocker
<1> QED
    BY <1>3, <1>4

LEMMA SettledFinish ==
    ASSUME SettledIInv, NEW t \in Threads, Finish(t)
    PROVE  SettledIInv'
<1> DEFINE s == thread[t]
           r == thread'[t]
<1>0. /\ LifecycleIInv /\ LifecycleIInv' /\ s \in ThreadState /\ Threading(s) /\ Shape(s)
      /\ s.program = <<>>
      BY FinishStep DEF SettledIInv, LifecycleIInv, Finish
<1>1. CASE s.ok = <<>>
  <2>1. Else(t) /\ r = Resting
        BY <1>0, <1>1 DEF Finish, LifecycleIInv, Else
  <2>2. Shape(Resting) /\ CopyFits(Resting)
        BY DEF Resting, Shape, CopyFits, Plain
  <2>3. ~Owner(s) /\ ~Unlocker(s)
    <3>1. <<>> \notin {OkArm("create"), OkArm("add"), OkArm("change")}
          BY Literals
    <3> QED
        BY <1>0, <1>1, <3>1, EndOwns
  <2> QED
      BY <1>0, <2>1, <2>2, <2>3, OwnersStay DEF Finish
<1>2. CASE s.ok # <<>>
  <2>1. r = [[s EXCEPT !.ok = <<>>, !.err = <<>>] EXCEPT !.program = s.ok] /\ Else(t)
        BY <1>0, <1>2 DEF Finish, LifecycleIInv, Else, Continue
  <2>2. r.program = s.ok /\ r.ok = <<>> /\ r.err = <<>> /\ r.request = s.request
        BY <1>0, <2>1 DEF ThreadState
  <2> HIDE DEF r
  <2>3. Shape(r)
    <3>1. Plain(<<>>)
          BY DEF Plain
    <3> QED
        BY <1>0, <2>2, <3>1 DEF Shape
  <2>4. CopyFits(r)
    <3>1. r.program \in Seq(Instruction) /\ Fresh(r.program)
          BY <1>0, <2>2 DEF ThreadState, Threading
    <3> QED
        BY <3>1, FreshFits
  <2>5. Owner(s) => Owner(r)
        BY <1>0, <2>2, EndOwns DEF Owner, Settling
  <2>6. Unlocker(s) => Unlocker(r)
        BY <1>0, <2>2, EndOwns DEF Unlocker, Locking
  <2> QED
      BY <1>0, <2>1, <2>2, <2>3, <2>4, <2>5, <2>6, OwnersStay DEF Finish, r
<1> QED
    BY <1>1, <1>2

LEMMA SettledEnterUseCase ==
    ASSUME SettledIInv, NEW t \in Threads, EnterUseCase(t)
    PROVE  SettledIInv'
<1> DEFINE s == thread[t]
           k == s.request.kind
           r == thread'[t]
<1>0. At(t, "useCase")
      BY DEF EnterUseCase
<1>1. /\ LifecycleIInv /\ LifecycleIInv' /\ s \in ThreadState /\ Threading(s) /\ r \in ThreadState
      /\ thread \in [Threads -> ThreadState]
      BY EnterUseCaseStep DEF SettledIInv, LifecycleIInv
<1>2. /\ 1 \in 1..Len(s.program) /\ s.program[1].do = "useCase"
      /\ s.request \in Request
  <2>1. /\ Head(s.program).do = "useCase" /\ Head(s.program) = s.program[1]
        /\ 1 \in 1..Len(s.program) /\ s.request \in Request
        BY <1>0, <1>1, AtFacts
  <2> QED
      BY <2>1
<1>3. k \in Kinds \ {"edit", "clear"}
      BY <1>1, <1>2 DEF Threading, Request
<1>4. r = [[s EXCEPT !.ok = OkArm(k), !.err = ErrArm] EXCEPT !.program = Execute(k)] /\ Else(t)
      BY <1>1 DEF EnterUseCase, Continue, Else
<1>5. r.program = Execute(k) /\ r.ok = OkArm(k) /\ r.err = ErrArm /\ r.request = s.request
      BY <1>1, <1>4 DEF ThreadState
<1> HIDE DEF r
<1>6. Shape(r)
      BY <1>3, <1>5, PlainUseCases, PlainArms DEF Shape
<1>7. CopyFits(r)
      BY <1>3, <1>5, ExecuteFresh, FreshFits
<1>8. Owner(s) => Owner(r)
      BY <1>5 DEF Owner, Settling, Execute, DeletePrograms
<1>9. Unlocker(s) => Unlocker(r)
  <2>1. CASE k = "deleteNode"
        BY <1>5, <2>1 DEF Unlocker, Execute, DeleteNodePrograms
  <2>2. CASE k \in {"add", "change"}
        BY <1>5, <2>2 DEF Unlocker
  <2> QED
      BY <2>1, <2>2 DEF Unlocker, Locking
<1> QED
    BY <1>1, <1>4, <1>5, <1>6, <1>7, <1>8, <1>9, OwnersStay DEF EnterUseCase, r

(* What an edit does to the state and to the locks of a record *)
LEMMA EditStatus ==
    ASSUME NEW e, NEW b \in Body, NEW n \in NodeNames
    PROVE  Edit(e, b, n).status = IF e \in Statuses THEN e ELSE b.status
<1>1. \A l : SetLock(b, n, l).status = b.status
      BY DEF SetLock, Body
<1>2. /\ \A l : SetAllLocks(b, n, l).status = b.status
      /\ [b EXCEPT !.nodes[n] = Append(@, "Create")].status = b.status
      /\ [b EXCEPT !.nodes[n] = <<>>].status = b.status
      BY DEF SetAllLocks, Body
<1>3. [b EXCEPT !.status = e].status = e
      BY DEF Body
<1>4. CASE e \in Statuses
      BY <1>3, <1>4 DEF Edit, Statuses
<1>5. CASE e \notin Statuses
      BY <1>1, <1>2, <1>5 DEF Edit
<1> QED
    BY <1>4, <1>5

\* It locks no node but its own, and leaves that one free when it is to.
LEMMA EditLocks ==
    ASSUME NEW e, NEW b \in Body, NEW n \in NodeNames, ~EditFails(e, b, n),
           NEW x \in NodeNames, IsLocked(Edit(e, b, n), x)
    PROVE  /\ e \in {"unlock", "remove"} => x # n
           /\ \/ e \in LockEdits /\ x = n
              \/ IsLocked(b, x)
<1> DEFINE c == Edit(e, b, n)
<1>1. CASE x # n
  <2>1. c.nodes[x] = b.nodes[x]
        BY <1>1 DEF Edit, SetLock, SetAllLocks, Body
  <2> QED
      BY <1>1, <2>1 DEF IsLocked
<1>2. CASE x = n /\ e = "unlock"
  <2>1. /\ b.nodes[n] \in Seq(Locks) /\ b.nodes[n] # <<>>
        /\ c.nodes[n] = [b.nodes[n] EXCEPT ![1] = "None"]
        BY <1>2 DEF Edit, SetLock, Body, EditFails, HasNode, Statuses
  <2>2. c.nodes[n][1] = "None"
        BY <2>1
  <2> QED
      BY <1>2, <2>2 DEF IsLocked
<1>3. CASE x = n /\ e = "remove"
  <2>1. c.nodes[n] = <<>>
        BY <1>3 DEF Edit, Body, Statuses
  <2> QED
      BY <1>3, <2>1, Walk DEF IsLocked
<1>4. CASE x = n /\ e \notin LockEdits \cup {"unlock", "remove"}
  <2>1. c.nodes = b.nodes
        BY <1>4 DEF Edit, LockEdits, Body
  <2> QED
      BY <1>4, <2>1 DEF IsLocked
<1> QED
    BY <1>1, <1>2, <1>3, <1>4

LEMMA SettledGetCluster ==
    ASSUME SettledIInv, NEW t \in Threads, GetCluster(t)
    PROVE  SettledIInv'
<1> DEFINE s     == thread[t]
           found == Record(db, Cluster(t))
           edit  == Head(s.program).edit
           body  == Edit(edit, found.body, NodeOf(t))
           copy  == [found EXCEPT !.body = body]
           q     == [s EXCEPT !.read = found, !.copy = copy]
           r     == thread'[t]
<1>0. At(t, "get") /\ db' = db /\ queue' = queue /\ UNCHANGED <<lost, cleared>>
      BY DEF GetCluster
<1>1. /\ LifecycleIInv /\ LifecycleIInv' /\ s \in ThreadState /\ Threading(s) /\ Shape(s)
      /\ s.program # <<>> /\ Head(s.program).do = "get" /\ r \in ThreadState /\ db \in Repo!DB
      /\ Cluster(t) \in Names /\ NodeOf(t) \in NodeNames
      BY <1>0, GetClusterStep, AtFacts DEF SettledIInv, LifecycleIInv, Shared
<1>2. CASE found = NoRecord \/ EditFails(edit, found.body, NodeOf(t))
  <2>1. Fail(t)
        BY <1>2 DEF GetCluster
  <2>2. edit \in Statuses => ~Repo!HasCluster(db, Cluster(t))
    <3>1. edit \in Statuses => ~EditFails(edit, found.body, NodeOf(t))
          BY DEF EditFails, Statuses
    <3> QED
        BY <1>1, <1>2, <3>1, RecordFacts
  <2>3. ASSUME ~lost, edit = "unlock", Locked(db, Cluster(t), NodeOf(t))
        PROVE  FALSE
    <3>1. PICK c \in db.clusters : c.name = Cluster(t) /\ HasNode(c.body, NodeOf(t))
          BY <2>3, Walk DEF Locked, IsLocked, HasNode
    <3>2. found # NoRecord /\ found \in db.clusters /\ found.name = Cluster(t)
          BY <1>1, <3>1, RecordFacts DEF Repo!HasCluster
    <3>3. found = c
          BY <2>3, <3>1, <3>2 DEF SettledIInv, Repo!NamesUnique
    <3> QED
        BY <1>2, <2>3, <3>1, <3>2, <3>3 DEF EditFails, HasNode
  <2> QED
      BY <1>0, <1>1, <2>1, <2>2, <2>3, FailKeeps
<1>3. CASE ~(found = NoRecord \/ EditFails(edit, found.body, NodeOf(t)))
  <2>1. found \in db.clusters /\ found.name = Cluster(t) /\ found \in Repo!Cluster
    <3>1. found \in db.clusters /\ found.name = Cluster(t)
          BY <1>1, <1>3, RecordFacts
    <3> QED
        BY <1>1, <3>1 DEF Repo!DB
  <2>2. found.body \in Body
        BY <2>1 DEF Repo!Cluster
  <2>3. body \in Body /\ body.status = IF edit \in Statuses THEN edit ELSE found.body.status
        BY <1>1, <1>3, <2>2, EditType, EditStatus
  <2>4. \A x \in NodeNames : IsLocked(body, x) =>
            /\ edit \in {"unlock", "remove"} => x # NodeOf(t)
            /\ \/ edit \in LockEdits /\ x = NodeOf(t)
               \/ IsLocked(found.body, x)
    <3> SUFFICES ASSUME NEW x \in NodeNames, IsLocked(body, x)
                 PROVE  /\ edit \in {"unlock", "remove"} => x # NodeOf(t)
                        /\ \/ edit \in LockEdits /\ x = NodeOf(t)
                           \/ IsLocked(found.body, x)
        OBVIOUS
    <3> DEFINE b == found.body
    <3>1. IsLocked(Edit(edit, b, NodeOf(t)), x) /\ b \in Body /\ ~EditFails(edit, b, NodeOf(t))
          BY <1>3, <2>2
    <3> HIDE DEF edit, b
    <3>2. /\ edit \in {"unlock", "remove"} => x # NodeOf(t)
          /\ \/ edit \in LockEdits /\ x = NodeOf(t)
             \/ IsLocked(b, x)
          BY <1>1, <3>1, EditLocks
    <3> QED
        BY <3>2 DEF b
  <2>5. Proceed(t, q)
        BY <1>3 DEF GetCluster
  <2> HIDE DEF found, body
  <2>6. copy \in Repo!Cluster /\ copy.name = Cluster(t) /\ copy.body = body
        BY <2>1, <2>3 DEF Repo!Cluster
  <2> HIDE DEF copy
  <2>7. /\ q \in ThreadState /\ q.program = s.program /\ q.copy = copy /\ q.read = found
        /\ q.request = s.request /\ q.ok = s.ok /\ q.err = s.err
        BY <1>1, <2>1, <2>6 DEF ThreadState, Records
  <2> HIDE DEF q
  <2>8. /\ Else(t) /\ r.program = Tail(s.program) /\ r.ok = s.ok /\ r.err = s.err
        /\ r.request = s.request /\ r.copy = copy /\ r.read = found
        BY <1>1, <2>5, <2>7, ProceedFields
  <2> HIDE DEF r
  <2>9. /\ Shape(r)
        /\ Marking(Head(s.program)) =>
              /\ r.program \in Marked
              /\ IF edit \in LockEdits
                 THEN r.request.kind \in Locking
                 ELSE r.request.kind \in Settling
        BY <1>1, <2>8, ShapeTail
  <2>10. r.read # NoRecord
         BY <1>3, <2>8 DEF found
  <2>11. StatusFits(r)
    <3>1. CASE edit \in Passing
          BY <1>1, <2>9, <3>1 DEF StatusFits, Marking, Passing, LockEdits
    <3>2. CASE edit \in Final
          BY <2>3, <2>6, <2>8, <3>2 DEF StatusFits, Final, Statuses
    <3>3. CASE edit \notin Statuses
          BY <2>3, <2>6, <2>8, <2>10, <3>3 DEF StatusFits
    <3> QED
        BY <3>1, <3>2, <3>3 DEF Statuses, Passing, Final
  <2>12. LocksFit(r)
    <3> SUFFICES ASSUME NEW x \in NodeNames, IsLocked(r.copy.body, x)
                 PROVE  \/ /\ r.request.kind \in Locking /\ r.program \in Marked
                           /\ x = r.request.node
                        \/ r.read # NoRecord /\ IsLocked(r.read.body, x)
        BY DEF LocksFit
    <3>1. CASE edit \in LockEdits /\ x = NodeOf(t)
          BY <1>1, <2>8, <2>9, <3>1 DEF Marking, NodeOf
    <3>2. CASE IsLocked(found.body, x)
          BY <2>8, <2>10, <3>2
    <3> QED
        BY <2>4, <2>6, <2>8, <3>1, <3>2
  <2>13. CopyFits(r)
         BY <2>6, <2>8, <2>11, <2>12 DEF CopyFits, Cluster
  <2>14. Owner(s) => Owner(r)
    <3>1. edit \in Final => r.copy.body.status \in Final
          BY <2>3, <2>6, <2>8 DEF Final, Statuses
    <3> QED
        BY <1>1, <2>8, <3>1, OwnerTail
  <2>15. Unlocker(s) => Unlocker(r)
    <3>1. edit \in {"unlock", "remove"} => Clean(r)
          BY <1>1, <2>4, <2>6, <2>8 DEF Clean, NodeOf
    <3> QED
        BY <1>1, <2>8, <3>1, UnlockerTail
  <2> QED
      BY <1>0, <1>1, <2>8, <2>9, <2>13, <2>14, <2>15, OwnersStay DEF r
<1> QED
    BY <1>2, <1>3

LEMMA SettledCheckAbsent ==
    ASSUME SettledIInv, NEW t \in Threads, CheckAbsent(t)
    PROVE  SettledIInv'
<1> DEFINE s    == thread[t]
           copy == NewCluster(Cluster(t))
           q    == [s EXCEPT !.read = NoRecord, !.copy = copy]
           r    == thread'[t]
<1>0. At(t, "absent") /\ db' = db /\ queue' = queue /\ UNCHANGED <<lost, cleared>>
      BY DEF CheckAbsent
<1>1. /\ LifecycleIInv /\ LifecycleIInv' /\ s \in ThreadState /\ Threading(s) /\ Shape(s)
      /\ s.program # <<>> /\ Head(s.program).do = "absent" /\ r \in ThreadState
      /\ Cluster(t) \in Names
      BY <1>0, CheckAbsentStep, AtFacts DEF SettledIInv, LifecycleIInv
<1>2. CASE Repo!HasCluster(db, Cluster(t))
  <2>1. Fail(t)
        BY <1>2 DEF CheckAbsent
  <2> QED
      BY <1>0, <1>1, <2>1, FailKeeps
<1>3. CASE ~Repo!HasCluster(db, Cluster(t))
  <2>1. Proceed(t, q) /\ copy \in Repo!Cluster /\ copy.name = Cluster(t)
        BY <1>1, <1>3, NewClusterType DEF CheckAbsent, NewCluster
  <2>2. \A x \in NodeNames : ~IsLocked(copy.body, x)
        BY NewUnlocked
  <2> HIDE DEF copy
  <2>3. /\ q \in ThreadState /\ q.program = s.program /\ q.copy = copy
        /\ q.request = s.request /\ q.ok = s.ok /\ q.err = s.err
        BY <1>1, <2>1 DEF ThreadState, Records
  <2> HIDE DEF q
  <2>4. /\ Else(t) /\ r.program = Tail(s.program) /\ r.ok = s.ok /\ r.err = s.err
        /\ r.request = s.request /\ r.copy = copy
        BY <1>1, <2>1, <2>3, ProceedFields
  <2> HIDE DEF r
  <2>5. Shape(r) /\ r.program \in Marked /\ r.request.kind \in Settling
        BY <1>1, <2>4, ShapeTail DEF Marking
  <2>6. CopyFits(r)
        BY <2>1, <2>2, <2>4, <2>5 DEF CopyFits, StatusFits, LocksFit, Cluster
  <2>7. Owner(s) => Owner(r)
        BY <1>1, <2>4, OwnerTail
  <2>8. Unlocker(s) => Unlocker(r)
        BY <1>1, <2>4, UnlockerTail
  <2> QED
      BY <1>0, <1>1, <2>4, <2>5, <2>6, <2>7, <2>8, OwnersStay DEF r
<1> QED
    BY <1>2, <1>3

LEMMA SettledCheckNotLast ==
    ASSUME SettledIInv, NEW t \in Threads, CheckNotLast(t)
    PROVE  SettledIInv'
<1> DEFINE s    == thread[t]
           body == s.copy.body
           r    == thread'[t]
<1>0. At(t, "notLast") /\ db' = db /\ queue' = queue /\ UNCHANGED <<lost, cleared>>
      BY DEF CheckNotLast
<1>1. /\ LifecycleIInv /\ LifecycleIInv' /\ s \in ThreadState /\ Threading(s) /\ Shape(s)
      /\ s.program # <<>> /\ Head(s.program).do = "notLast" /\ r \in ThreadState
      /\ thread \in [Threads -> ThreadState]
      BY <1>0, CheckNotLastStep, AtFacts DEF SettledIInv, LifecycleIInv
<1>2. CASE IsSingle(body)
  <2>1. r = [s EXCEPT !.program = <<Log("error")>>] /\ Else(t)
        BY <1>1, <1>2 DEF CheckNotLast, Continue, Else
  <2>2. /\ r.program = <<Log("error")>> /\ r.ok = s.ok /\ r.err = s.err /\ r.request = s.request
        BY <1>1, <2>1 DEF ThreadState
  <2> HIDE DEF r
  <2>3. Plain(<<Log("error")>>)
        BY Does DEF Plain, Marking
  <2>4. Shape(r)
        BY <1>1, <2>2, <2>3 DEF Shape
  <2>5. CopyFits(r)
        BY <2>2, Walk, Does DEF CopyFits
  <2>6. Owner(s) => Owner(r)
    <3>1. /\ s.program \notin {<<Log("info"), Send>>, <<Send>>}
          /\ s.program \notin {<<Save, UseCase>>, <<UseCase>>}
          /\ s.program \notin {<<Save, Log("info")>>, <<Save, Log("error")>>}
          BY <1>1, Walk, Does
    <3>2. s.program \notin {Dispatch("create"), OkArm("create"), ErrArm}
      <4>1. /\ s.program # <<Get("Creating"), Save, UseCase>>
            /\ s.program # <<Get("Sync"), Save, Log("info")>>
            /\ s.program # <<Get("Error"), Save, Log("error")>>
            BY <1>1, Walk, Does
      <4> QED
          BY <4>1, Literals
    <3>3. s.program \notin DeletePrograms
          BY <1>1, Walk, Does DEF DeletePrograms, DeleteCluster
    <3> QED
        BY <2>2, <3>1, <3>2, <3>3 DEF Owner
  <2>7. Unlocker(s) => Unlocker(r)
        BY <2>2 DEF Unlocker
  <2> QED
      BY <1>0, <1>1, <2>1, <2>2, <2>4, <2>5, <2>6, <2>7, OwnersStay DEF r
<1>3. CASE ~IsSingle(body) /\ EditFails("findWithPeer", body, NodeOf(t))
      BY <1>0, <1>1, <1>3, FailKeeps DEF CheckNotLast
<1>4. CASE ~IsSingle(body) /\ ~EditFails("findWithPeer", body, NodeOf(t))
      BY <1>0, <1>1, <1>4, PlainKeeps DEF CheckNotLast
<1> QED
    BY <1>2, <1>3, <1>4

LEMMA SettledDoWork ==
    ASSUME SettledIInv, NEW t \in Threads, DoWork(t)
    PROVE  SettledIInv'
<1>1. LifecycleIInv'
      BY DoWorkStep DEF SettledIInv
<1> QED
    BY <1>1, FailKeeps, PlainKeeps DEF DoWork

LEMMA SettledLoadFile ==
    ASSUME SettledIInv, NEW t \in Threads, LoadFile(t)
    PROVE  SettledIInv'
<1> DEFINE s == thread[t]
           r == thread'[t]
<1>1. /\ LifecycleIInv' /\ s \in ThreadState /\ thread \in [Threads -> ThreadState]
      /\ Shape(s) /\ CopyFits(s)
      BY LoadFileStep DEF SettledIInv, LifecycleIInv
<1>2. Else(t) /\ r = [s EXCEPT !.data = db]
      BY <1>1 DEF LoadFile, Else
<1>3. /\ r.program = s.program /\ r.ok = s.ok /\ r.err = s.err /\ r.request = s.request
      /\ r.copy = s.copy /\ r.read = s.read
      BY <1>1, <1>2 DEF ThreadState
<1> HIDE DEF r
<1>4. Shape(r) /\ CopyFits(r)
      BY <1>1, <1>3 DEF Shape, CopyFits, StatusFits, LocksFit
<1>5. Owner(s) => Owner(r)
      BY <1>3 DEF Owner
<1>6. Unlocker(s) => Unlocker(r)
      BY <1>3 DEF Unlocker, Clean
<1> QED
    BY <1>1, <1>2, <1>3, <1>4, <1>5, <1>6, OwnersStay DEF LoadFile, r

LEMMA SettledSendEvent ==
    ASSUME SettledIInv, NEW t \in Threads, SendEvent(t)
    PROVE  SettledIInv'
<1> DEFINE s == thread[t]
           r == thread'[t]
<1>0. /\ At(t, "send") /\ db' = db /\ UNCHANGED <<lost, cleared>> /\ queue' = Append(queue, s.request)
      /\ Proceed(t, s)
      BY DEF SendEvent
<1>1. /\ LifecycleIInv /\ LifecycleIInv' /\ s \in ThreadState /\ Threading(s) /\ Shape(s)
      /\ s.program # <<>> /\ Head(s.program).do = "send" /\ r \in ThreadState
      BY <1>0, SendEventStep, AtFacts DEF SettledIInv, LifecycleIInv
<1>2. /\ Else(t) /\ r.program = Tail(s.program) /\ r.ok = s.ok /\ r.err = s.err
      /\ r.request = s.request
      BY <1>0, <1>1, ProceedFields
<1> HIDE DEF r
<1>3. Shape(r) /\ CopyFits(r)
      BY <1>1, <1>2, ShapeTail, TailFits DEF Copies
<1>4. \A u \in Threads : Shape(thread'[u]) /\ CopyFits(thread'[u])
      BY <1>2, <1>3 DEF SettledIInv, Else, r
\* What waited still waits, and the event of this thread now does.
<1>5. /\ \A i \in 1..Len(queue) : i \in 1..Len(queue') /\ queue'[i] = queue[i]
      /\ Len(queue) + 1 \in 1..Len(queue') /\ queue'[Len(queue) + 1] = s.request
  <2>1. queue \in Seq(Event) /\ s.request \in Request
        BY <1>0, <1>1, AtFacts DEF LifecycleIInv, Shared
  <2>2. /\ Len(queue') = Len(queue) + 1 /\ queue'[Len(queue) + 1] = s.request
        /\ \A i \in 1..Len(queue) : queue'[i] = queue[i]
        BY <1>0, <2>1
  <2> QED
      BY <2>1, <2>2
<1>6. ASSUME ~lost, NEW c \in db.clusters, c.body.status \in Passing
      PROVE  Waits(c.name)' \/ Serves(c.name)'
  <2>1. CASE Waits(c.name)
        BY <1>5, <2>1 DEF Waits
  <2>2. ASSUME NEW u \in Threads, Owner(thread[u]), thread[u].request.name = c.name
        PROVE  Waits(c.name)' \/ Serves(c.name)'
    <3>1. CASE u = t
      <4>1. s.request.name = c.name /\ s.request.kind \in Settling
            BY <2>2, <3>1 DEF Owner
      <4> QED
          BY <1>5, <4>1 DEF Waits
    <3>2. CASE u # t
      <4>1. thread'[u] = thread[u]
            BY <1>2, <3>2 DEF Else
      <4> QED
          BY <2>2, <4>1 DEF Serves
    <3> QED
        BY <3>1, <3>2
  <2> QED
      BY <1>6, <2>1, <2>2 DEF SettledIInv, Owned, Serves
<1>7. ASSUME ~lost, NEW c \in db.clusters, NEW x \in NodeNames, IsLocked(c.body, x)
      PROVE  Told(c.name)' \/ WaitsAt(c.name, x)' \/ ServesAt(c.name, x)'
  <2>1. CASE Told(c.name)
        BY <1>0, <2>1 DEF Told
  <2>2. CASE WaitsAt(c.name, x)
        BY <1>5, <2>2 DEF WaitsAt
  <2>3. ASSUME NEW u \in Threads, Unlocker(thread[u]), thread[u].request.name = c.name,
               thread[u].request.node = x
        PROVE  WaitsAt(c.name, x)' \/ ServesAt(c.name, x)'
    <3>1. CASE u = t
      <4>1. /\ s.request.name = c.name /\ s.request.kind \in Locking
            /\ s.request.node = x
            BY <2>3, <3>1 DEF Unlocker
      <4> QED
          BY <1>5, <4>1 DEF WaitsAt
    <3>2. CASE u # t
      <4>1. thread'[u] = thread[u]
            BY <1>2, <3>2 DEF Else
      <4> QED
          BY <2>3, <4>1 DEF ServesAt
    <3> QED
        BY <3>1, <3>2
  <2> QED
      BY <1>7, <2>1, <2>2, <2>3 DEF SettledIInv, Explained, ServesAt
<1>8. ~lost' => Repo!NamesUnique(db)' /\ Owned' /\ Explained'
      BY <1>0, <1>6, <1>7 DEF SettledIInv, Owned, Explained, Repo!NamesUnique
<1>9. \A u \in Threads : Shape(thread[u])' /\ CopyFits(thread[u])'
      BY <1>4 DEF Shape, CopyFits, StatusFits, LocksFit
<1> QED
    BY <1>1, <1>8, <1>9 DEF SettledIInv

LEMMA SettledReceive ==
    ASSUME SettledIInv, Receive
    PROVE  SettledIInv'
<1> DEFINE e == Head(queue)
           r == thread'[Worker]
<1>1. /\ LifecycleIInv /\ LifecycleIInv' /\ queue \in Seq(Event) /\ queue # <<>>
      /\ thread \in [Threads -> ThreadState] /\ Worker \in Threads
      BY ReceiveStep DEF SettledIInv, LifecycleIInv, Shared, Receive, Threads
<1>2. e \in Event /\ queue[1] = e
      BY <1>1
<1>3. e.kind \in Kinds \ {"edit", "clear"}
      BY <1>2 DEF Event, Request
<1>4. /\ db' = db /\ UNCHANGED <<lost, cleared>> /\ queue' = Tail(queue) /\ thread[Worker] = Resting
      /\ r = [Resting EXCEPT !.request = e, !.program = Dispatch(e.kind)] /\ Else(Worker)
      BY <1>1 DEF Receive, Else
<1>5. r.program = Dispatch(e.kind) /\ r.request = e /\ r.ok = <<>> /\ r.err = <<>>
      BY <1>4 DEF Resting
\* What waits behind the first event still waits.
<1>6. \A i \in 1..Len(queue) : i # 1 => i - 1 \in 1..Len(queue') /\ queue'[i - 1] = queue[i]
      BY <1>1, <1>4
<1> HIDE DEF r, e
<1>7. Shape(r) /\ CopyFits(r)
      BY <1>3, <1>5, PlainArms, ArmsFresh, FreshFits DEF Shape
<1>8. \A u \in Threads : Shape(thread'[u]) /\ CopyFits(thread'[u])
      BY <1>4, <1>7 DEF SettledIInv, Else, r
<1>9. ASSUME ~lost, NEW c \in db.clusters, c.body.status \in Passing
      PROVE  Waits(c.name)' \/ Serves(c.name)'
  <2>1. ASSUME NEW i \in 1..Len(queue), queue[i].name = c.name, queue[i].kind \in Settling
        PROVE  Waits(c.name)' \/ Serves(c.name)'
    <3>1. CASE i = 1
      <4>1. e.name = c.name /\ e.kind \in Settling
            BY <1>2, <2>1, <3>1
      <4>2. Owner(r)
            BY <1>5, <4>1, Literals DEF Owner, Settling
      <4> QED
          BY <1>1, <1>5, <4>1, <4>2 DEF Serves, r
    <3>2. CASE i # 1
          BY <1>6, <2>1, <3>2 DEF Waits
    <3> QED
        BY <3>1, <3>2
  <2>2. ASSUME NEW u \in Threads, Owner(thread[u]), thread[u].request.name = c.name
        PROVE  Serves(c.name)'
    <3>1. thread'[u] = thread[u]
          BY <1>4, <2>2, RestingOwns DEF Else
    <3> QED
        BY <2>2, <3>1 DEF Serves
  <2> QED
      BY <1>9, <2>1, <2>2 DEF SettledIInv, Owned, Waits, Serves
<1>10. ASSUME ~lost, NEW c \in db.clusters, NEW x \in NodeNames, IsLocked(c.body, x)
       PROVE  Told(c.name)' \/ WaitsAt(c.name, x)' \/ ServesAt(c.name, x)'
  <2>1. ASSUME NEW i \in 1..Len(queue), queue[i].kind \in Locking, queue[i].name = c.name,
               queue[i].node = x
        PROVE  WaitsAt(c.name, x)' \/ ServesAt(c.name, x)'
    <3>1. CASE i = 1
      <4>1. e.name = c.name /\ e.kind \in Locking /\ e.node = x
            BY <1>2, <2>1, <3>1
      <4>2. Unlocker(r)
            BY <1>5, <4>1, Literals DEF Unlocker
      <4> QED
          BY <1>1, <1>5, <4>1, <4>2 DEF ServesAt, r
    <3>2. CASE i # 1
          BY <1>6, <2>1, <3>2 DEF WaitsAt
    <3> QED
        BY <3>1, <3>2
  <2>2. ASSUME NEW u \in Threads, Unlocker(thread[u]), thread[u].request.name = c.name,
               thread[u].request.node = x
        PROVE  ServesAt(c.name, x)'
    <3>1. thread'[u] = thread[u]
          BY <1>4, <2>2, RestingOwns DEF Else
    <3> QED
        BY <2>2, <3>1 DEF ServesAt
  <2>3. CASE Told(c.name)
        BY <1>4, <2>3 DEF Told
  <2> QED
      BY <1>10, <2>1, <2>2, <2>3 DEF SettledIInv, Explained, WaitsAt, ServesAt
<1>11. ~lost' => Repo!NamesUnique(db)' /\ Owned' /\ Explained'
       BY <1>4, <1>9, <1>10 DEF SettledIInv, Owned, Explained, Repo!NamesUnique
<1>12. \A u \in Threads : Shape(thread[u])' /\ CopyFits(thread[u])'
       BY <1>8 DEF Shape, CopyFits, StatusFits, LocksFit
<1> QED
    BY <1>1, <1>11, <1>12 DEF SettledIInv
-----------------------------------------------------------------------------
\* The content of a file after a write, and that each name is there once
LEMMA Written ==
    ASSUME NEW d \in Repo!DB, Repo!NamesUnique(d), NEW o \in Repo!WriteOps
    PROVE  LET w == Repo!Apply(o, d)
           IN  /\ Repo!NamesUnique(w)
               /\ o.op = "save_cluster" =>
                    /\ w.action_log = d.action_log
                    /\ \A c \in w.clusters :
                          c = o.cluster \/ (c \in d.clusters /\ c.name # o.cluster.name)
               /\ o.op = "save_log" =>
                    /\ w.clusters = d.clusters
                    /\ w.action_log = d.action_log \cup {o.entry}
               /\ o.op = "delete_cluster" =>
                    /\ \A e \in d.action_log : e.name # o.name => e \in w.action_log
                    /\ \A c \in w.clusters : c \in d.clusters /\ c.name # o.name
               /\ o.op = "delete_logs" =>
                    /\ w.clusters = d.clusters
                    /\ \A e \in d.action_log : e.name # o.name => e \in w.action_log
<1>1. CASE o \in Repo!SaveClusterOps
  <2> DEFINE w == Repo!SaveCluster(d, o.cluster)
  <2>1. CASE Repo!HasCluster(d, o.cluster.name)
    <3>1. w.clusters = {IF c.name = o.cluster.name THEN o.cluster ELSE c : c \in d.clusters}
          BY <2>1 DEF Repo!SaveCluster, Repo!DB
    <3>2. \A c \in w.clusters : c = o.cluster \/ (c \in d.clusters /\ c.name # o.cluster.name)
          BY <3>1
    <3>3. w.action_log = d.action_log
          BY DEF Repo!SaveCluster, Repo!DB
    <3> QED
        BY <1>1, <3>2, <3>3 DEF Repo!SaveClusterOps, Repo!Apply, Repo!NamesUnique
  <2>2. CASE ~Repo!HasCluster(d, o.cluster.name)
    <3>1. w.clusters = d.clusters \cup {o.cluster}
          BY <2>2 DEF Repo!SaveCluster, Repo!DB
    <3>2. \A c \in w.clusters : c = o.cluster \/ (c \in d.clusters /\ c.name # o.cluster.name)
          BY <2>2, <3>1 DEF Repo!HasCluster
    <3>3. w.action_log = d.action_log
          BY DEF Repo!SaveCluster, Repo!DB
    <3> QED
        BY <1>1, <3>2, <3>3 DEF Repo!SaveClusterOps, Repo!Apply, Repo!NamesUnique
  <2> QED
      BY <2>1, <2>2
<1>2. CASE o \in Repo!DeleteClusterOps
  <2>1. /\ Repo!DeleteCluster(d, o.name).clusters = {c \in d.clusters : c.name # o.name}
        /\ Repo!DeleteCluster(d, o.name).action_log = {e \in d.action_log : e.name # o.name}
        BY DEF Repo!DeleteCluster, Repo!DeleteLogs, Repo!DB
  <2> QED
      BY <1>2, <2>1 DEF Repo!DeleteClusterOps, Repo!Apply, Repo!NamesUnique
<1>3. CASE o \in Repo!SaveLogOps
  <2>1. /\ Repo!SaveLog(d, o.entry).clusters = d.clusters
        /\ Repo!SaveLog(d, o.entry).action_log = d.action_log \cup {o.entry}
        BY DEF Repo!SaveLog, Repo!DB
  <2> QED
      BY <1>3, <2>1 DEF Repo!SaveLogOps, Repo!Apply, Repo!NamesUnique
<1>4. CASE o \in Repo!DeleteLogsOps
  <2>1. /\ Repo!DeleteLogs(d, o.name).clusters = d.clusters
        /\ Repo!DeleteLogs(d, o.name).action_log = {e \in d.action_log : e.name # o.name}
        BY DEF Repo!DeleteLogs, Repo!DB
  <2> QED
      BY <1>4, <2>1 DEF Repo!DeleteLogsOps, Repo!Apply, Repo!NamesUnique
<1> QED
    BY <1>1, <1>2, <1>3, <1>4 DEF Repo!WriteOps

(* What a save that loses nothing makes of the file, and of its thread *)
SavesWhole(t) ==
    LET i == Head(thread[t].program)
    IN  /\ ~lost /\ queue' = queue /\ Repo!NamesUnique(db)'
        /\ i.do = "save" =>
             /\ Record(db, Cluster(t)) = thread[t].read
             /\ db'.action_log = db.action_log
             /\ \A c \in db'.clusters :
                   c = thread[t].copy \/ (c \in db.clusters /\ c.name # Cluster(t))
        /\ i.do = "log" =>
             /\ db'.clusters = db.clusters
             /\ db'.action_log = db.action_log \cup {[name |-> Cluster(t), entry |-> i.level]}
        /\ i.do = "erase" =>
             /\ \A e \in db.action_log : e.name # Cluster(t) => e \in db'.action_log
             /\ \A c \in db'.clusters : c \in db.clusters /\ c.name # Cluster(t)
        /\ i.do = "clear" =>
             /\ db'.clusters = db.clusters
             /\ \A e \in db.action_log : e.name # Cluster(t) => e \in db'.action_log
             /\ ErrorOf(Cluster(t)) \in db.action_log => Cluster(t) \in cleared'
        /\ cleared \subseteq cleared'

GoesOn(t) ==
    /\ Else(t) /\ thread'[t] \in ThreadState
    /\ thread'[t].program = Tail(thread[t].program)
    /\ thread'[t].ok = thread[t].ok /\ thread'[t].err = thread[t].err
    /\ thread'[t].request = thread[t].request

\* What is known of a thread that saves
LEMMA SavingFacts ==
    ASSUME SettledIInv, NEW t \in Threads, SaveFile(t)
    PROVE  /\ LifecycleIInv /\ LifecycleIInv' /\ db \in Repo!DB
           /\ thread[t] \in ThreadState /\ Threading(thread[t])
           /\ Shape(thread[t]) /\ CopyFits(thread[t]) /\ thread[t].program # <<>>
           /\ Head(thread[t].program).do \in Writes /\ WriteOp(t) \in Repo!WriteOps
           /\ Cluster(t) \in Names /\ Cluster(t) = thread[t].request.name
           /\ NodeOf(t) = thread[t].request.node
<1>1. /\ LifecycleIInv /\ LifecycleIInv' /\ db \in Repo!DB
      /\ thread[t] \in ThreadState /\ Threading(thread[t])
      /\ Shape(thread[t]) /\ CopyFits(thread[t]) /\ WriteOp(t) \in Repo!WriteOps
      BY SaveFileStep DEF SettledIInv, LifecycleIInv, Shared
<1>2. thread[t].program # <<>> /\ Head(thread[t].program).do \in Writes
      BY <1>1 DEF SaveFile, Threading
<1>3. thread[t].request \in Request
      BY <1>1, <1>2 DEF Threading, ThreadState
<1> QED
    BY <1>1, <1>2, <1>3 DEF Cluster, NodeOf, Request

LEMMA SavedWhole ==
    ASSUME SettledIInv, NEW t \in Threads, SaveFile(t), ~lost'
    PROVE  SavesWhole(t)
<1> DEFINE s == thread[t]
           o == WriteOp(t)
<1>1. /\ CopyFits(s) /\ s.program # <<>> /\ db \in Repo!DB
      /\ Head(s.program).do \in Writes /\ o \in Repo!WriteOps
      BY SavingFacts
<1>2. ~lost /\ s.data = db /\ (At(t, "save") => Record(db, Cluster(t)) = s.read)
      BY DEF SaveFile, Remember, Erases
<1>3. db' = Repo!Apply(o, db) /\ Repo!NamesUnique(db) /\ queue' = queue
      BY <1>2 DEF SaveFile, SettledIInv
<1> DEFINE w == Repo!Apply(o, db)
<1>4. /\ Repo!NamesUnique(w)
      /\ o.op = "save_cluster" =>
           /\ w.action_log = db.action_log
           /\ \A c \in w.clusters :
                 c = o.cluster \/ (c \in db.clusters /\ c.name # o.cluster.name)
      /\ o.op = "save_log" =>
           /\ w.clusters = db.clusters
           /\ w.action_log = db.action_log \cup {o.entry}
      /\ o.op = "delete_cluster" =>
           /\ \A e \in db.action_log : e.name # o.name => e \in w.action_log
           /\ \A c \in w.clusters : c \in db.clusters /\ c.name # o.name
      /\ o.op = "delete_logs" =>
           /\ w.clusters = db.clusters
           /\ \A e \in db.action_log : e.name # o.name => e \in w.action_log
      BY <1>1, <1>3, Written
<1>5. Repo!NamesUnique(db)'
      BY <1>3, <1>4 DEF Repo!NamesUnique
<1> HIDE DEF w
<1>6. db' = w /\ cleared \subseteq cleared'
      BY <1>3 DEF w, SaveFile, Remember
<1>7. CASE Head(s.program).do = "save"
  <2>1. o.op = "save_cluster" /\ o.cluster = s.copy /\ At(t, "save")
        BY <1>1, <1>7 DEF WriteOp, At
  <2>2. s.copy.name = Cluster(t)
        BY <1>1, <1>7 DEF CopyFits, Cluster
  <2> HIDE DEF o
  <2> QED
      BY <1>2, <1>3, <1>4, <1>5, <1>6, <1>7, <2>1, <2>2 DEF SavesWhole
<1>8. CASE Head(s.program).do = "log"
  <2>1. o.op = "save_log" /\ o.entry = [name |-> Cluster(t), entry |-> Head(s.program).level]
        BY <1>8 DEF WriteOp
  <2> HIDE DEF o
  <2> QED
      BY <1>2, <1>3, <1>4, <1>5, <1>6, <1>8, <2>1 DEF SavesWhole
<1>9. CASE Head(s.program).do = "erase"
  <2>1. o.op = "delete_cluster" /\ o.name = Cluster(t)
        BY <1>9 DEF WriteOp
  <2> HIDE DEF o
  <2> QED
      BY <1>2, <1>3, <1>4, <1>5, <1>6, <1>9, <2>1 DEF SavesWhole
<1>10. CASE Head(s.program).do = "clear"
  <2>1. /\ o.op = "delete_logs" /\ o.name = Cluster(t)
        /\ ErrorOf(Cluster(t)) \in db.action_log => Cluster(t) \in cleared'
        BY <1>1, <1>10 DEF WriteOp, SaveFile, Remember, At
  <2> HIDE DEF o
  <2> QED
      BY <1>2, <1>3, <1>4, <1>5, <1>6, <1>10, <2>1 DEF SavesWhole
<1> QED
    BY <1>1, <1>7, <1>8, <1>9, <1>10 DEF Writes

(* Having saved its mark, a thread answers for it. *)
LEMMA MarkedTail ==
    ASSUME NEW s \in ThreadState, s.program \in Marked,
           NEW r \in ThreadState, r.program = Tail(s.program), r.request = s.request
    PROVE  /\ s.request.kind \in Settling => Owner(r)
           /\ s.request.kind \in Locking => Unlocker(r)
<1>1. r.program \in {<<Send>>, <<Log("info"), Send>>, <<UseCase>>}
  <2>1. CASE s.program = <<Save, Send>>
        BY <2>1, Walk
  <2>2. CASE s.program = <<Save, Log("info"), Send>>
        BY <2>2, Walk
  <2>3. CASE s.program = <<Save, UseCase>>
        BY <2>3, Walk
  <2> QED
      BY <2>1, <2>2, <2>3 DEF Marked
<1>2. s.request.kind \in Settling => Owner(r)
      BY <1>1 DEF Owner
<1>3. s.request.kind \in Locking => Unlocker(r)
      BY <1>1 DEF Unlocker
<1> QED
    BY <1>2, <1>3

LEMMA SavedGoesOn ==
    ASSUME SettledIInv, NEW t \in Threads, SaveFile(t)
    PROVE  GoesOn(t)
<1> DEFINE s == thread[t]
           q == IF At(t, "save")
                THEN [s EXCEPT !.data = Repo!NoData, !.copy = NoRecord, !.read = NoRecord]
                ELSE [s EXCEPT !.data = Repo!NoData]
<1>1. s \in ThreadState /\ LifecycleIInv /\ LifecycleIInv'
      BY SavingFacts
<1>2. /\ q \in ThreadState /\ q.program = s.program
      /\ q.request = s.request /\ q.ok = s.ok /\ q.err = s.err
      BY <1>1 DEF ThreadState, Records
<1>3. Proceed(t, q)
      BY DEF SaveFile
<1> HIDE DEF q
<1>4. /\ Else(t) /\ thread'[t].program = Tail(s.program)
      /\ thread'[t].ok = s.ok /\ thread'[t].err = s.err
      /\ thread'[t].request = s.request
      BY <1>1, <1>2, <1>3, ProceedFields
<1>5. thread'[t] \in ThreadState
      BY <1>1 DEF LifecycleIInv
<1> QED
    BY <1>4, <1>5 DEF GoesOn

(* Whatever is in a passing state after a save has somebody who settles it. *)
LEMMA SavedOwned ==
    ASSUME SettledIInv, NEW t \in Threads, SaveFile(t), SavesWhole(t), GoesOn(t)
    PROVE  Owned'
<1> DEFINE s == thread[t]
           r == thread'[t]
<1>1. /\ s \in ThreadState /\ s.program # <<>> /\ Head(s.program).do \in Writes
      /\ CopyFits(s) /\ db \in Repo!DB
      /\ Cluster(t) \in Names /\ Cluster(t) = s.request.name
      BY SavingFacts
<1>2. /\ Else(t) /\ r \in ThreadState /\ r.program = Tail(s.program)
      /\ r.ok = s.ok /\ r.err = s.err /\ r.request = s.request
      BY DEF GoesOn
<1> HIDE DEF r
\* The owners but this thread go on.
<1>3. ASSUME NEW c \in db.clusters, c.body.status \in Passing,
             c.name = s.request.name /\ Owner(s) => Owner(r)
      PROVE  Waits(c.name)' \/ Serves(c.name)'
  <2>1. CASE Waits(c.name)
        BY <2>1 DEF Waits, SavesWhole
  <2>2. CASE Serves(c.name)
    <3>1. PICK u \in Threads : Owner(thread[u]) /\ thread[u].request.name = c.name
          BY <2>2 DEF Serves
    <3>2. Owner(thread'[u]) /\ thread'[u].request.name = c.name
          BY <1>2, <1>3, <3>1 DEF Else, r
    <3> QED
        BY <3>2 DEF Serves
  <2> QED
      BY <1>3, <2>1, <2>2 DEF SettledIInv, SavesWhole, Owned
<1>4. ASSUME NEW c \in db'.clusters, c.body.status \in Passing
      PROVE  Waits(c.name)' \/ Serves(c.name)'
  <2>1. CASE Head(s.program).do = "save"
    <3>1. s.copy.name = s.request.name /\ StatusFits(s)
          BY <1>1, <2>1 DEF CopyFits
    <3>2. CASE c \in db.clusters /\ c.name # s.request.name
          BY <1>3, <1>4, <3>2
    <3>3. CASE c = s.copy
      <4>1. CASE s.request.kind \in Settling /\ s.program \in Marked
        <5>1. Owner(r) /\ r.request.name = c.name
              BY <1>1, <1>2, <3>1, <3>3, <4>1, MarkedTail
        <5> QED
            BY <5>1 DEF Serves, r
      <4>2. CASE s.read # NoRecord /\ s.copy.body.status = s.read.body.status
        <5>1. s.read \in db.clusters /\ s.read.name = s.request.name
              BY <1>1, <2>1, <4>2, RecordFacts DEF SavesWhole
        <5>2. s.copy.body.status \notin Final
              BY <1>4, <3>3 DEF Passing, Final
        <5>3. Owner(s) => Owner(r)
              BY <1>1, <1>2, <2>1, <5>2, OwnerTail
        <5>4. PICK d \in db.clusters : d = s.read
              BY <5>1
        <5>5. d.name = c.name /\ d.body.status \in Passing
              BY <1>4, <3>1, <3>3, <4>2, <5>1, <5>4
        <5>6. Waits(d.name)' \/ Serves(d.name)'
              BY <1>3, <5>3, <5>5
        <5> QED
            BY <5>5, <5>6 DEF Waits, Serves
      <4>3. CASE s.copy.body.status \in Final
            BY <1>4, <3>3, <4>3 DEF Passing, Final
      <4> QED
          BY <3>1, <4>1, <4>2, <4>3 DEF StatusFits
    <3> QED
        BY <1>1, <1>4, <2>1, <3>2, <3>3 DEF SavesWhole
  <2>2. CASE Head(s.program).do = "log"
    <3>1. Owner(s) => Owner(r)
          BY <1>1, <1>2, <2>2, OwnerTail
    <3> QED
        BY <1>3, <1>4, <2>2, <3>1 DEF SavesWhole
  <2>3. CASE Head(s.program).do = "erase"
        BY <1>1, <1>3, <1>4, <2>3 DEF SavesWhole
  <2>4. CASE Head(s.program).do = "clear"
    <3>1. Owner(s) => Owner(r)
          BY <1>1, <1>2, <2>4, OwnerTail
    <3> QED
        BY <1>3, <1>4, <2>4, <3>1 DEF SavesWhole
  <2> QED
      BY <1>1, <2>1, <2>2, <2>3, <2>4 DEF Writes
<1> QED
    BY <1>4 DEF Owned

(* Whatever is locked after a save has somebody who unlocks it or tells. *)
LEMMA SavedExplained ==
    ASSUME SettledIInv, NEW t \in Threads, SaveFile(t), SavesWhole(t), GoesOn(t)
    PROVE  Explained'
<1> DEFINE s == thread[t]
           r == thread'[t]
<1>1. /\ s \in ThreadState /\ s.program # <<>> /\ Head(s.program).do \in Writes
      /\ CopyFits(s) /\ db \in Repo!DB
      /\ Cluster(t) \in Names /\ Cluster(t) = s.request.name
      BY SavingFacts
<1>2. /\ Else(t) /\ r \in ThreadState /\ r.program = Tail(s.program)
      /\ r.ok = s.ok /\ r.err = s.err /\ r.request = s.request
      BY DEF GoesOn
<1> HIDE DEF r
\* What explains a lock goes on, but for this thread.
<1>3. ASSUME NEW c \in db.clusters, NEW x \in NodeNames, IsLocked(c.body, x),
             Told(c.name) => Told(c.name)',
             c.name = s.request.name /\ x = s.request.node /\ Unlocker(s)
                => Unlocker(r) \/ Told(c.name)'
      PROVE  Told(c.name)' \/ WaitsAt(c.name, x)' \/ ServesAt(c.name, x)'
  <2>1. CASE WaitsAt(c.name, x)
        BY <2>1 DEF WaitsAt, SavesWhole
  <2>2. CASE ServesAt(c.name, x)
    <3>1. PICK u \in Threads : /\ Unlocker(thread[u]) /\ thread[u].request.name = c.name
                               /\ thread[u].request.node = x
          BY <2>2 DEF ServesAt
    <3>2. CASE u = t
          BY <1>2, <1>3, <3>1, <3>2 DEF ServesAt, r
    <3>3. CASE u # t
      <4>1. thread'[u] = thread[u]
            BY <1>2, <3>3 DEF Else
      <4> QED
          BY <3>1, <4>1 DEF ServesAt
    <3> QED
        BY <3>2, <3>3
  <2> QED
      BY <1>3, <2>1, <2>2 DEF SettledIInv, SavesWhole, Explained
<1>4. ASSUME NEW c \in db'.clusters, NEW x \in NodeNames, IsLocked(c.body, x)
      PROVE  Told(c.name)' \/ WaitsAt(c.name, x)' \/ ServesAt(c.name, x)'
  <2>1. CASE Head(s.program).do = "save"
    <3>1. s.copy.name = s.request.name /\ LocksFit(s)
          BY <1>1, <2>1 DEF CopyFits
    <3>2. \A n : Told(n) => Told(n)'
          BY <2>1 DEF Told, SavesWhole
    <3>3. CASE c \in db.clusters /\ c.name # s.request.name
          BY <1>3, <1>4, <3>2, <3>3
    <3>4. CASE c = s.copy
      <4>1. CASE /\ s.request.kind \in Locking /\ s.program \in Marked
                 /\ x = s.request.node
        <5>1. Unlocker(r) /\ r.request.name = c.name /\ r.request.node = x
              BY <1>1, <1>2, <3>1, <3>4, <4>1, MarkedTail
        <5> QED
            BY <5>1 DEF ServesAt, r
      <4>2. CASE s.read # NoRecord /\ IsLocked(s.read.body, x)
        <5>1. s.read \in db.clusters /\ s.read.name = s.request.name
              BY <1>1, <2>1, <4>2, RecordFacts DEF SavesWhole
        <5>2. PICK d \in db.clusters : d = s.read
              BY <5>1
        <5>3. IsLocked(d.body, x)
              BY <4>2, <5>2
        <5>4. x = s.request.node => ~Clean(s)
              BY <1>4, <3>4 DEF Clean
        <5>5. x = s.request.node /\ Unlocker(s) => Unlocker(r)
              BY <1>1, <1>2, <2>1, <5>4, UnlockerTail
        <5>6. Told(d.name)' \/ WaitsAt(d.name, x)' \/ ServesAt(d.name, x)'
              BY <1>3, <3>2, <5>3, <5>5
        <5>7. d.name = c.name
              BY <3>1, <3>4, <5>1, <5>2
        <5> QED
            BY <5>3, <5>6, <5>7 DEF Told, WaitsAt, ServesAt
      <4> QED
          BY <1>4, <3>1, <3>4, <4>1, <4>2 DEF LocksFit
    <3> QED
        BY <1>1, <1>4, <2>1, <3>3, <3>4 DEF SavesWhole
  <2>2. CASE Head(s.program).do = "log"
    <3>1. \A n : Told(n) => Told(n)'
          BY <2>2 DEF Told, SavesWhole
    <3>2. Head(s.program).level = "error"
             => ErrorOf(s.request.name) \in db'.action_log
          BY <1>1, <2>2 DEF SavesWhole, ErrorOf
    <3>3. Head(s.program).level # "error" /\ Unlocker(s) => Unlocker(r)
          BY <1>1, <1>2, <2>2, UnlockerTail
    <3>4. c \in db.clusters
          BY <1>4, <2>2 DEF SavesWhole
    <3>5. c.name = s.request.name /\ Unlocker(s) => Unlocker(r) \/ Told(c.name)'
          BY <3>2, <3>3 DEF Told
    <3> QED
        BY <1>3, <1>4, <3>1, <3>4, <3>5
  <2>3. CASE Head(s.program).do = "erase"
    <3>1. c \in db.clusters /\ c.name # s.request.name
          BY <1>1, <1>4, <2>3 DEF SavesWhole
    <3>2. Told(c.name) => Told(c.name)'
          BY <1>1, <2>3, <3>1 DEF Told, SavesWhole, ErrorOf
    <3> QED
        BY <1>3, <1>4, <3>1, <3>2
  <2>4. CASE Head(s.program).do = "clear"
    <3>1. c \in db.clusters /\ (Told(c.name) => Told(c.name)')
          BY <1>1, <1>4, <2>4 DEF Told, SavesWhole, ErrorOf
    <3>2. Unlocker(s) => Unlocker(r)
          BY <1>1, <1>2, <2>4, UnlockerTail
    <3> QED
        BY <1>3, <1>4, <3>1, <3>2
  <2> QED
      BY <1>1, <2>1, <2>2, <2>3, <2>4 DEF Writes
<1> QED
    BY <1>4 DEF Explained

LEMMA SettledSaveFile ==
    ASSUME SettledIInv, NEW t \in Threads, SaveFile(t)
    PROVE  SettledIInv'
<1> DEFINE s == thread[t]
           r == thread'[t]
<1>1. /\ LifecycleIInv' /\ s \in ThreadState /\ Threading(s) /\ Shape(s)
      /\ s.program # <<>> /\ Head(s.program).do \in Writes
      BY SavingFacts
<1>2. GoesOn(t)
      BY SavedGoesOn
<1>3. /\ Else(t) /\ r \in ThreadState /\ r.program = Tail(s.program)
      /\ r.ok = s.ok /\ r.err = s.err /\ r.request = s.request
      BY <1>2 DEF GoesOn
<1> HIDE DEF r
<1>4. Shape(r) /\ CopyFits(r)
      BY <1>1, <1>3, ShapeTail, TailFits DEF Copies, Writes
<1>5. \A u \in Threads : Shape(thread[u])' /\ CopyFits(thread[u])'
  <2>1. \A u \in Threads : Shape(thread'[u]) /\ CopyFits(thread'[u])
        BY <1>3, <1>4 DEF SettledIInv, Else, r
  <2> QED
      BY <2>1 DEF Shape, CopyFits, StatusFits, LocksFit
<1>6. ~lost' => Repo!NamesUnique(db)' /\ Owned' /\ Explained'
      BY <1>2, SavedWhole, SavedOwned, SavedExplained DEF SavesWhole
<1> QED
    BY <1>1, <1>5, <1>6 DEF SettledIInv

LEMMA SettledCrash ==
    ASSUME SettledIInv, Crash
    PROVE  SettledIInv'
<1>1. LifecycleIInv' /\ lost'
      BY CrashStep DEF SettledIInv, Crash
<1>2. Shape(Resting) /\ CopyFits(Resting)
      BY DEF Resting, Shape, CopyFits, Plain
<1>3. \A u \in Threads : thread'[u] = Resting
      BY DEF Crash
<1>4. \A u \in Threads : Shape(thread[u])' /\ CopyFits(thread[u])'
      BY <1>2, <1>3 DEF Shape, CopyFits, StatusFits, LocksFit
<1> QED
    BY <1>1, <1>4 DEF SettledIInv

LEMMA SettledInvariant == Spec => []SettledIInv
<1>1. SettledIInv /\ [Next]_vars => SettledIInv'
  <2> SUFFICES ASSUME SettledIInv, [Next]_vars
               PROVE  SettledIInv'
      OBVIOUS
  <2>1. ASSUME NEW t \in Threads, Call(t) \/ Step(t)
        PROVE  SettledIInv'
        BY <2>1, SettledCall, SettledFinish, SettledEnterUseCase, SettledGetCluster,
           SettledCheckAbsent, SettledCheckNotLast, SettledDoWork, SettledSendEvent,
           SettledLoadFile, SettledSaveFile DEF Step
  <2>2. CASE Receive
        BY <2>2, SettledReceive
  <2>3. CASE Crash
        BY <2>3, SettledCrash
  <2>4. CASE UNCHANGED vars
        BY <2>4 DEF vars, SettledIInv, LifecycleIInv, Shared, Threading, Shape, CopyFits,
           StatusFits, LocksFit, Owned, Waits, Serves, Explained, Told, WaitsAt, ServesAt,
           Repo!NamesUnique
  <2> QED
      BY <2>1, <2>2, <2>3, <2>4 DEF Next
<1> QED
    BY <1>1, SettledInit, PTL DEF Spec

(* When nothing is running any more and nothing was lost, no record is in a *)
(* passing state, and none has a lock that its log does not explain.        *)
LEMMA SettledAtRest ==
    ASSUME SettledIInv
    PROVE  Settled /\ NoSilentLock
<1>1. ASSUME Quiet, NEW n
      PROVE  ~Waits(n) /\ ~Serves(n) /\ \A x : ~WaitsAt(n, x) /\ ~ServesAt(n, x)
      BY <1>1, RestingOwns DEF Quiet, Waits, Serves, WaitsAt, ServesAt
<1>2. ASSUME Quiet, ~lost, NEW c \in db.clusters
      PROVE  c.body.status \in {"Sync", "Error"}
  <2>1. c.body.status \in Statuses
        BY DEF SettledIInv, LifecycleIInv, Shared, Repo!DB, Repo!Cluster, Body
  <2> QED
      BY <1>1, <1>2, <2>1 DEF SettledIInv, Owned, Passing, Statuses
<1>3. ASSUME Quiet, ~lost, NEW c \in db.clusters, NEW x \in NodeNames, IsLocked(c.body, x)
      PROVE  ErrorOf(c.name) \in db.action_log \/ c.name \in cleared
      BY <1>1, <1>3 DEF SettledIInv, Explained, Told
<1> QED
    BY <1>2, <1>3 DEF Settled, NoSilentLock

(* Whatever the clients request of however many clusters and handlers, and  *)
(* whichever use case fails: when nothing is running any more, no cluster   *)
(* is left Pending, Creating or Destroying, and no node that is the only    *)
(* one of its name is left locked without an error in the log of its        *)
(* cluster, unless that error was cleared, an update was erased, or the     *)
(* process was killed.                                                      *)
THEOREM LifecycleSettles == Spec => []LifecycleInv
<1>1. SettledIInv => LifecycleInv
      BY SettledAtRest, LifecycleTypes DEF SettledIInv, LifecycleInv
<1> QED
    BY <1>1, SettledInvariant, PTL
-----------------------------------------------------------------------------
(***************************************************************************)
(* What "has been deleted" in a log is worth (OnlyTheLastSurvives).  Here  *)
(* programs are followed to the instruction: Rest says where a thread is.  *)
(***************************************************************************)
\* p is what is left of program q.
Rest(p, q) ==
    Len(p) <= Len(q) /\ \A i \in 1..Len(p) : p[i] = q[Len(q) - Len(p) + i]

Saving(s) == s.program # <<>> /\ Head(s.program).do = "save"

\* What a thread is about to save lists the nodes of the file, but that an
\* addition has put its node to them.
NodesFit(s) ==
    Saving(s) => \A x \in NodeNames : HasNode(s.copy.body, x) =>
        \/ s.read = NoRecord
        \/ HasNode(s.read.body, x)
        \/ /\ s.request.kind = "add" /\ s.request.node = x
           /\ s.program = <<Save, Log("info"), Send>>

HandlerShape(s) ==
    /\ s.ok = <<>> /\ s.err = <<>>
    /\ s.request # NoRequest => Rest(s.program, Handler(s.request.kind))

\* A program that does not say that a node was deleted
Mute(p) == \A i \in 1..Len(p) : ~(p[i].do = "log" /\ p[i].level = "deleted")

\* The worker, at the deletion of a node
DeletionShape(s) ==
    \/ /\ s.ok = OkArm("deleteNode") /\ s.err = ErrArm
       /\ Rest(s.program, DeleteNode) \/ s.program = <<Log("error")>>
    \/ /\ s.ok = <<>> /\ s.err = <<>>
       /\ \/ s.program = <<UseCase>>
          \/ Rest(s.program, OkArm("deleteNode"))
          \/ Rest(s.program, ErrArm)

WorkerShape(s) ==
    IF s.request.kind = "deleteNode"
    THEN DeletionShape(s)
    ELSE Mute(s.program) /\ Mute(s.ok) /\ Mute(s.err)

\* The record of n lists node x.
Lists(n, x) == \E c \in db.clusters : c.name = n /\ HasNode(c.body, x)

Gone(n, x) == Repo!HasCluster(db, n) /\ (Lists(n, x) => AddedAgain(n, x))

\* The copy of the worker has the node, if the record does.
Seen(n, x) ==
    LET copy == thread[Worker].copy
    IN  /\ Repo!HasCluster(db, n) /\ copy # NoRecord
        /\ Lists(n, x) => HasNode(copy.body, x) \/ AddedAgain(n, x)

Refused(n, x) == Seen(n, x) /\ IsSingle(thread[Worker].copy.body)

\* What the worker has found out, or done, at each instruction of DeleteNode
Deleting(n, x) ==
    LET s == thread[Worker]
    IN  /\ s.ok # <<>> =>
              /\ Len(s.program) = 8 => Seen(n, x)
              /\ Len(s.program) = 3 => ~HasNode(s.copy.body, x)
              /\ Len(s.program) = 2 => Gone(n, x)
              /\ Len(s.program) < 2 => Gone(n, x) \/ Refused(n, x)
        /\ s.ok = <<>> /\ s.program = OkArm("deleteNode") => Gone(n, x) \/ Refused(n, x)

DelRequest(n, x) == [kind |-> "deleteNode", name |-> n, node |-> x]
AddRequest(n, x) == [kind |-> "add", name |-> n, node |-> x]

DeletionsTold ==
    \A n \in Names, x \in NodeNames :
        thread[Worker].request = DelRequest(n, x) => Deleting(n, x)

DeletionInv ==
    /\ \A u \in Threads : NodesFit(thread[u])
    /\ \A u \in Handlers : HandlerShape(thread[u])
    /\ WorkerShape(thread[Worker])
    /\ ~lost => DeletionsTold
-----------------------------------------------------------------------------
LEMMA RestTail ==
    ASSUME NEW p \in Seq(Instruction), NEW q \in Seq(Instruction), Rest(p, q), p # <<>>
    PROVE  /\ Rest(Tail(p), q) /\ Len(Tail(p)) = Len(p) - 1
           /\ Len(p) \in 1..Len(q) /\ Len(q) - Len(p) + 1 \in 1..Len(q)
           /\ Head(p) = q[Len(q) - Len(p) + 1]
<1>1. /\ Len(Tail(p)) = Len(p) - 1 /\ Len(p) \in Nat \ {0} /\ Len(q) \in Nat
      /\ Head(p) = p[1] /\ \A i \in 1..Len(Tail(p)) : Tail(p)[i] = p[i + 1]
      BY HeadTailProperties
<1>2. \A i \in 1..Len(p) - 1 : /\ i + 1 \in 1..Len(p)
                               /\ Len(q) - (Len(p) - 1) + i = Len(q) - Len(p) + (i + 1)
      BY <1>1
<1>3. Rest(Tail(p), q)
      BY <1>1, <1>2 DEF Rest
<1>4. 1 \in 1..Len(p) /\ Len(p) <= Len(q)
      BY <1>1 DEF Rest
<1> QED
    BY <1>1, <1>3, <1>4 DEF Rest

LEMMA RestEnds ==
    ASSUME NEW q \in Seq(Instruction)
    PROVE  Rest(q, q) /\ Rest(<<>>, q)
<1>1. Len(q) \in Nat /\ Len(<<>>) = 0
      OBVIOUS
<1> QED
    BY <1>1 DEF Rest

LEMMA DeletionProgram ==
    /\ DeleteNode \in Seq(Instruction) /\ Len(DeleteNode) = 10
    /\ DeleteNode[1] = Log("info") /\ DeleteNode[2] = Get("keep") /\ DeleteNode[3] = NotLast
    /\ DeleteNode[4] = Work /\ DeleteNode[5] = Log("info") /\ DeleteNode[6] = Work
    /\ DeleteNode[7] = Get("remove") /\ DeleteNode[8] = Save /\ DeleteNode[9] = Get("keep")
    /\ DeleteNode[10] = Work
<1>1. DeleteNode \in Seq(Instruction)
      BY ExecuteFresh DEF Execute, Kinds
<1> QED
    BY <1>1 DEF DeleteNode

LEMMA DeletionDoes ==
    /\ DeleteNode[1].do = "log" /\ DeleteNode[2].do = "get" /\ DeleteNode[3].do = "notLast"
    /\ DeleteNode[4].do = "work" /\ DeleteNode[5].do = "log" /\ DeleteNode[6].do = "work"
    /\ DeleteNode[7].do = "get" /\ DeleteNode[8].do = "save" /\ DeleteNode[9].do = "get"
    /\ DeleteNode[10].do = "work"
    /\ DeleteNode[1].level = "info" /\ DeleteNode[5].level = "info"
    /\ DeleteNode[2].edit = "keep" /\ DeleteNode[7].edit = "remove" /\ DeleteNode[9].edit = "keep"
BY DeletionProgram, Does

\* Which instruction of DeleteNode is next, k being left
LEMMA DeletionStep ==
    ASSUME NEW k \in 1..10
    PROVE  LET i == DeleteNode[11 - k]
           IN  /\ i.do = "log" => k \in {6, 10} /\ i.level = "info"
               /\ i.do = "get" =>
                     /\ k \in {2, 4, 9}
                     /\ i.edit = IF k = 4 THEN "remove" ELSE "keep"
               /\ i.do = "notLast" => k = 8
               /\ i.do = "work" => k \in {1, 5, 7}
               /\ i.do = "save" => k = 3
               /\ i.do \in {"log", "get", "notLast", "work", "save"}
<1>1. k \in {1, 2, 3, 4, 5, 6, 7, 8, 9, 10}
      OBVIOUS
<1>2. CASE k \in {1, 2, 3}
  <2>1. k = 1 => 11 - k = 10
        OBVIOUS
  <2>2. k = 2 => 11 - k = 9
        OBVIOUS
  <2>3. k = 3 => 11 - k = 8
        OBVIOUS
  <2> QED
      BY <1>2, <2>1, <2>2, <2>3, DeletionDoes
<1>3. CASE k \in {4, 5, 6, 7}
  <2>1. k = 4 => 11 - k = 7
        OBVIOUS
  <2>2. k = 5 => 11 - k = 6
        OBVIOUS
  <2>3. k = 6 => 11 - k = 5
        OBVIOUS
  <2>4. k = 7 => 11 - k = 4
        OBVIOUS
  <2> QED
      BY <1>3, <2>1, <2>2, <2>3, <2>4, DeletionDoes
<1>4. CASE k \in {8, 9, 10}
  <2>1. k = 8 => 11 - k = 3
        OBVIOUS
  <2>2. k = 9 => 11 - k = 2
        OBVIOUS
  <2>3. k = 10 => 11 - k = 1
        OBVIOUS
  <2> QED
      BY <1>4, <2>1, <2>2, <2>3, DeletionDoes
<1> QED
    BY <1>1, <1>2, <1>3, <1>4

LEMMA DeletionArms ==
    /\ OkArm("deleteNode") \in Seq(Instruction) /\ Len(OkArm("deleteNode")) = 3
    /\ OkArm("deleteNode")[1] = Log("deleted") /\ OkArm("deleteNode")[2] = Get("Sync")
    /\ OkArm("deleteNode")[3] = Save
    /\ ErrArm \in Seq(Instruction) /\ Len(ErrArm) = 3 /\ ErrArm[1] = Get("Error")
    /\ ErrArm[2] = Save /\ ErrArm[3] = Log("error")
<1>1. OkArm("deleteNode") \in Seq(Instruction) /\ ErrArm \in Seq(Instruction)
      BY ArmsFresh DEF Kinds
<1>2. OkArm("deleteNode") = <<Log("deleted"), Get("Sync"), Save>>
      BY OneAndTwo DEF OkArm, UpdateStatus
<1>3. ErrArm = <<Get("Error"), Save, Log("error")>>
      BY Literals
<1> QED
    BY <1>1, <1>2, <1>3

LEMMA HandlerParts ==
    ASSUME NEW k \in Kinds, NEW i \in 1..Len(Handler(k))
    PROVE  /\ Handler(k)[i].do \notin {"erase", "useCase", "notLast"}
           /\ ~(Handler(k)[i].do = "log" /\ Handler(k)[i].level = "deleted")
<1> USE Does
<1>1. CASE k = "create"
      BY <1>1 DEF Handler, CreateHandler
<1>2. CASE k = "change"
      BY <1>2 DEF Handler, ChangeHandler
<1>3. CASE k = "add"
      BY <1>3 DEF Handler, AddHandler
<1>4. CASE k = "delete"
      BY <1>4 DEF Handler, DeleteHandler
<1>5. CASE k = "deleteNode"
      BY <1>5 DEF Handler, DelNodeHandler
<1>6. CASE k = "edit"
      BY <1>6 DEF Handler, EditHandler
<1>7. CASE k = "clear"
      BY <1>7 DEF Handler, ClearHandler
<1> QED
    BY <1>1, <1>2, <1>3, <1>4, <1>5, <1>6, <1>7 DEF Kinds

LEMMA AddParts ==
    /\ Handler("add") \in Seq(Instruction) /\ Len(Handler("add")) = 4
    /\ Handler("add")[1].do = "get" /\ Handler("add")[2].do = "save"
    /\ Handler("add")[3].do = "log" /\ Handler("add")[4].do = "send"
<1>1. Handler("add") \in Seq(Instruction)
      BY HandlerFresh DEF Kinds
<1> QED
    BY <1>1, Does DEF Handler, AddHandler

LEMMA MuteTail ==
    ASSUME NEW p \in Seq(Instruction), Mute(p), p # <<>>
    PROVE  Mute(Tail(p))
BY HeadTailProperties DEF Mute

\* Only a deletion of a node says that a node was deleted.
LEMMA MutePrograms ==
    ASSUME NEW k \in Kinds \ {"edit", "clear", "deleteNode"}
    PROVE  Mute(Execute(k)) /\ Mute(OkArm(k)) /\ Mute(ErrArm) /\ Mute(Dispatch(k)) /\ Mute(<<>>)
<1> USE Does DEF Mute
<1>1. Mute(CreateCluster) /\ Mute(DeleteCluster)
      BY DEF CreateCluster, DeleteCluster
<1>2. Mute(AddNode) /\ Mute(ChangeResources)
      BY DEF AddNode, ChangeResources
<1>3. Mute(Execute(k))
      BY <1>1, <1>2 DEF Execute, Kinds
<1>4. Mute(<<>>) /\ Mute(ErrArm)
      BY Literals
<1> HIDE DEF Mute
<1>5. Mute(OkArm(k))
  <2>1. /\ Mute(<<Get("Sync"), Save, Log("info")>>)
        /\ Mute(<<Log("info"), Get("unlock"), Save, Get("Sync"), Save>>)
        /\ Mute(<<Log("info"), Get("Sync"), Save, Get("unlock"), Save>>)
        BY DEF Mute
  <2>2. OkArm("delete") = <<>>
        BY DEF OkArm
  <2> QED
      BY <1>4, <2>1, <2>2, Literals DEF Kinds
<1>6. Mute(Dispatch(k))
  <2>1. Mute(<<UseCase>>) /\ Mute(<<Get("Creating"), Save, UseCase>>)
        BY DEF Mute
  <2>2. Dispatch(k) \in {<<UseCase>>, <<Get("Creating"), Save, UseCase>>}
        BY Literals DEF Kinds, Locking
  <2> QED
      BY <2>1, <2>2
<1> QED
    BY <1>3, <1>4, <1>5, <1>6
-----------------------------------------------------------------------------
(* How threads go on *)
LEMMA ShapesProceed ==
    ASSUME NEW s \in ThreadState, s.program # <<>>,
           NEW r \in ThreadState, r.program = Tail(s.program),
           r.request = s.request, r.ok = s.ok, r.err = s.err
    PROVE  /\ HandlerShape(s) => HandlerShape(r)
           /\ WorkerShape(s) /\ Head(s.program).do # "useCase" => WorkerShape(r)
<1>1. /\ s.program \in Seq(Instruction) /\ s.ok \in Seq(Instruction) /\ s.err \in Seq(Instruction)
      /\ s.request \in Request \cup {NoRequest}
      BY DEF ThreadState
<1>2. ASSUME HandlerShape(s), s.request # NoRequest
      PROVE  Rest(r.program, Handler(r.request.kind))
  <2>1. Handler(s.request.kind) \in Seq(Instruction)
        BY <1>1, <1>2, HandlerFresh DEF Request
  <2> QED
      BY <1>1, <1>2, <2>1, RestTail DEF HandlerShape
<1>3. HandlerShape(s) => HandlerShape(r)
      BY <1>2 DEF HandlerShape
<1>4. ASSUME WorkerShape(s), Head(s.program).do # "useCase"
      PROVE  WorkerShape(r)
  <2>1. CASE s.request.kind # "deleteNode"
        BY <1>1, <1>4, <2>1, MuteTail DEF WorkerShape
  <2>2. CASE s.request.kind = "deleteNode"
    <3>1. DeletionShape(s)
          BY <1>4, <2>2 DEF WorkerShape
    <3>2. s.program # <<UseCase>>
          BY <1>4, Walk, Does
    <3>3. s.program = <<Log("error")>> => r.program = <<>>
          BY Walk
    <3>4. DeletionShape(r)
          BY <1>1, <3>1, <3>2, <3>3, RestTail, RestEnds, DeletionProgram, DeletionArms
             DEF DeletionShape
    <3> QED
        BY <2>2, <3>4 DEF WorkerShape
  <2> QED
      BY <2>1, <2>2
<1> QED
    BY <1>3, <1>4

LEMMA ShapesFail ==
    ASSUME NEW s \in ThreadState, NEW r \in ThreadState,
           r.program = s.err, r.ok = <<>>, r.err = <<>>, r.request = s.request
    PROVE  (HandlerShape(s) => HandlerShape(r)) /\ (WorkerShape(s) => WorkerShape(r))
<1>1. HandlerShape(s) => HandlerShape(r)
  <2> SUFFICES ASSUME HandlerShape(s), s.request # NoRequest
               PROVE  Rest(r.program, Handler(r.request.kind))
      BY DEF HandlerShape
  <2>1. Handler(s.request.kind) \in Seq(Instruction)
        BY HandlerFresh DEF Request, ThreadState
  <2> QED
      BY <2>1, RestEnds DEF HandlerShape
<1>2. WorkerShape(s) => WorkerShape(r)
  <2>1. Mute(<<>>)
        BY DEF Mute
  <2>2. DeletionShape(s) => DeletionShape(r)
        BY RestEnds, DeletionArms DEF DeletionShape
  <2> QED
      BY <2>1, <2>2 DEF WorkerShape
<1> QED
    BY <1>1, <1>2

\* Where the worker is in a deletion
LEMMA DeletionAt ==
    ASSUME NEW s \in ThreadState, DeletionShape(s), s.program # <<>>
    PROVE  /\ Len(s.program) \in Nat \ {0} /\ Len(Tail(s.program)) = Len(s.program) - 1
           /\ s.ok # <<>> => s.ok = OkArm("deleteNode")
           /\ s.ok = <<>> => Head(s.program).do \in {"useCase", "log", "get", "save"}
           /\ s.ok # <<>> =>
                \/ s.program = <<Log("error")>>
                \/ /\ Len(s.program) \in 1..10
                   /\ Head(s.program) = DeleteNode[11 - Len(s.program)]
<1>1. s.program \in Seq(Instruction)
      BY DEF ThreadState
<1>2. /\ Len(s.program) \in Nat \ {0} /\ Len(Tail(s.program)) = Len(s.program) - 1
      BY <1>1, HeadTailProperties
<1>3. Rest(s.program, DeleteNode) =>
           Len(s.program) \in 1..10 /\ Head(s.program) = DeleteNode[11 - Len(s.program)]
  <2> SUFFICES ASSUME Rest(s.program, DeleteNode)
               PROVE  Len(s.program) \in 1..10 /\ Head(s.program) = DeleteNode[11 - Len(s.program)]
      OBVIOUS
  <2>1. /\ Len(s.program) \in 1..Len(DeleteNode)
        /\ Head(s.program) = DeleteNode[Len(DeleteNode) - Len(s.program) + 1]
        BY <1>1, RestTail, DeletionProgram
  <2>2. 10 - Len(s.program) + 1 = 11 - Len(s.program)
        BY <1>2
  <2> QED
      BY <2>1, <2>2, DeletionProgram
<1>4. \A q \in {OkArm("deleteNode"), ErrArm} :
         Rest(s.program, q) => Head(s.program) \in {q[1], q[2], q[3]}
  <2> SUFFICES ASSUME NEW q \in {OkArm("deleteNode"), ErrArm}, Rest(s.program, q)
               PROVE  Head(s.program) \in {q[1], q[2], q[3]}
      OBVIOUS
  <2>1. q \in Seq(Instruction) /\ Len(q) = 3
        BY DeletionArms
  <2>2. 3 - Len(s.program) + 1 \in 1..3 /\ Head(s.program) = q[3 - Len(s.program) + 1]
        BY <1>1, <2>1, RestTail
  <2>3. 3 - Len(s.program) + 1 \in {1, 2, 3}
        BY <1>2, <2>2
  <2> QED
      BY <2>2, <2>3
<1>5. ASSUME s.ok = <<>>
      PROVE  Head(s.program).do \in {"useCase", "log", "get", "save"}
  <2>1. s.program = <<UseCase>> => Head(s.program).do = "useCase"
        BY Walk, Does
  <2>2. OkArm("deleteNode") # <<>>
        BY DeletionArms
  <2> QED
      BY <1>4, <1>5, <2>1, <2>2, DeletionArms, Does DEF DeletionShape
<1>6. s.ok # <<>> => s.ok = OkArm("deleteNode")
      BY DEF DeletionShape
<1> QED
    BY <1>2, <1>3, <1>5, <1>6 DEF DeletionShape

LEMMA TailSavesNot ==
    ASSUME NEW s \in ThreadState, Threading(s), s.program # <<>>, ~Copies(Head(s.program)),
           NEW r, r.program = Tail(s.program)
    PROVE  ~Saving(r)
<1> SUFFICES ASSUME r.program # <<>>, Head(r.program).do = "save" PROVE FALSE
    BY DEF Saving
<1>1. s.program \in Seq(Instruction)
      BY DEF ThreadState
<1>2. /\ 2 \in 1..Len(s.program) /\ Head(r.program) = s.program[2]
      /\ Head(s.program) = s.program[2 - 1]
      BY <1>1
<1> QED
    BY <1>2 DEF Threading, Sound

LEMMA FreshSavesNot ==
    ASSUME NEW r, r.program \in Seq(Instruction), Fresh(r.program)
    PROVE  ~Saving(r)
<1> SUFFICES ASSUME r.program # <<>>, Head(r.program).do = "save" PROVE FALSE
    BY DEF Saving
<1>1. 1 \in 1..Len(r.program) /\ Head(r.program) = r.program[1]
      OBVIOUS
<1> QED
    BY <1>1 DEF Fresh

\* An edit adds no node but that of an addition.
LEMMA EditNodes ==
    ASSUME NEW e \in Edits, NEW b \in Body, NEW n \in NodeNames, ~EditFails(e, b, n)
    PROVE  /\ \A x \in NodeNames :
                HasNode(Edit(e, b, n), x) => HasNode(b, x) \/ (e = "lockCreate" /\ x = n)
           /\ ~HasNode(Edit("remove", b, n), n)
           /\ Edit("keep", b, n) = b
<1>1. Edit("remove", b, n) = [b EXCEPT !.nodes[n] = <<>>] /\ Edit("keep", b, n) = b
      BY DEF Edit, Statuses
<1>2. ~HasNode(Edit("remove", b, n), n)
      BY <1>1 DEF HasNode, Body
<1>3. ASSUME NEW x \in NodeNames, HasNode(Edit(e, b, n), x), ~HasNode(b, x)
      PROVE  e = "lockCreate" /\ x = n
  <2>1. Edit(e, b, n).nodes[x] # b.nodes[x]
        BY <1>3 DEF HasNode
  <2>2. e \notin Statuses \cup {"keep", "find", "findWithPeer", "findAll", "sshKey", "kubeconfig",
                             "resources"}
        BY <2>1 DEF Edit, Body, Statuses
  <2>3. x = n
        BY <2>1 DEF Edit, SetLock, SetAllLocks, Body
  <2>4. e \notin {"lockDelete", "unlock"}
        BY <1>3, <2>3 DEF EditFails
  <2>5. e # "remove"
        BY <1>2, <1>3, <2>3
  <2>6. e # "lockChange"
    <3>1. ASSUME e = "lockChange" PROVE FALSE
      <4>1. /\ Edit(e, b, n).nodes[n] = [i \in DOMAIN b.nodes[n] |-> "ChangeResources"]
            /\ b.nodes[n] = <<>>
            BY <1>3, <2>3, <3>1 DEF Edit, SetAllLocks, Body, Statuses, HasNode
      <4> QED
          BY <1>3, <2>3, <4>1 DEF HasNode
    <3> QED
        BY <3>1
  <2> QED
      BY <2>2, <2>3, <2>4, <2>5, <2>6 DEF Edits
<1> QED
    BY <1>1, <1>2, <1>3

-----------------------------------------------------------------------------
(* What a step leaves of what the worker has found out *)
LEMMA AddedStays ==
    ASSUME NEW n, NEW x, NEW t \in Threads, Else(t),
           \A i \in DOMAIN queue : i \in DOMAIN queue' /\ queue'[i] = queue[i],
           t \in Handlers /\ thread[t].request = AddRequest(n, x) /\ (At(t, "log") \/ At(t, "send"))
             => AddedAgain(n, x)',
           AddedAgain(n, x)
    PROVE  AddedAgain(n, x)'
<1>1. CASE \E i \in DOMAIN queue : queue[i] = AddRequest(n, x)
      BY <1>1 DEF AddedAgain, AddRequest
<1>2. ASSUME NEW u \in Handlers, thread[u].request = AddRequest(n, x),
             At(u, "log") \/ At(u, "send"), u # t
      PROVE  AddedAgain(n, x)'
  <2>1. thread'[u] = thread[u]
        BY <1>2 DEF Else, Threads
  <2> QED
      BY <1>2, <2>1 DEF AddedAgain, AddRequest, At
<1> QED
    BY <1>1, <1>2 DEF AddedAgain, AddRequest

Stays(n, x) ==
    /\ Repo!HasCluster(db, n) => Repo!HasCluster(db, n)'
    /\ Repo!HasCluster(db, n) /\ Lists(n, x)' => Lists(n, x) \/ AddedAgain(n, x)'
    /\ AddedAgain(n, x) => AddedAgain(n, x)'

LEMMA GoneStays ==
    ASSUME NEW n, NEW x, Stays(n, x), Gone(n, x)
    PROVE  Gone(n, x)'
BY DEF Stays, Gone

LEMMA SeenStays ==
    ASSUME NEW n, NEW x, Stays(n, x), thread'[Worker].copy = thread[Worker].copy
    PROVE  /\ Seen(n, x) => Seen(n, x)'
           /\ Refused(n, x) => Refused(n, x)'
BY DEF Stays, Seen, Refused

\* The worker, in a deletion, one instruction later
LEMMA WorkerGoesOn ==
    ASSUME NEW n, NEW x, NEW s \in ThreadState, DeletionShape(s), s.program # <<>>,
           Head(s.program).do # "useCase",
           thread'[Worker].program = Tail(s.program), thread'[Worker].ok = s.ok,
           s.ok # <<>> =>
              /\ Len(s.program) = 9 => Seen(n, x)'
              /\ Len(s.program) = 4 => ~HasNode(thread'[Worker].copy.body, x)
              /\ Len(s.program) = 3 => Gone(n, x)'
              /\ Len(s.program) \in {1, 2} => Gone(n, x)' \/ Refused(n, x)'
    PROVE  Deleting(n, x)'
<1> DEFINE k == Len(s.program)
           l == Len(Tail(s.program))
<1>1. k \in Nat \ {0} /\ l = k - 1 /\ l \in Nat
      BY DeletionAt
<1>2. Len(thread'[Worker].program) = l
      BY <1>1
<1>3. /\ k = 9 <=> l = 8
      /\ k = 4 <=> l = 3
      /\ k = 3 <=> l = 2
      /\ k \in {1, 2} <=> l < 2
      /\ k <= 3 => l # 3
  <2> HIDE DEF k, l
  <2> QED
      BY <1>1
<1>4. s.ok = <<>> => Tail(s.program) # OkArm("deleteNode")
  <2> SUFFICES ASSUME s.ok = <<>>
               PROVE  l # 3
      BY <1>1, DeletionArms
  <2>1. OkArm("deleteNode") # <<>> /\ s.program # <<UseCase>>
        BY DeletionArms, Walk, Does
  <2>2. Rest(s.program, OkArm("deleteNode")) \/ Rest(s.program, ErrArm)
        BY <2>1 DEF DeletionShape
  <2>3. k <= 3
        BY <2>2, DeletionArms DEF Rest
  <2> QED
      BY <1>3, <2>3
<1>5. s.ok # <<>> =>
        /\ l = 8 => Seen(n, x)'
        /\ l = 3 => ~HasNode(thread'[Worker].copy.body, x)
        /\ l = 2 => Gone(n, x)'
        /\ l < 2 => Gone(n, x)' \/ Refused(n, x)'
      BY <1>3
<1> HIDE DEF l
<1> QED
    BY <1>1, <1>2, <1>4, <1>5 DEF Deleting

\* A step of a handler
LEMMA HandlerMoves ==
    ASSUME DeletionInv, NEW t \in Handlers, Else(t), ~lost' => ~lost,
           NodesFit(thread'[t]), HandlerShape(thread'[t]),
           ~lost' => \A n \in Names, x \in NodeNames : Stays(n, x)
    PROVE  DeletionInv'
<1>1. Worker \in Threads /\ Worker # t /\ t \in Threads
      BY ThreadAssumption DEF Threads
<1>2. thread'[Worker] = thread[Worker]
      BY <1>1 DEF Else
<1>3. \A u \in Threads : NodesFit(thread[u])'
  <2>1. \A u \in Threads : NodesFit(thread'[u])
        BY DEF DeletionInv, Else
  <2> QED
      BY <2>1 DEF NodesFit, Saving
<1>4. \A u \in Handlers : HandlerShape(thread[u])'
  <2>1. \A u \in Handlers : HandlerShape(thread'[u])
        BY DEF DeletionInv, Else, Threads
  <2> QED
      BY <2>1 DEF HandlerShape, Rest
<1>5. WorkerShape(thread[Worker])'
      BY <1>2 DEF DeletionInv, WorkerShape, DeletionShape, Mute, Rest
<1>6. ~lost' => DeletionsTold'
  <2> SUFFICES ASSUME ~lost', NEW n \in Names, NEW x \in NodeNames,
                      thread'[Worker].request = DelRequest(n, x)
               PROVE  Deleting(n, x)'
      BY DEF DeletionsTold, DelRequest
  <2>1. Deleting(n, x) /\ Stays(n, x)
        BY <1>2 DEF DeletionInv, DeletionsTold
  <2>2. Gone(n, x) => Gone(n, x)'
        BY <2>1, GoneStays
  <2>3. (Seen(n, x) => Seen(n, x)') /\ (Refused(n, x) => Refused(n, x)')
        BY <1>2, <2>1, SeenStays
  <2> QED
      BY <1>2, <2>1, <2>2, <2>3 DEF Deleting
<1> QED
    BY <1>3, <1>4, <1>5, <1>6 DEF DeletionInv

\* A step of the worker
LEMMA WorkerMoves ==
    ASSUME DeletionInv, Else(Worker), NodesFit(thread'[Worker]), WorkerShape(thread'[Worker]),
           ~lost' => \A n \in Names, x \in NodeNames :
               thread'[Worker].request = DelRequest(n, x) => Deleting(n, x)'
    PROVE  DeletionInv'
<1>1. \A u \in Threads : NodesFit(thread[u])'
  <2>1. \A u \in Threads : NodesFit(thread'[u])
        BY DEF DeletionInv, Else
  <2> QED
      BY <2>1 DEF NodesFit, Saving
<1>2. \A u \in Handlers : HandlerShape(thread[u])'
  <2>1. \A u \in Handlers : HandlerShape(thread'[u])
        BY ThreadAssumption DEF DeletionInv, Else, Threads
  <2> QED
      BY <2>1 DEF HandlerShape, Rest
<1>3. WorkerShape(thread[Worker])'
      BY DEF WorkerShape, DeletionShape, Mute, Rest
<1>4. ~lost' => DeletionsTold'
      BY DEF DeletionsTold, DelRequest
<1> QED
    BY <1>1, <1>2, <1>3, <1>4 DEF DeletionInv

\* A step that leaves the file and the channel alone, and is not an addition's
\* that has saved
LEMMA AsideStays ==
    ASSUME NEW n, NEW x, NEW t \in Threads, Else(t), db' = db, queue' = queue,
           t \in Handlers => ~At(t, "log") /\ ~At(t, "send")
    PROVE  Stays(n, x)
<1>1. ASSUME AddedAgain(n, x)
      PROVE  AddedAgain(n, x)'
  <2>1. \A i \in DOMAIN queue : i \in DOMAIN queue' /\ queue'[i] = queue[i]
        OBVIOUS
  <2>2. ~(t \in Handlers /\ (At(t, "log") \/ At(t, "send")))
        OBVIOUS
  <2> QED
      BY <1>1, <2>1, <2>2, AddedStays
<1>2. (Repo!HasCluster(db, n) <=> Repo!HasCluster(db, n)') /\ (Lists(n, x)' <=> Lists(n, x))
      BY DEF Lists, Repo!HasCluster
<1> QED
    BY <1>1, <1>2 DEF Stays

LEMMA HandlerAt ==
    ASSUME LifecycleIInv, DeletionInv, NEW t \in Handlers, thread[t].program # <<>>
    PROVE  LET p == thread[t].program
           IN  /\ Head(p).do \notin {"erase", "useCase", "notLast"}
               /\ ~(Head(p).do = "log" /\ Head(p).level = "deleted")
               /\ thread[t].request.kind = "add" /\ Head(p).do = "log"
                     => Tail(p) # <<>> /\ Head(Tail(p)).do = "send"
<1> DEFINE p == thread[t].program
           k == thread[t].request.kind
<1>1. /\ thread[t] \in ThreadState /\ Threading(thread[t]) /\ HandlerShape(thread[t])
      BY DEF LifecycleIInv, DeletionInv, Threads
<1>2. /\ p \in Seq(Instruction) /\ thread[t].request # NoRequest /\ k \in Kinds
      /\ Rest(p, Handler(k)) /\ Handler(k) \in Seq(Instruction)
  <2>1. p \in Seq(Instruction) /\ thread[t].request # NoRequest /\ k \in Kinds
        BY <1>1 DEF ThreadState, Threading, Request
  <2> QED
      BY <1>1, <2>1, HandlerFresh DEF HandlerShape
<1> DEFINE j == Len(Handler(k)) - Len(p) + 1
<1>3. /\ j \in 1..Len(Handler(k)) /\ Head(p) = Handler(k)[j] /\ Rest(Tail(p), Handler(k))
      /\ Tail(p) \in Seq(Instruction) /\ Len(Tail(p)) = Len(p) - 1 /\ Len(p) \in Nat
  <2> HIDE DEF p, k
  <2>1. p # <<>>
        BY DEF p
  <2>2. Tail(p) \in Seq(Instruction) /\ Len(p) \in Nat
        BY <1>2, <2>1
  <2> QED
      BY <1>2, <2>1, <2>2, RestTail
<1>4. /\ Head(p).do \notin {"erase", "useCase", "notLast"}
      /\ ~(Head(p).do = "log" /\ Head(p).level = "deleted")
      BY <1>2, <1>3, HandlerParts
<1>5. ASSUME k = "add", Head(p).do = "log"
      PROVE  Tail(p) # <<>> /\ Head(Tail(p)).do = "send"
  <2> HIDE DEF p, k
  <2>1. j \in 1..4 /\ Handler(k)[j].do = "log"
        BY <1>3, <1>5, AddParts
  <2>2. j = 3
    <3>1. j \in {1, 2, 3, 4}
          BY <2>1
    <3> QED
        BY <1>5, <2>1, <3>1, AddParts
  <2>3. Len(Handler(k)) = 4 /\ Len(p) = 2
    <3>1. Len(Handler(k)) = 4
          BY <1>5, AddParts
    <3> QED
        BY <1>3, <2>2, <3>1
  <2>4. Tail(p) # <<>> /\ Len(Tail(p)) = 1
    <3>1. Len(Tail(p)) = 1 /\ Len(<<>>) # 1
          BY <1>3, <2>3
    <3> QED
        BY <3>1, Zenon
  <2>5. Head(Tail(p)) = Handler(k)[4 - 1 + 1]
        BY <1>2, <1>3, <2>3, <2>4, RestTail
  <2> QED
      BY <1>5, <2>4, <2>5, AddParts
<1> QED
    BY <1>4, <1>5

LEMMA WrittenHas ==
    ASSUME NEW d \in Repo!DB, NEW o \in Repo!WriteOps
    PROVE  /\ \A n : Repo!HasCluster(d, n) /\ o.op # "delete_cluster"
                       => Repo!HasCluster(Repo!Apply(o, d), n)
           /\ o.op = "save_cluster" => Repo!HasCluster(Repo!Apply(o, d), o.cluster.name)
<1>1. CASE o \in Repo!SaveClusterOps
  <2> DEFINE w == Repo!SaveCluster(d, o.cluster)
  <2>1. CASE Repo!HasCluster(d, o.cluster.name)
    <3>1. w.clusters = {IF c.name = o.cluster.name THEN o.cluster ELSE c : c \in d.clusters}
          BY <2>1 DEF Repo!SaveCluster, Repo!DB
    <3>2. ASSUME NEW c \in d.clusters
          PROVE  \E e \in w.clusters : e.name = c.name
          BY <3>1
    <3>3. \A n : Repo!HasCluster(d, n) => Repo!HasCluster(w, n)
          BY <3>2 DEF Repo!HasCluster
    <3> QED
        BY <1>1, <2>1, <3>3 DEF Repo!SaveClusterOps, Repo!Apply
  <2>2. CASE ~Repo!HasCluster(d, o.cluster.name)
    <3>1. w.clusters = d.clusters \cup {o.cluster}
          BY <2>2 DEF Repo!SaveCluster, Repo!DB
    <3> QED
        BY <1>1, <3>1 DEF Repo!SaveClusterOps, Repo!Apply, Repo!HasCluster
  <2> QED
      BY <2>1, <2>2
<1>2. CASE o \in Repo!DeleteClusterOps
      BY <1>2 DEF Repo!DeleteClusterOps
<1>3. CASE o \in Repo!SaveLogOps
  <2>1. Repo!SaveLog(d, o.entry).clusters = d.clusters
        BY DEF Repo!SaveLog, Repo!DB
  <2> QED
      BY <1>3, <2>1 DEF Repo!SaveLogOps, Repo!Apply, Repo!HasCluster
<1>4. CASE o \in Repo!DeleteLogsOps
  <2>1. Repo!DeleteLogs(d, o.name).clusters = d.clusters
        BY DEF Repo!DeleteLogs, Repo!DB
  <2> QED
      BY <1>4, <2>1 DEF Repo!DeleteLogsOps, Repo!Apply, Repo!HasCluster
<1> QED
    BY <1>1, <1>2, <1>3, <1>4 DEF Repo!WriteOps

\* What there is still there after a save that loses nothing
LEMMA SavedHas ==
    ASSUME SettledIInv, NEW t \in Threads, SaveFile(t), ~lost'
    PROVE  /\ Head(thread[t].program).do # "erase" =>
                \A n : Repo!HasCluster(db, n) => Repo!HasCluster(db, n)'
           /\ Head(thread[t].program).do = "save" => Repo!HasCluster(db, Cluster(t))'
<1> DEFINE s == thread[t]
           o == WriteOp(t)
           w == Repo!Apply(o, db)
<1>1. /\ CopyFits(s) /\ s.program # <<>> /\ db \in Repo!DB
      /\ Head(s.program).do \in Writes /\ o \in Repo!WriteOps
      /\ LifecycleIInv /\ LifecycleIInv'
      BY SavingFacts
<1>2. s.data = db /\ db' = w
      BY DEF SaveFile, Remember, Erases
<1>3. /\ \A n : Repo!HasCluster(db, n) /\ o.op # "delete_cluster" => Repo!HasCluster(w, n)
      /\ o.op = "save_cluster" => Repo!HasCluster(w, o.cluster.name)
      BY <1>1, WrittenHas
<1>4. /\ Head(s.program).do \in {"save", "log", "clear"} => o.op # "delete_cluster"
      /\ Head(s.program).do = "save" => o.op = "save_cluster" /\ o.cluster = s.copy
      BY DEF WriteOp
<1>5. Head(s.program).do = "save" => s.copy.name = Cluster(t)
      BY <1>1 DEF CopyFits, Cluster
<1>6. thread'[t].request = s.request
      BY SavedGoesOn DEF GoesOn
<1> HIDE DEF w, o
<1>7. Head(s.program).do # "erase" => \A n : Repo!HasCluster(db, n) => Repo!HasCluster(w, n)
      BY <1>1, <1>3, <1>4 DEF Writes
<1>8. Head(s.program).do = "save" => Repo!HasCluster(w, Cluster(t))
      BY <1>3, <1>4, <1>5
<1> QED
    BY <1>2, <1>6, <1>7, <1>8 DEF Repo!HasCluster, Cluster

LEMMA SavedStays ==
    ASSUME SettledIInv, DeletionInv, NEW t \in Threads, SaveFile(t), ~lost',
           Head(thread[t].program).do # "erase",
           thread[t].request.kind = "add" => t \in Handlers,
           NEW n \in Names, NEW x \in NodeNames
    PROVE  Stays(n, x)
<1> DEFINE s == thread[t]
           r == thread'[t]
<1>1. /\ LifecycleIInv /\ db \in Repo!DB /\ s \in ThreadState /\ Threading(s)
      /\ CopyFits(s) /\ s.program # <<>> /\ Head(s.program).do \in Writes
      /\ Cluster(t) \in Names /\ Cluster(t) = s.request.name /\ NodeOf(t) = s.request.node
      BY SavingFacts
<1>2. SavesWhole(t)
      BY SavedWhole
<1>3. /\ Else(t) /\ r.program = Tail(s.program) /\ r.request = s.request
      BY SavedGoesOn DEF GoesOn
<1> HIDE DEF r
<1>4. Repo!HasCluster(db, n) => Repo!HasCluster(db, n)'
      BY SavedHas
<1>5. ASSUME AddedAgain(n, x)
      PROVE  AddedAgain(n, x)'
  <2>1. \A i \in DOMAIN queue : i \in DOMAIN queue' /\ queue'[i] = queue[i]
        BY DEF SaveFile
  <2>2. ASSUME t \in Handlers, s.request = AddRequest(n, x), At(t, "log") \/ At(t, "send")
        PROVE  AddedAgain(n, x)'
    <3>1. Head(s.program).do = "log" /\ s.request.kind = "add"
          BY <1>1, <2>2 DEF At, Writes, AddRequest
    <3>2. r.program # <<>> /\ Head(r.program).do = "send"
          BY <1>1, <1>3, <2>2, <3>1, HandlerAt
    <3> QED
        BY <1>3, <2>2, <3>2 DEF AddedAgain, AddRequest, At, r
  <2> QED
      BY <1>3, <1>5, <2>1, <2>2, AddedStays
<1>6. ASSUME Repo!HasCluster(db, n), Lists(n, x)'
      PROVE  Lists(n, x) \/ AddedAgain(n, x)'
  <2>1. PICK c \in db'.clusters : c.name = n /\ HasNode(c.body, x)
        BY <1>6 DEF Lists, HasNode
  <2>2. CASE c \in db.clusters
        BY <2>1, <2>2 DEF Lists
  <2>3. CASE c \notin db.clusters
    <3>1. Head(s.program).do = "save" /\ c = s.copy
          BY <1>1, <1>2, <2>1, <2>3 DEF SavesWhole, Writes
    <3>2. s.copy.name = n /\ n = Cluster(t) /\ Record(db, n) = s.read
          BY <1>1, <1>2, <2>1, <3>1 DEF CopyFits, SavesWhole
    <3>3. s.read # NoRecord /\ s.read \in db.clusters /\ s.read.name = n
          BY <1>1, <1>6, <3>2, RecordFacts
    <3>4. \/ HasNode(s.read.body, x)
          \/ s.request.kind = "add" /\ s.request.node = x /\ s.program = <<Save, Log("info"), Send>>
          BY <1>1, <2>1, <3>1, <3>3 DEF DeletionInv, NodesFit, Saving
    <3>5. CASE HasNode(s.read.body, x)
          BY <3>3, <3>5 DEF Lists
    <3>6. CASE s.request.kind = "add" /\ s.request.node = x /\ s.program = <<Save, Log("info"), Send>>
      <4>1. s.request \in Request
            BY <1>1 DEF ThreadState, Threading
      <4>2. s.request = AddRequest(n, x)
            BY <1>1, <3>2, <3>6, <4>1 DEF Request, AddRequest
      <4>3. r.program # <<>> /\ Head(r.program).do = "log"
            BY <1>3, <3>6, Walk, Does
      <4> QED
          BY <1>3, <3>6, <4>2, <4>3 DEF AddedAgain, AddRequest, At, r
    <3> QED
        BY <3>4, <3>5, <3>6
  <2> QED
      BY <2>2, <2>3
<1> QED
    BY <1>4, <1>5, <1>6 DEF Stays
-----------------------------------------------------------------------------
(* The steps *)
LEMMA FailMoves ==
    ASSUME SettledIInv, LifecycleIInv', DeletionInv, NEW t \in Threads,
           NEW d \in {"get", "absent", "notLast", "work"}, At(t, d), Fail(t),
           db' = db, queue' = queue, lost' = lost
    PROVE  DeletionInv'
<1> DEFINE s == thread[t]
           r == thread'[t]
<1>1. /\ LifecycleIInv /\ s \in ThreadState /\ Threading(s)
      /\ s.program # <<>> /\ Head(s.program).do = d /\ r \in ThreadState
      BY AtFacts DEF SettledIInv, LifecycleIInv
<1>2. /\ Else(t) /\ r.program = s.err /\ r.ok = <<>> /\ r.err = <<>> /\ r.request = s.request
      BY <1>1, FailFields
<1> HIDE DEF r
<1>3. NodesFit(r)
  <2>1. r.program \in Seq(Instruction) /\ Fresh(r.program)
        BY <1>1, <1>2 DEF ThreadState, Threading
  <2> QED
      BY <2>1, FreshSavesNot DEF NodesFit
<1>4. (HandlerShape(s) => HandlerShape(r)) /\ (WorkerShape(s) => WorkerShape(r))
      BY <1>1, <1>2, ShapesFail
<1>5. CASE t \in Handlers
  <2>1. \A n \in Names, x \in NodeNames : Stays(n, x)
        BY <1>1, <1>2, AsideStays DEF At
  <2> QED
      BY <1>2, <1>3, <1>4, <1>5, <2>1, HandlerMoves DEF DeletionInv, r
<1>6. CASE t = Worker
  <2>1. ASSUME NEW n \in Names, NEW x \in NodeNames, r.request = DelRequest(n, x)
        PROVE  Deleting(n, x)'
    <3>1. DeletionShape(s)
          BY <1>2, <1>6, <2>1 DEF DeletionInv, WorkerShape, DelRequest
    <3>2. r.program # OkArm("deleteNode")
      <4>1. ErrArm # OkArm("deleteNode") /\ <<>> # OkArm("deleteNode")
            BY DeletionArms, Does
      <4> QED
          BY <1>2, <3>1, <4>1 DEF DeletionShape
    <3> QED
        BY <1>2, <1>6, <3>2 DEF Deleting, r
  <2> QED
      BY <1>2, <1>3, <1>4, <1>6, <2>1, WorkerMoves DEF DeletionInv, r
<1> QED
    BY <1>5, <1>6 DEF Threads

LEMMA PlainMoves ==
    ASSUME SettledIInv, LifecycleIInv', DeletionInv, NEW t \in Threads,
           NEW d \in {"notLast", "work"}, At(t, d), Proceed(t, thread[t]),
           db' = db, queue' = queue, lost' = lost
    PROVE  DeletionInv'
<1> DEFINE s == thread[t]
           r == thread'[t]
<1>1. /\ LifecycleIInv /\ s \in ThreadState /\ Threading(s)
      /\ s.program # <<>> /\ Head(s.program).do = d /\ r \in ThreadState
      BY AtFacts DEF SettledIInv, LifecycleIInv
<1>2. /\ Else(t) /\ r.program = Tail(s.program) /\ r.ok = s.ok /\ r.err = s.err
      /\ r.request = s.request /\ r.copy = s.copy
      BY <1>1, ProceedFields
<1> HIDE DEF r
<1>3. NodesFit(r)
      BY <1>1, <1>2, TailSavesNot DEF NodesFit, Copies
<1>4. (HandlerShape(s) => HandlerShape(r)) /\ (WorkerShape(s) => WorkerShape(r))
      BY <1>1, <1>2, ShapesProceed
<1>5. \A n \in Names, x \in NodeNames : Stays(n, x)
      BY <1>1, <1>2, AsideStays DEF At
<1>6. CASE t \in Handlers
      BY <1>2, <1>3, <1>4, <1>5, <1>6, HandlerMoves DEF DeletionInv, r
<1>7. CASE t = Worker
  <2>1. ASSUME ~lost', NEW n \in Names, NEW x \in NodeNames, r.request = DelRequest(n, x)
        PROVE  Deleting(n, x)'
    <3>1. DeletionShape(s) /\ Deleting(n, x)
          BY <1>2, <1>7, <2>1 DEF DeletionInv, WorkerShape, DelRequest, DeletionsTold
    <3>2. ASSUME s.ok # <<>>
          PROVE  /\ Len(s.program) \in {1, 5, 7, 8}
                 /\ Len(s.program) = 1 => Gone(n, x)' \/ Refused(n, x)'
      <4>1. Len(s.program) \in 1..10 /\ Head(s.program) = DeleteNode[11 - Len(s.program)]
        <5>1. s.program # <<Log("error")>>
              BY <1>1, Walk, Does
        <5> QED
            BY <1>1, <3>1, <3>2, <5>1, DeletionAt
      <4>2. Len(s.program) \in {1, 5, 7, 8}
            BY <1>1, <4>1, DeletionStep
      <4>3. Len(s.program) = 1 => Gone(n, x) \/ Refused(n, x)
            BY <1>7, <3>1, <3>2 DEF Deleting
      <4> QED
          BY <1>2, <1>5, <1>7, <4>2, <4>3, GoneStays, SeenStays DEF r
    <3>3. /\ s.ok # <<>> => Len(s.program) \notin {2, 3, 4, 9}
          /\ Head(s.program).do # "useCase"
      <4>1. s.program \in Seq(Instruction)
            BY <1>1 DEF ThreadState
      <4>2. Head(s.program).do # "useCase"
            BY <1>1
      <4>3. \A k \in {1, 5, 7, 8} : k \notin {2, 3, 4, 9}
            OBVIOUS
      <4> QED
          BY <3>2, <4>2, <4>3
    <3> QED
        BY <1>1, <1>2, <1>7, <3>1, <3>2, <3>3, WorkerGoesOn DEF r
  <2> QED
      BY <1>2, <1>3, <1>4, <1>7, <2>1, WorkerMoves DEF DeletionInv, r
<1> QED
    BY <1>6, <1>7 DEF Threads

LEMMA DeletionDoWork ==
    ASSUME SettledIInv, DeletionInv, NEW t \in Threads, DoWork(t)
    PROVE  DeletionInv'
<1>1. LifecycleIInv'
      BY DoWorkStep DEF SettledIInv
<1> QED
    BY <1>1, FailMoves, PlainMoves DEF DoWork

LEMMA DeletionCall ==
    ASSUME SettledIInv, DeletionInv, NEW t \in Threads, Call(t)
    PROVE  DeletionInv'
<1> DEFINE r == thread'[t]
<1>0. LifecycleIInv /\ t \in Handlers
      BY DEF SettledIInv, Call
<1>1. PICK q \in todo : thread' = [thread EXCEPT ![t] = [Resting EXCEPT !.request = q,
                                                           !.program = Handler(q.kind)]]
      BY DEF Call
<1>2. q.kind \in Kinds
      BY <1>0 DEF LifecycleIInv, Shared, Request
<1>3. /\ Else(t) /\ r.program = Handler(q.kind) /\ r.request = q /\ r.ok = <<>> /\ r.err = <<>>
      BY <1>0, <1>1 DEF LifecycleIInv, Else, Resting
<1> HIDE DEF r
<1>4. NodesFit(r) /\ HandlerShape(r)
      BY <1>2, <1>3, HandlerFresh, FreshSavesNot, RestEnds DEF NodesFit, HandlerShape
<1>5. db' = db /\ queue' = queue /\ lost' = lost /\ ~At(t, "log") /\ ~At(t, "send")
      BY DEF Call, At, Resting
<1> QED
    BY <1>0, <1>3, <1>4, <1>5, AsideStays, HandlerMoves DEF r

LEMMA DeletionReceive ==
    ASSUME SettledIInv, DeletionInv, Receive
    PROVE  DeletionInv'
<1> DEFINE e == Head(queue)
           r == thread'[Worker]
<1>1. /\ queue \in Seq(Event) /\ queue # <<>> /\ thread \in [Threads -> ThreadState]
      /\ Worker \in Threads
      BY DEF SettledIInv, LifecycleIInv, Shared, Receive, Threads
<1>2. e \in Event
      BY <1>1
<1>3. e.kind \in Kinds \ {"edit", "clear"}
      BY <1>2 DEF Event, Request
<1>4. r = [Resting EXCEPT !.request = e, !.program = Dispatch(e.kind)] /\ Else(Worker)
      BY <1>1 DEF Receive, Else
<1>5. r.program = Dispatch(e.kind) /\ r.request = e /\ r.ok = <<>> /\ r.err = <<>>
      BY <1>4 DEF Resting
<1> HIDE DEF r, e
<1>6. NodesFit(r)
      BY <1>3, <1>5, ArmsFresh, FreshSavesNot DEF NodesFit
<1>7. e.kind = "deleteNode" => r.program = <<UseCase>>
      BY <1>5, Literals DEF Locking
<1>8. WorkerShape(r)
  <2>1. CASE e.kind = "deleteNode"
        BY <1>5, <1>7, <2>1 DEF WorkerShape, DeletionShape
  <2>2. CASE e.kind # "deleteNode"
        BY <1>3, <1>5, <2>2, MutePrograms DEF WorkerShape
  <2> QED
      BY <2>1, <2>2
<1>9. ASSUME NEW n \in Names, NEW x \in NodeNames, r.request = DelRequest(n, x)
      PROVE  Deleting(n, x)'
  <2>1. r.ok = <<>> /\ r.program = <<UseCase>>
        BY <1>5, <1>7, <1>9 DEF DelRequest
  <2>2. <<UseCase>> # OkArm("deleteNode")
        BY DeletionArms
  <2> QED
      BY <2>1, <2>2 DEF Deleting, r
<1> QED
    BY <1>4, <1>6, <1>8, <1>9, WorkerMoves DEF r

LEMMA DeletionFinish ==
    ASSUME SettledIInv, DeletionInv, NEW t \in Threads, Finish(t)
    PROVE  DeletionInv'
<1> DEFINE s == thread[t]
           r == thread'[t]
<1>0. /\ LifecycleIInv /\ s \in ThreadState /\ Threading(s) /\ s.program = <<>>
      /\ db' = db /\ queue' = queue /\ lost' = lost
      BY DEF SettledIInv, LifecycleIInv, Finish
<1>1. \A n \in Names, x \in NodeNames : Else(t) => Stays(n, x)
      BY <1>0, AsideStays DEF At
<1>2. CASE s.ok = <<>>
  <2>1. Else(t) /\ r = Resting
        BY <1>0, <1>2 DEF Finish, LifecycleIInv, Else
  <2>2. Mute(<<>>)
        BY DEF Mute
  <2>3. NodesFit(Resting) /\ HandlerShape(Resting) /\ WorkerShape(Resting)
        BY <2>2 DEF Resting, NodesFit, Saving, HandlerShape, WorkerShape, NoRequest
  <2>4. \A n \in Names, x \in NodeNames : Resting.request # DelRequest(n, x)
        BY DEF Resting, NoRequest, DelRequest
  <2> QED
      BY <1>0, <1>1, <2>1, <2>3, <2>4, HandlerMoves, WorkerMoves DEF Threads
<1>3. CASE s.ok # <<>>
  <2>1. r = [[s EXCEPT !.ok = <<>>, !.err = <<>>] EXCEPT !.program = s.ok] /\ Else(t)
        BY <1>0, <1>3 DEF Finish, LifecycleIInv, Else, Continue
  <2>2. /\ r.program = s.ok /\ r.ok = <<>> /\ r.err = <<>> /\ r.request = s.request
        /\ r.copy = s.copy
        BY <1>0, <2>1 DEF ThreadState
  <2> HIDE DEF r
  <2>3. t = Worker
        BY <1>3 DEF DeletionInv, HandlerShape, Threads
  <2>4. NodesFit(r)
    <3>1. r.program \in Seq(Instruction) /\ Fresh(r.program)
          BY <1>0, <2>2 DEF ThreadState, Threading
    <3> QED
        BY <3>1, FreshSavesNot DEF NodesFit
  <2>5. WorkerShape(s)
        BY <2>3 DEF DeletionInv
  <2>6. WorkerShape(r)
    <3>1. CASE s.request.kind = "deleteNode"
          BY <1>3, <2>2, <2>5, <3>1, RestEnds, DeletionArms DEF WorkerShape, DeletionShape
    <3>2. CASE s.request.kind # "deleteNode"
      <4>1. Mute(<<>>)
            BY DEF Mute
      <4> QED
          BY <2>2, <2>5, <3>2, <4>1 DEF WorkerShape
    <3> QED
        BY <3>1, <3>2
  <2>7. ASSUME ~lost', NEW n \in Names, NEW x \in NodeNames, r.request = DelRequest(n, x)
        PROVE  Deleting(n, x)'
    <3>1. Deleting(n, x)
          BY <1>0, <2>2, <2>3, <2>7 DEF DeletionInv, DeletionsTold
    <3>2. Len(s.program) < 2
          BY <1>0
    <3>3. Gone(n, x) \/ Refused(n, x)
          BY <1>3, <2>3, <3>1, <3>2 DEF Deleting
    <3>4. Gone(n, x)' \/ Refused(n, x)'
          BY <1>1, <2>1, <2>2, <2>3, <3>3, GoneStays, SeenStays DEF r
    <3> QED
        BY <2>2, <2>3, <3>4 DEF Deleting, r
  <2> QED
      BY <2>1, <2>3, <2>4, <2>6, <2>7, WorkerMoves DEF r
<1> QED
    BY <1>2, <1>3

LEMMA DeletionEnterUseCase ==
    ASSUME SettledIInv, DeletionInv, NEW t \in Threads, EnterUseCase(t)
    PROVE  DeletionInv'
<1> DEFINE s == thread[t]
           k == s.request.kind
           r == thread'[t]
<1>0. At(t, "useCase")
      BY DEF EnterUseCase
<1>1. /\ LifecycleIInv /\ s \in ThreadState /\ Threading(s)
      /\ thread \in [Threads -> ThreadState]
      BY DEF SettledIInv, LifecycleIInv
<1>2. /\ 1 \in 1..Len(s.program) /\ s.program[1].do = "useCase" /\ s.program # <<>>
      /\ Head(s.program).do = "useCase" /\ s.request \in Request
  <2>1. /\ Head(s.program).do = "useCase" /\ Head(s.program) = s.program[1] /\ s.program # <<>>
        /\ 1 \in 1..Len(s.program) /\ s.request \in Request
        BY <1>0, <1>1, AtFacts
  <2> QED
      BY <2>1
<1>3. k \in Kinds \ {"edit", "clear"}
      BY <1>1, <1>2 DEF Threading, Request
<1>4. r = [[s EXCEPT !.ok = OkArm(k), !.err = ErrArm] EXCEPT !.program = Execute(k)] /\ Else(t)
      BY <1>1 DEF EnterUseCase, Continue, Else
<1>5. r.program = Execute(k) /\ r.ok = OkArm(k) /\ r.err = ErrArm /\ r.request = s.request
      BY <1>1, <1>4 DEF ThreadState
<1> HIDE DEF r
<1>6. t = Worker
      BY <1>1, <1>2, HandlerAt DEF Threads
<1>7. NodesFit(r)
      BY <1>3, <1>5, ExecuteFresh, FreshSavesNot DEF NodesFit
<1>8. k = "deleteNode" => r.program = DeleteNode
      BY <1>5 DEF Execute
<1>9. WorkerShape(r)
  <2>1. CASE k = "deleteNode"
        BY <1>5, <1>8, <2>1, DeletionProgram, RestEnds DEF WorkerShape, DeletionShape
  <2>2. CASE k # "deleteNode"
        BY <1>3, <1>5, <2>2, MutePrograms DEF WorkerShape
  <2> QED
      BY <2>1, <2>2
<1>10. ASSUME NEW n \in Names, NEW x \in NodeNames, r.request = DelRequest(n, x)
       PROVE  Deleting(n, x)'
  <2>1. k = "deleteNode" /\ r.program = DeleteNode /\ r.ok = OkArm("deleteNode")
        BY <1>5, <1>8, <1>10 DEF DelRequest
  <2>2. Len(r.program) = 10 /\ r.ok # <<>>
        BY <2>1, DeletionProgram, DeletionArms
  <2> QED
      BY <1>6, <2>2 DEF Deleting, r
<1> QED
    BY <1>4, <1>6, <1>7, <1>9, <1>10, WorkerMoves DEF r

LEMMA DeletionLoadFile ==
    ASSUME SettledIInv, DeletionInv, NEW t \in Threads, LoadFile(t)
    PROVE  DeletionInv'
<1> DEFINE s == thread[t]
           r == thread'[t]
<1>1. s \in ThreadState /\ thread \in [Threads -> ThreadState]
      BY DEF SettledIInv, LifecycleIInv
<1>2. /\ Else(t) /\ r = [s EXCEPT !.data = db]
      /\ db' = db /\ queue' = queue /\ lost' = lost
      BY <1>1 DEF LoadFile, Else
<1>3. /\ r.program = s.program /\ r.ok = s.ok /\ r.err = s.err /\ r.request = s.request
      /\ r.copy = s.copy /\ r.read = s.read
      BY <1>1, <1>2 DEF ThreadState
<1> HIDE DEF r
<1>4. NodesFit(r) /\ (HandlerShape(s) => HandlerShape(r)) /\ (WorkerShape(s) => WorkerShape(r))
      BY <1>3 DEF DeletionInv, NodesFit, Saving, HandlerShape, WorkerShape, DeletionShape
<1>5. ASSUME NEW n \in Names, NEW x \in NodeNames
      PROVE  Stays(n, x)
  <2>1. \A i \in DOMAIN queue : i \in DOMAIN queue' /\ queue'[i] = queue[i]
        BY <1>2
  <2>2. ASSUME AddedAgain(n, x)
        PROVE  AddedAgain(n, x)'
    <3>1. t \in Handlers /\ s.request = AddRequest(n, x) /\ (At(t, "log") \/ At(t, "send"))
             => AddedAgain(n, x)'
          BY <1>3 DEF AddedAgain, AddRequest, At, r
    <3> QED
        BY <1>2, <2>1, <2>2, <3>1, AddedStays
  <2> QED
      BY <1>2, <2>2 DEF Stays, Lists, Repo!HasCluster
<1>6. CASE t \in Handlers
      BY <1>2, <1>4, <1>5, <1>6, HandlerMoves DEF DeletionInv, r
<1>7. CASE t = Worker
  <2>1. ASSUME ~lost', NEW n \in Names, NEW x \in NodeNames, r.request = DelRequest(n, x)
        PROVE  Deleting(n, x)'
    <3>1. Deleting(n, x)
          BY <1>2, <1>3, <1>7, <2>1 DEF DeletionInv, DeletionsTold
    <3>2. /\ Gone(n, x) => Gone(n, x)'
          /\ Seen(n, x) => Seen(n, x)'
          /\ Refused(n, x) => Refused(n, x)'
          BY <1>3, <1>5, <1>7, GoneStays, SeenStays DEF r
    <3> QED
        BY <1>3, <1>7, <3>1, <3>2 DEF Deleting, r
  <2> QED
      BY <1>2, <1>4, <1>7, <2>1, WorkerMoves DEF DeletionInv, r
<1> QED
    BY <1>6, <1>7 DEF Threads

LEMMA DeletionSendEvent ==
    ASSUME SettledIInv, DeletionInv, NEW t \in Threads, SendEvent(t)
    PROVE  DeletionInv'
<1> DEFINE s == thread[t]
           r == thread'[t]
<1>0. /\ At(t, "send") /\ db' = db /\ lost' = lost /\ queue' = Append(queue, s.request)
      /\ Proceed(t, s)
      BY DEF SendEvent
<1>1. /\ LifecycleIInv /\ LifecycleIInv' /\ s \in ThreadState /\ Threading(s)
      /\ s.program # <<>> /\ Head(s.program).do = "send" /\ r \in ThreadState
      BY <1>0, SendEventStep, AtFacts DEF SettledIInv, LifecycleIInv
<1>2. /\ Else(t) /\ r.program = Tail(s.program) /\ r.ok = s.ok /\ r.err = s.err
      /\ r.request = s.request
      BY <1>0, <1>1, ProceedFields
<1> HIDE DEF r
<1>3. NodesFit(r)
      BY <1>1, <1>2, TailSavesNot DEF NodesFit, Copies
<1>4. (HandlerShape(s) => HandlerShape(r)) /\ (WorkerShape(s) => WorkerShape(r))
      BY <1>1, <1>2, ShapesProceed
\* What waited still waits, and the event of this thread now does.
<1>5. /\ \A i \in DOMAIN queue : i \in DOMAIN queue' /\ queue'[i] = queue[i]
      /\ Len(queue) + 1 \in DOMAIN queue' /\ queue'[Len(queue) + 1] = s.request
  <2>1. queue \in Seq(Event)
        BY <1>1 DEF LifecycleIInv, Shared
  <2> QED
      BY <1>0, <2>1
<1>6. ASSUME NEW n \in Names, NEW x \in NodeNames
      PROVE  Stays(n, x)
  <2>1. s.request = AddRequest(n, x) => AddedAgain(n, x)'
        BY <1>5 DEF AddedAgain, AddRequest
  <2>2. AddedAgain(n, x) => AddedAgain(n, x)'
        BY <1>2, <1>5, <2>1, AddedStays
  <2> QED
      BY <1>0, <2>2 DEF Stays, Lists, Repo!HasCluster
<1>7. CASE t \in Handlers
      BY <1>0, <1>2, <1>3, <1>4, <1>6, <1>7, HandlerMoves DEF DeletionInv, r
<1>8. CASE t = Worker
  <2>1. ASSUME NEW n \in Names, NEW x \in NodeNames, r.request = DelRequest(n, x)
        PROVE  FALSE
    <3>1. DeletionShape(s)
          BY <1>2, <1>8, <2>1 DEF DeletionInv, WorkerShape, DelRequest
    <3>2. s.program # <<Log("error")>>
          BY <1>1, Walk, Does
    <3> QED
        BY <1>1, <3>1, <3>2, DeletionAt, DeletionStep
  <2> QED
      BY <1>2, <1>3, <1>4, <1>8, <2>1, WorkerMoves DEF DeletionInv, r
<1> QED
    BY <1>7, <1>8 DEF Threads

LEMMA DeletionCheckAbsent ==
    ASSUME SettledIInv, DeletionInv, NEW t \in Threads, CheckAbsent(t)
    PROVE  DeletionInv'
<1> DEFINE s    == thread[t]
           copy == NewCluster(Cluster(t))
           q    == [s EXCEPT !.read = NoRecord, !.copy = copy]
           r    == thread'[t]
<1>0. At(t, "absent") /\ db' = db /\ queue' = queue /\ lost' = lost
      BY DEF CheckAbsent
<1>1. /\ LifecycleIInv /\ LifecycleIInv' /\ s \in ThreadState /\ Threading(s)
      /\ s.program # <<>> /\ Head(s.program).do = "absent" /\ r \in ThreadState
      /\ Cluster(t) \in Names
      BY <1>0, CheckAbsentStep, AtFacts DEF SettledIInv, LifecycleIInv
<1>2. CASE Repo!HasCluster(db, Cluster(t))
  <2>1. Fail(t)
        BY <1>2 DEF CheckAbsent
  <2> QED
      BY <1>0, <1>1, <2>1, FailMoves
<1>3. CASE ~Repo!HasCluster(db, Cluster(t))
  <2>1. Proceed(t, q) /\ copy \in Repo!Cluster
        BY <1>1, <1>3, NewClusterType DEF CheckAbsent
  <2> HIDE DEF copy
  <2>2. /\ q \in ThreadState /\ q.program = s.program /\ q.read = NoRecord
        /\ q.request = s.request /\ q.ok = s.ok /\ q.err = s.err
        BY <1>1, <2>1 DEF ThreadState, Records
  <2> HIDE DEF q
  <2>3. /\ Else(t) /\ r.program = Tail(s.program) /\ r.ok = s.ok /\ r.err = s.err
        /\ r.request = s.request /\ r.read = NoRecord
        BY <1>1, <2>1, <2>2, ProceedFields
  <2> HIDE DEF r
  <2>4. NodesFit(r)
        BY <2>3 DEF NodesFit
  <2>5. (HandlerShape(s) => HandlerShape(r)) /\ (WorkerShape(s) => WorkerShape(r))
        BY <1>1, <2>3, ShapesProceed
  <2>6. CASE t \in Handlers
    <3>1. \A n \in Names, x \in NodeNames : Stays(n, x)
          BY <1>0, <1>1, <2>3, AsideStays DEF At
    <3> QED
        BY <1>0, <2>3, <2>4, <2>5, <2>6, <3>1, HandlerMoves DEF DeletionInv, r
  <2>7. CASE t = Worker
    <3>1. ASSUME NEW n \in Names, NEW x \in NodeNames, r.request = DelRequest(n, x)
          PROVE  FALSE
      <4>1. DeletionShape(s)
            BY <2>3, <2>7, <3>1 DEF DeletionInv, WorkerShape, DelRequest
      <4>2. s.program # <<Log("error")>>
            BY <1>1, Walk, Does
      <4> QED
          BY <1>1, <4>1, <4>2, DeletionAt, DeletionStep
    <3> QED
        BY <2>3, <2>4, <2>5, <2>7, <3>1, WorkerMoves DEF DeletionInv, r
  <2> QED
      BY <2>6, <2>7 DEF Threads
<1> QED
    BY <1>2, <1>3

LEMMA DeletionCheckNotLast ==
    ASSUME SettledIInv, DeletionInv, NEW t \in Threads, CheckNotLast(t)
    PROVE  DeletionInv'
<1> DEFINE s    == thread[t]
           body == s.copy.body
           r    == thread'[t]
<1>0. At(t, "notLast") /\ db' = db /\ queue' = queue /\ lost' = lost
      BY DEF CheckNotLast
<1>1. /\ LifecycleIInv /\ LifecycleIInv' /\ s \in ThreadState /\ Threading(s)
      /\ s.program # <<>> /\ Head(s.program).do = "notLast" /\ r \in ThreadState
      /\ thread \in [Threads -> ThreadState]
      BY <1>0, CheckNotLastStep, AtFacts DEF SettledIInv, LifecycleIInv
<1>2. CASE IsSingle(body)
  <2>1. r = [s EXCEPT !.program = <<Log("error")>>] /\ Else(t)
        BY <1>1, <1>2 DEF CheckNotLast, Continue, Else
  <2>2. /\ r.program = <<Log("error")>> /\ r.ok = s.ok /\ r.err = s.err /\ r.request = s.request
        /\ r.copy = s.copy
        BY <1>1, <2>1 DEF ThreadState
  <2> HIDE DEF r
  <2>3. t = Worker
        BY <1>1, HandlerAt DEF Threads
  <2>4. NodesFit(r)
        BY <2>2, Walk, Does DEF NodesFit, Saving
  <2>5. ASSUME s.request.kind = "deleteNode"
        PROVE  /\ DeletionShape(s) /\ s.ok # <<>> /\ s.ok = OkArm("deleteNode") /\ s.err = ErrArm
               /\ Len(s.program) = 8
    <3>1. DeletionShape(s)
          BY <2>3, <2>5 DEF DeletionInv, WorkerShape
    <3>2. s.program # <<Log("error")>>
          BY <1>1, Walk, Does
    <3>3. s.ok # <<>>
          BY <1>1, <3>1, DeletionAt
    <3>4. Len(s.program) = 8
          BY <1>1, <3>1, <3>2, <3>3, DeletionAt, DeletionStep
    <3> QED
        BY <3>1, <3>3, <3>4 DEF DeletionShape
  <2>6. WorkerShape(r)
    <3>1. CASE s.request.kind = "deleteNode"
          BY <2>2, <2>5, <3>1 DEF WorkerShape, DeletionShape
    <3>2. CASE s.request.kind # "deleteNode"
      <4>1. Mute(<<Log("error")>>)
            BY Does DEF Mute
      <4> QED
          BY <2>2, <2>3, <3>2, <4>1 DEF DeletionInv, WorkerShape
    <3> QED
        BY <3>1, <3>2
  <2>7. ASSUME ~lost', NEW n \in Names, NEW x \in NodeNames, r.request = DelRequest(n, x)
        PROVE  Deleting(n, x)'
    <3>1. Deleting(n, x) /\ Len(s.program) = 8 /\ s.ok # <<>>
          BY <1>0, <2>2, <2>3, <2>5, <2>7 DEF DeletionInv, DeletionsTold, DelRequest
    <3>2. Refused(n, x)
          BY <1>2, <2>3, <3>1 DEF Deleting, Refused
    <3>3. Stays(n, x)
          BY <1>0, <1>1, <2>1, AsideStays DEF At
    <3>4. Refused(n, x)'
          BY <2>2, <2>3, <3>2, <3>3, SeenStays DEF r
    <3>5. Len(r.program) = 1 /\ r.ok # <<>>
          BY <2>2, <3>1
    <3> QED
        BY <2>3, <3>4, <3>5 DEF Deleting, r
  <2> QED
      BY <2>1, <2>3, <2>4, <2>6, <2>7, WorkerMoves DEF r
<1>3. CASE ~IsSingle(body) /\ EditFails("findWithPeer", body, NodeOf(t))
      BY <1>0, <1>1, <1>3, FailMoves DEF CheckNotLast
<1>4. CASE ~IsSingle(body) /\ ~EditFails("findWithPeer", body, NodeOf(t))
      BY <1>0, <1>1, <1>4, PlainMoves DEF CheckNotLast
<1> QED
    BY <1>2, <1>3, <1>4

LEMMA DeletionCrash ==
    ASSUME SettledIInv, Crash
    PROVE  DeletionInv'
<1>1. Mute(<<>>)
      BY DEF Mute
<1>2. NodesFit(Resting) /\ HandlerShape(Resting) /\ WorkerShape(Resting)
      BY <1>1 DEF Resting, NodesFit, Saving, HandlerShape, WorkerShape, NoRequest
<1>3. lost' /\ \A u \in Threads : thread'[u] = Resting
      BY DEF Crash
<1>4. \A u \in Threads : NodesFit(thread[u])' /\ HandlerShape(thread[u])' /\ WorkerShape(thread[u])'
  <2>1. \A u \in Threads :
           NodesFit(thread'[u]) /\ HandlerShape(thread'[u]) /\ WorkerShape(thread'[u])
        BY <1>2, <1>3
  <2> QED
      BY <2>1 DEF NodesFit, Saving, HandlerShape, Rest, WorkerShape, DeletionShape, Mute
<1> QED
    BY <1>3, <1>4 DEF DeletionInv, Threads

LEMMA DeletionInit == Init => DeletionInv
<1> SUFFICES ASSUME Init PROVE DeletionInv
    OBVIOUS
<1>1. Mute(<<>>)
      BY DEF Mute
<1>2. NodesFit(Resting) /\ HandlerShape(Resting) /\ WorkerShape(Resting)
      BY <1>1 DEF Resting, NodesFit, Saving, HandlerShape, WorkerShape, NoRequest
<1>3. \A u \in Threads : thread[u] = Resting
      BY DEF Init
<1>4. \A n \in Names, x \in NodeNames : Resting.request # DelRequest(n, x)
      BY DEF Resting, NoRequest, DelRequest
<1> QED
    BY <1>2, <1>3, <1>4 DEF DeletionInv, DeletionsTold, Threads

\* Only the handler of an addition puts a new node to a record.
LEMMA AddingShape ==
    ASSUME NEW s \in ThreadState, Shape(s), s.program # <<>>,
           Head(s.program).do = "get", Head(s.program).edit = "lockCreate"
    PROVE  s.request.kind = "add" /\ Tail(s.program) = <<Save, Log("info"), Send>>
<1>1. ~Plain(s.program)
  <2>1. s.program \in Seq(Instruction)
        BY DEF ThreadState
  <2>2. 1 \in 1..Len(s.program) /\ Head(s.program) = s.program[1]
        BY <2>1
  <2>3. Marking(s.program[1])
        BY <2>2 DEF Marking, LockEdits
  <2> QED
      BY <2>2, <2>3 DEF Plain
<1>2. [kind |-> s.request.kind, program |-> s.program] \in Marks
      BY <1>1 DEF Shape
<1>3. /\ s.program # CreateHandler /\ s.program # DeleteHandler
      /\ s.program # ChangeHandler /\ s.program # DelNodeHandler
      /\ s.program # <<Get("lockDelete"), Save, Send>>
      BY Walk, Does DEF CreateHandler, DeleteHandler, ChangeHandler, DelNodeHandler
<1>4. s.program # Dispatch("create")
      BY Literals, Walk, Does
<1>5. s.request.kind = "add" /\ s.program = AddHandler
      BY <1>2, <1>3, <1>4 DEF Marks
<1> QED
    BY <1>5, Walk DEF AddHandler

LEMMA DeletionGetCluster ==
    ASSUME SettledIInv, DeletionInv, NEW t \in Threads, GetCluster(t)
    PROVE  DeletionInv'
<1> DEFINE s     == thread[t]
           found == Record(db, Cluster(t))
           edit  == Head(s.program).edit
           body  == Edit(edit, found.body, NodeOf(t))
           copy  == [found EXCEPT !.body = body]
           q     == [s EXCEPT !.read = found, !.copy = copy]
           r     == thread'[t]
<1>0. At(t, "get") /\ db' = db /\ queue' = queue /\ lost' = lost
      BY DEF GetCluster
<1>1. /\ LifecycleIInv /\ LifecycleIInv' /\ s \in ThreadState /\ Threading(s) /\ Shape(s)
      /\ s.program # <<>> /\ Head(s.program).do = "get" /\ r \in ThreadState /\ db \in Repo!DB
      /\ Cluster(t) \in Names /\ NodeOf(t) \in NodeNames
      /\ Cluster(t) = s.request.name /\ NodeOf(t) = s.request.node
      BY <1>0, GetClusterStep, AtFacts DEF SettledIInv, LifecycleIInv, Shared, Cluster, NodeOf
<1>2. CASE found = NoRecord \/ EditFails(edit, found.body, NodeOf(t))
  <2>1. Fail(t)
        BY <1>2 DEF GetCluster
  <2> QED
      BY <1>0, <1>1, <2>1, FailMoves
<1>3. CASE ~(found = NoRecord \/ EditFails(edit, found.body, NodeOf(t)))
  <2>1. found \in db.clusters /\ found.name = Cluster(t) /\ found \in Repo!Cluster
    <3>1. found \in db.clusters /\ found.name = Cluster(t)
          BY <1>1, <1>3, RecordFacts
    <3> QED
        BY <1>1, <3>1 DEF Repo!DB
  <2>2. found.body \in Body
        BY <2>1 DEF Repo!Cluster
  <2>3. Head(s.program) \in Instruction
        BY <1>0, <1>1, AtFacts
  <2>4. edit \in Edits
        BY <1>1, <2>3 DEF Instruction
  <2>5. /\ \A x \in NodeNames : HasNode(body, x)
               => HasNode(found.body, x) \/ (edit = "lockCreate" /\ x = NodeOf(t))
        /\ edit = "remove" => ~HasNode(body, NodeOf(t))
        /\ edit = "keep" => body = found.body
    <3> DEFINE b == found.body
               e == edit
    <3>1. b \in Body /\ e \in Edits /\ ~EditFails(e, b, NodeOf(t))
          BY <1>3, <2>2, <2>4
    <3> HIDE DEF b, e
    <3>2. /\ \A x \in NodeNames : HasNode(Edit(e, b, NodeOf(t)), x)
                      => HasNode(b, x) \/ (e = "lockCreate" /\ x = NodeOf(t))
          /\ ~HasNode(Edit("remove", b, NodeOf(t)), NodeOf(t))
          /\ Edit("keep", b, NodeOf(t)) = b
          BY <1>1, <3>1, EditNodes
    <3> QED
        BY <3>2 DEF b, e
  <2>6. body \in Body
        BY <1>1, <1>3, <2>2, EditType
  <2>7. Proceed(t, q)
        BY <1>3 DEF GetCluster
  <2> HIDE DEF found, body
  <2>8. copy \in Repo!Cluster /\ copy.body = body
        BY <2>1, <2>6 DEF Repo!Cluster
  <2> HIDE DEF copy
  <2>9. /\ q \in ThreadState /\ q.program = s.program /\ q.copy = copy /\ q.read = found
        /\ q.request = s.request /\ q.ok = s.ok /\ q.err = s.err
        BY <1>1, <2>1, <2>8 DEF ThreadState, Records
  <2> HIDE DEF q
  <2>10. /\ Else(t) /\ r.program = Tail(s.program) /\ r.ok = s.ok /\ r.err = s.err
         /\ r.request = s.request /\ r.copy = copy /\ r.read = found
         BY <1>1, <2>7, <2>9, ProceedFields
  <2> HIDE DEF r
  <2>11. NodesFit(r)
    <3>1. edit = "lockCreate" => r.request.kind = "add" /\ r.program = <<Save, Log("info"), Send>>
          BY <1>1, <2>10, AddingShape
    <3> QED
        BY <1>1, <2>5, <2>8, <2>10, <3>1 DEF NodesFit
  <2>12. /\ HandlerShape(s) => HandlerShape(r)
         /\ WorkerShape(s) => WorkerShape(r)
         BY <1>1, <2>10, ShapesProceed
  <2>13. \A n \in Names, x \in NodeNames : Stays(n, x)
         BY <1>0, <1>1, <2>10, AsideStays DEF At
  <2>14. CASE t \in Handlers
         BY <1>0, <2>10, <2>11, <2>12, <2>13, <2>14, HandlerMoves DEF DeletionInv, r
  <2>15. CASE t = Worker
    <3>1. ASSUME ~lost', NEW n \in Names, NEW x \in NodeNames, r.request = DelRequest(n, x)
          PROVE  Deleting(n, x)'
      <4>1. DeletionShape(s) /\ Deleting(n, x) /\ Repo!NamesUnique(db)
            BY <1>0, <2>10, <2>15, <3>1
               DEF DeletionInv, WorkerShape, DelRequest, DeletionsTold, SettledIInv
      <4>2. Cluster(t) = n /\ NodeOf(t) = x
            BY <1>1, <2>10, <3>1 DEF DelRequest
      <4>3. ASSUME s.ok # <<>>
            PROVE  /\ Len(s.program) \in 1..10 /\ Len(s.program) \in {2, 4, 9}
                   /\ edit = IF Len(s.program) = 4 THEN "remove" ELSE "keep"
        <5>1. s.program # <<Log("error")>>
              BY <1>1, Walk, Does
        <5>2. Len(s.program) \in 1..10 /\ Head(s.program) = DeleteNode[11 - Len(s.program)]
              BY <1>1, <4>1, <4>3, <5>1, DeletionAt
        <5> DEFINE k == Len(s.program)
                   i == Head(s.program)
        <5>3. k \in 1..10 /\ i = DeleteNode[11 - k] /\ i.do = "get"
              BY <1>1, <5>2
        <5> HIDE DEF k, i
        <5>4. k \in {2, 4, 9} /\ i.edit = IF k = 4 THEN "remove" ELSE "keep"
              BY <5>3, DeletionStep
        <5> QED
            BY <5>3, <5>4 DEF k, i
      <4>4. edit = "keep" => Seen(n, x)'
        <5>1. Repo!HasCluster(db, n)'
              BY <1>0, <2>1, <4>2 DEF Repo!HasCluster
        <5>2. r.copy # NoRecord
          <6>1. NoRecord \notin Repo!Cluster
                BY DEF NoRecord, Repo!Cluster
          <6> QED
              BY <2>8, <2>10, <6>1
        <5>3. ASSUME edit = "keep", Lists(n, x)'
              PROVE  HasNode(r.copy.body, x)
          <6>1. PICK c \in db.clusters : c.name = n /\ HasNode(c.body, x)
                BY <1>0, <5>3 DEF Lists, HasNode
          <6>2. c = found
                BY <2>1, <4>1, <4>2, <6>1 DEF Repo!NamesUnique
          <6> QED
              BY <2>5, <2>8, <2>10, <5>3, <6>1, <6>2
        <5> QED
            BY <2>15, <5>1, <5>2, <5>3 DEF Seen, r
      <4>5. edit = "remove" => ~HasNode(r.copy.body, x)
            BY <2>5, <2>8, <2>10, <4>2
      <4>6. s.ok # <<>> /\ Len(s.program) = 2 => Gone(n, x)'
        <5>1. s.ok # <<>> /\ Len(s.program) = 2 => Gone(n, x)
              BY <2>15, <4>1 DEF Deleting
        <5> QED
            BY <2>13, <5>1, GoneStays
      <4>7. Head(s.program).do # "useCase"
            BY <1>1
      <4>8. ASSUME s.ok # <<>>
            PROVE  /\ Len(s.program) = 9 => Seen(n, x)'
                   /\ Len(s.program) = 4 => ~HasNode(r.copy.body, x)
                   /\ Len(s.program) = 3 => Gone(n, x)'
                   /\ Len(s.program) \in {1, 2} => Gone(n, x)' \/ Refused(n, x)'
        <5> DEFINE k == Len(s.program)
        <5>1. k \in {2, 4, 9} /\ edit = IF k = 4 THEN "remove" ELSE "keep"
              BY <4>3, <4>8
        <5>2. k = 2 => Gone(n, x)'
              BY <4>6, <4>8
        <5> HIDE DEF k
        <5>3. /\ k = 9 => Seen(n, x)'
              /\ k = 4 => ~HasNode(r.copy.body, x)
              /\ k # 3
              /\ k \in {1, 2} => Gone(n, x)' \/ Refused(n, x)'
              BY <4>4, <4>5, <5>1, <5>2
        <5> QED
            BY <5>3 DEF k
      <4> QED
          BY <1>1, <2>10, <2>15, <4>1, <4>7, <4>8, WorkerGoesOn DEF r
    <3> QED
        BY <2>10, <2>11, <2>12, <2>15, <3>1, WorkerMoves DEF DeletionInv, r
  <2> QED
      BY <2>14, <2>15 DEF Threads
<1> QED
    BY <1>2, <1>3

LEMMA DeletionSaveFile ==
    ASSUME SettledIInv, DeletionInv, NEW t \in Threads, SaveFile(t)
    PROVE  DeletionInv'
<1> DEFINE s == thread[t]
           r == thread'[t]
<1>1. /\ LifecycleIInv /\ LifecycleIInv' /\ s \in ThreadState /\ Threading(s) /\ CopyFits(s)
      /\ s.program # <<>> /\ Head(s.program).do \in Writes
      /\ Cluster(t) = s.request.name /\ NodeOf(t) = s.request.node
      BY SavingFacts
<1>2. /\ Else(t) /\ r \in ThreadState /\ r.program = Tail(s.program)
      /\ r.ok = s.ok /\ r.err = s.err /\ r.request = s.request
      BY SavedGoesOn DEF GoesOn
<1>3. ~lost' => ~lost
      BY DEF SaveFile, Remember
<1> HIDE DEF r
<1>4. NodesFit(r)
      BY <1>1, <1>2, TailSavesNot DEF NodesFit, Copies, Writes
<1>5. /\ HandlerShape(s) => HandlerShape(r)
      /\ WorkerShape(s) => WorkerShape(r)
      BY <1>1, <1>2, ShapesProceed DEF Writes
<1>6. CASE t \in Handlers
  <2>1. Head(s.program).do # "erase"
        BY <1>1, <1>6, HandlerAt
  <2>2. ~lost' => \A n \in Names, x \in NodeNames : Stays(n, x)
        BY <1>6, <2>1, SavedStays
  <2> QED
      BY <1>2, <1>3, <1>4, <1>5, <1>6, <2>2, HandlerMoves DEF DeletionInv, r
<1>7. CASE t = Worker
  <2>1. ASSUME ~lost', NEW n \in Names, NEW x \in NodeNames, r.request = DelRequest(n, x)
        PROVE  Deleting(n, x)'
    <3>1. DeletionShape(s) /\ Deleting(n, x) /\ s.request.kind = "deleteNode"
          BY <1>2, <1>3, <1>7, <2>1 DEF DeletionInv, WorkerShape, DelRequest, DeletionsTold
    <3>2. Cluster(t) = n /\ NodeOf(t) = x
          BY <1>1, <1>2, <2>1 DEF DelRequest
    <3>3. ASSUME s.ok # <<>>
          PROVE  /\ Head(s.program).do = "log" => Len(s.program) \in {1, 6, 10}
                 /\ Head(s.program).do = "save" => Len(s.program) = 3
                 /\ Head(s.program).do \in {"log", "save"}
      <4>1. CASE s.program = <<Log("error")>>
        <5>1. Len(s.program) = 1 /\ Head(s.program).do = "log"
              BY <4>1, Walk, Does
        <5> QED
            BY <5>1
      <4>2. CASE s.program # <<Log("error")>>
        <5> DEFINE k == Len(s.program)
                   i == Head(s.program)
        <5>1. k \in 1..10 /\ i = DeleteNode[11 - k] /\ i.do \in Writes
              BY <1>1, <3>1, <3>3, <4>2, DeletionAt
        <5> HIDE DEF k, i
        <5>2. (i.do = "log" => k \in {6, 10}) /\ (i.do = "save" => k = 3) /\ i.do \notin {"erase", "clear"}
              BY <5>1, DeletionStep
        <5> QED
            BY <5>1, <5>2 DEF Writes, k, i
      <4> QED
          BY <4>1, <4>2
    <3>4. Head(s.program).do \in {"log", "save"}
          BY <1>1, <3>1, <3>3, DeletionAt DEF Writes
    <3>5. Stays(n, x)
          BY <2>1, <3>1, <3>4, SavedStays
    <3>6. Head(s.program).do = "log" => r.copy = s.copy
      <4> DEFINE q == [s EXCEPT !.data = Repo!NoData]
      <4>1. q \in ThreadState /\ q.copy = s.copy
            BY <1>1 DEF ThreadState
      <4>2. Head(s.program).do = "log" => Proceed(t, q)
            BY <1>1 DEF SaveFile, At
      <4> HIDE DEF q
      <4> QED
          BY <1>1, <4>1, <4>2, ProceedFields DEF r
    <3>7. ASSUME s.ok # <<>>, Head(s.program).do = "log"
          PROVE  Len(s.program) = 1 => Gone(n, x)' \/ Refused(n, x)'
      <4>1. Len(s.program) = 1 => Gone(n, x) \/ Refused(n, x)
            BY <1>7, <3>1, <3>7 DEF Deleting
      <4> QED
          BY <1>7, <3>5, <3>6, <3>7, <4>1, GoneStays, SeenStays DEF r
    <3>8. ASSUME s.ok # <<>>, Head(s.program).do = "save"
          PROVE  Gone(n, x)'
      <4>1. ~HasNode(s.copy.body, x)
        <5>1. Len(s.program) = 3
              BY <3>3, <3>8
        <5> QED
            BY <1>7, <3>1, <3>8, <5>1 DEF Deleting
      <4>2. Repo!HasCluster(db, n)'
        <5>1. Repo!HasCluster(db, Cluster(t))'
              BY <2>1, <3>8, SavedHas
        <5>2. Cluster(t)' = n
              BY <2>1 DEF Cluster, DelRequest, r
        <5> QED
            BY <5>1, <5>2 DEF Repo!HasCluster
      <4>3. ~Lists(n, x)'
        <5>1. \A c \in db'.clusters : c = s.copy \/ c.name # n
              BY <2>1, <3>2, <3>8, SavedWhole DEF SavesWhole
        <5> QED
            BY <4>1, <5>1 DEF Lists
      <4> QED
          BY <4>2, <4>3 DEF Gone
    <3>9. ASSUME s.ok # <<>>
          PROVE  /\ Len(s.program) = 9 => Seen(n, x)'
                 /\ Len(s.program) = 4 => ~HasNode(thread'[Worker].copy.body, x)
                 /\ Len(s.program) = 3 => Gone(n, x)'
                 /\ Len(s.program) \in {1, 2} => Gone(n, x)' \/ Refused(n, x)'
      <4> DEFINE k == Len(s.program)
                 d == Head(s.program).do
      <4>1. /\ d = "log" => k \in {1, 6, 10}
            /\ d = "save" => k = 3
            /\ d \in {"log", "save"}
            BY <3>3, <3>9
      <4>2. /\ d = "log" => (k = 1 => Gone(n, x)' \/ Refused(n, x)')
            /\ d = "save" => Gone(n, x)'
            BY <3>7, <3>8, <3>9
      <4> HIDE DEF k, d
      <4>3. /\ k # 9 /\ k # 4
            /\ k = 3 => Gone(n, x)'
            /\ k \in {1, 2} => Gone(n, x)' \/ Refused(n, x)'
            BY <4>1, <4>2
      <4> QED
          BY <4>3 DEF k
    <3>10. Head(s.program).do # "useCase"
           BY <3>4
    <3> QED
        BY <1>1, <1>2, <1>7, <3>1, <3>9, <3>10, WorkerGoesOn DEF r
  <2> QED
      BY <1>2, <1>4, <1>5, <1>7, <2>1, WorkerMoves DEF DeletionInv, r
<1> QED
    BY <1>6, <1>7 DEF Threads

LEMMA DeletionInvariant == Spec => []DeletionInv
<1>1. SettledIInv /\ DeletionInv /\ [Next]_vars => DeletionInv'
  <2> SUFFICES ASSUME SettledIInv, DeletionInv, [Next]_vars
               PROVE  DeletionInv'
      OBVIOUS
  <2>1. ASSUME NEW t \in Threads, Call(t) \/ Step(t)
        PROVE  DeletionInv'
        BY <2>1, DeletionCall, DeletionFinish, DeletionEnterUseCase, DeletionGetCluster,
           DeletionCheckAbsent, DeletionCheckNotLast, DeletionDoWork, DeletionSendEvent,
           DeletionLoadFile, DeletionSaveFile DEF Step
  <2>2. CASE Receive
        BY <2>2, DeletionReceive
  <2>3. CASE Crash
        BY <2>3, DeletionCrash
  <2>4. CASE UNCHANGED vars
    <3>1. db' = db /\ queue' = queue /\ thread' = thread /\ lost' = lost
          BY <2>4 DEF vars
    <3>2. \A n, x : /\ Gone(n, x)' <=> Gone(n, x)
                    /\ Seen(n, x)' <=> Seen(n, x)
                    /\ Refused(n, x)' <=> Refused(n, x)
          BY <3>1 DEF Gone, Seen, Refused, Lists, AddedAgain, At, Repo!HasCluster
    <3>3. \A n \in Names, x \in NodeNames : Deleting(n, x) => Deleting(n, x)'
          BY <3>1, <3>2 DEF Deleting
    <3> QED
        BY <3>1, <3>3 DEF DeletionInv, DeletionsTold, DelRequest, NodesFit, Saving,
           HandlerShape, Rest, WorkerShape, DeletionShape, Mute
  <2> QED
      BY <2>1, <2>2, <2>3, <2>4 DEF Next
<1> QED
    BY <1>1, DeletionInit, SettledInvariant, PTL DEF Spec

\* Where a thread is that writes that a node was deleted
LEMMA DeletionLogged ==
    ASSUME SettledIInv, DeletionInv, NEW t \in Threads, LogsDeletion(t)
    PROVE  /\ t = Worker /\ thread[t].ok = <<>> /\ thread[t].program = OkArm("deleteNode")
           /\ thread[t].request = DelRequest(Cluster(t), NodeOf(t))
           /\ Cluster(t) \in Names /\ NodeOf(t) \in NodeNames
<1> DEFINE s == thread[t]
<1>1. /\ LifecycleIInv /\ s \in ThreadState /\ Threading(s) /\ s.program # <<>>
      /\ Cluster(t) \in Names /\ Cluster(t) = s.request.name
      /\ NodeOf(t) = s.request.node
      BY SavingFacts DEF LogsDeletion
<1>2. Head(s.program).do = "log" /\ Head(s.program).level = "deleted"
      BY DEF LogsDeletion, At
<1>3. t = Worker
      BY <1>1, <1>2, HandlerAt DEF Threads
<1>4. /\ s.program \in Seq(Instruction) /\ 1 \in 1..Len(s.program)
      /\ Head(s.program) = s.program[1] /\ s.request \in Request
  <2>1. s.program \in Seq(Instruction) /\ s.request \in Request
        BY <1>1 DEF ThreadState, Threading
  <2> QED
      BY <1>1, <2>1
<1>5. DeletionShape(s) /\ s.request.kind = "deleteNode"
  <2>1. ~Mute(s.program)
        BY <1>2, <1>4 DEF Mute
  <2> QED
      BY <1>3, <2>1 DEF DeletionInv, WorkerShape
<1>6. s.ok = <<>>
  <2> SUFFICES ASSUME s.ok # <<>> PROVE FALSE
      OBVIOUS
  <2>1. s.program # <<Log("error")>>
        BY <1>2, Walk, Does
  <2> DEFINE k == Len(s.program)
             i == Head(s.program)
  <2>2. k \in 1..10 /\ i = DeleteNode[11 - k] /\ i.do = "log" /\ i.level = "deleted"
        BY <1>1, <1>2, <1>5, <2>1, DeletionAt
  <2> HIDE DEF k, i
  <2> QED
      BY <2>2, DeletionStep
<1>7. s.program = OkArm("deleteNode")
  <2> DEFINE p == s.program
             q == OkArm("deleteNode")
  <2>1. p # <<UseCase>>
        BY <1>2, Walk, Does
  <2>2. OkArm("deleteNode") # <<>>
        BY DeletionArms
  <2>3. Rest(p, q) \/ Rest(p, ErrArm)
        BY <1>5, <1>6, <2>1, <2>2 DEF DeletionShape
  <2>4. p \in Seq(Instruction) /\ p # <<>> /\ Head(p).do = "log" /\ Head(p).level = "deleted"
        BY <1>1, <1>2, <1>4
  <2>5. q \in Seq(Instruction) /\ Len(q) = 3 /\ Len(p) \in Nat
        BY <2>4, DeletionArms
  <2> HIDE DEF p, q
  <2>6. ~Rest(p, ErrArm)
    <3> SUFFICES ASSUME Rest(p, ErrArm) PROVE FALSE
        OBVIOUS
    <3>1. ErrArm \in Seq(Instruction) /\ Len(ErrArm) = 3
          BY DeletionArms
    <3>2. 3 - Len(p) + 1 \in 1..3 /\ Head(p) = ErrArm[3 - Len(p) + 1]
          BY <2>4, <3>1, RestTail
    <3>3. 3 - Len(p) + 1 \in {1, 2, 3}
          BY <2>5, <3>2
    <3>4. Head(p) \in {ErrArm[1], ErrArm[2], ErrArm[3]}
          BY <3>2, <3>3
    <3> QED
        BY <2>4, <3>4, DeletionArms, Does
  <2>7. 3 - Len(p) + 1 \in 1..3 /\ Head(p) = q[3 - Len(p) + 1]
        BY <2>3, <2>4, <2>5, <2>6, RestTail
  <2>8. 3 - Len(p) + 1 = 1
    <3>1. 3 - Len(p) + 1 \in {1, 2, 3}
          BY <2>5, <2>7
    <3>2. q[2].do # "log" /\ q[3].do # "log"
          BY DeletionArms, Does DEF q
    <3> QED
        BY <2>4, <2>7, <3>1, <3>2
  <2>9. Len(p) = 3
    <3>1. \A l \in Nat : 3 - l + 1 = 1 => l = 3
          OBVIOUS
    <3> QED
        BY <2>5, <2>8, <3>1
  <2>10. \A i \in 1..3 : p[i] = q[i]
    <3>1. \A i \in 1..Len(p) : p[i] = q[Len(q) - Len(p) + i]
          BY <2>3, <2>6 DEF Rest
    <3>2. \A i \in 1..3 : 3 - 3 + i = i
          OBVIOUS
    <3> QED
        BY <2>5, <2>9, <3>1, <3>2
  <2> QED
      BY <2>4, <2>5, <2>9, <2>10, SeqEqual DEF p, q
<1>8. s.request = DelRequest(Cluster(t), NodeOf(t)) /\ NodeOf(t) \in NodeNames
      BY <1>1, <1>4, <1>5 DEF Request, DelRequest
<1> QED
    BY <1>1, <1>3, <1>6, <1>7, <1>8

(* Whatever else is created, added, changed or deleted meanwhile by however *)
(* many clients: a node that the log says was deleted is no longer in the   *)
(* record, unless it was the last one, whose deletion is refused but logged *)
(* all the same, or a node of its name was added anew.                      *)
THEOREM DeletionsAreTrue == Spec => OnlyTheLastSurvives
<1>1. ASSUME SettledIInv, DeletionInv, NEW t \in Threads, LogsDeletion(t), ~lost', IsMember(t)
      PROVE  WasLast(t) \/ AddedAgain(Cluster(t), NodeOf(t))
  <2> DEFINE n == Cluster(t)
             x == NodeOf(t)
  <2>1. /\ t = Worker /\ thread[t].ok = <<>> /\ thread[t].program = OkArm("deleteNode")
        /\ thread[t].request = DelRequest(n, x) /\ n \in Names /\ x \in NodeNames
        BY <1>1, DeletionLogged
  <2>2. Lists(n, x)
    <3>1. db \in Repo!DB
          BY <1>1 DEF SettledIInv, LifecycleIInv, Shared
    <3> QED
        BY <1>1, <2>1, <3>1, RecordFacts DEF IsMember, Lists
  <2>3. ~lost
        BY <1>1 DEF LogsDeletion, SaveFile, Remember
  <2> HIDE DEF n, x
  <2>4. Gone(n, x) \/ Refused(n, x)
        BY <1>1, <2>1, <2>3 DEF DeletionInv, DeletionsTold, Deleting
  <2>5. CASE Gone(n, x)
        BY <2>2, <2>5 DEF Gone, n, x
  <2>6. CASE Refused(n, x)
        BY <2>1, <2>2, <2>6 DEF Refused, Seen, WasLast, n, x
  <2> QED
      BY <2>4, <2>5, <2>6
<1>2. SettledIInv /\ DeletionInv /\ [Next]_vars =>
         [\A t \in Threads :
            LogsDeletion(t) /\ ~lost' /\ IsMember(t)
              => WasLast(t) \/ AddedAgain(Cluster(t), NodeOf(t))]_vars
      BY <1>1
<1> QED
    BY <1>2, SettledInvariant, DeletionInvariant, PTL DEF Spec, OnlyTheLastSurvives
-----------------------------------------------------------------------------
(***************************************************************************)
(* The pages of the browser that poll for statuses and logs, of whatever   *)
(* clusters, however often they are opened.                                *)
(***************************************************************************)
(* What a chain may hold: a call without a cluster is one for the logs of    *)
(* "" or the button of Logs.                                                 *)
ChainOps    == {"vm", "kube", "apps", "logs", "effect"}
StatusCalls == [op : ChainOps \cup {"load", "clear"}, to : Clusters \cup {None}, rest : Seq(ChainOps)]

MayRun(k) == k \in {Idle, Dead} \/ (k \in StatusCalls /\ (k.to = None => k.op \in {"logs", "clear"}))

PollTasks == DOMAIN task = Slots /\ \A t \in Slots : MayRun(task[t])

PagesOpen ==
    /\ shown \in Clusters \cup {None} /\ page \in Clusters \cup {None}
    /\ statuses \in [StatusKinds -> Clusters \cup {None}]
    /\ tab \in Tabs \cup {None} /\ (tab = None <=> page = None)
    /\ mounts \in 0..Mounts /\ fails \in 0..Fails
    /\ overtaken \subseteq Slots /\ older \subseteq StatusKinds

(* A call for statuses of another cluster than the one that is shown was     *)
(* under way when that was loaded: new ones are for the cluster that is      *)
(* shown, those that a chain goes on with included.                          *)
Stale(t) == Running(t) /\ KindOf(task[t].op) \in StatusKinds /\ task[t].to \notin {None, shown}

StaleKnown == \A t \in Slots : Stale(t) => t \in overtaken

PollsIInv == PagesOpen /\ PollTasks /\ StaleKnown /\ StatusesAreOwn

LEMMA PollsTypes ==
    ASSUME PollsIInv
    PROVE  PollsTypeOK
  <1>1. ASSUME NEW t \in Slots, Running(t)
        PROVE  /\ task[t].to \in Clusters \cup {None}
               /\ task[t].to = None => task[t].op \in {"logs", "clear"}
    <2>1. task[t] \in StatusCalls /\ (task[t].to = None => task[t].op \in {"logs", "clear"})
      BY <1>1 DEF PollsIInv, PollTasks, MayRun, Running
    <2> QED
      BY <2>1 DEF StatusCalls
  <1> QED
    BY <1>1 DEF PollsIInv, PagesOpen, PollsTypeOK

-----------------------------------------------------------------------------
LEMMA ChainMayRun ==
    ASSUME NEW ops \in Seq(ChainOps), NEW s \in Clusters \cup {None}
    PROVE  MayRun(Chain(ops, s))
  <1> DEFINE due == {i \in DOMAIN ops : Due(ops[i], s)}
             i   == Nth(due, 1)
  <1>1. CASE due = {}
    BY <1>1 DEF Chain, MayRun
  <1>2. CASE due # {}
    <2>1. Len(ops) \in Nat /\ due \in SUBSET (1..Len(ops))
      OBVIOUS
    <2>2. i \in due
      <3> HIDE DEF due
      <3> QED
        BY <1>2, <2>1, FirstOf
    <2>3. Chain(ops, s) = StatusCall(ops[i], s, SubSeq(ops, i + 1, Len(ops)))
      BY <1>2 DEF Chain
    <2>4. PICK j \in 1..Len(ops) : j = i /\ Due(ops[j], s)
      <3> HIDE DEF i
      <3> QED
        BY <2>2
    <2> HIDE DEF due, i
    <2>5. ops[j] \in ChainOps
      BY <2>4
    <2>6. SubSeq(ops, j + 1, Len(ops)) \in Seq(ChainOps)
      BY <2>4, SubSeqProperties
    <2>7. s = None => ops[j] = "logs"
      BY <2>4 DEF Due
    <2> QED
      BY <2>3, <2>4, <2>5, <2>6, <2>7 DEF MayRun, StatusCall, StatusCalls
  <1> QED
    BY <1>1, <1>2

LEMMA ChainsOfTabs ==
    ASSUME NEW x \in Tabs
    PROVE  OnMount(x) \in Seq(ChainOps) /\ OnInterval(x) \in Seq(ChainOps)
  <1>1. /\ <<"vm", "kube">> \in Seq(ChainOps) /\ <<"apps">> \in Seq(ChainOps)
        /\ <<"logs">> \in Seq(ChainOps) /\ <<"effect">> \in Seq(ChainOps) /\ <<>> \in Seq(ChainOps)
    BY DEF ChainOps
  <1> QED
    BY <1>1 DEF Tabs, OnMount, OnInterval

LEMMA MountChainsMayRun ==
    ASSUME NEW x \in Tabs, NEW s \in Clusters \cup {None}
    PROVE  MayRun(Chain(OnMount(x), s)) /\ MayRun(Chain(OnInterval(x), s))
  BY ChainsOfTabs, ChainMayRun

\* A task may be replaced, in its slot, by anything that may run.
LEMMA TaskChanged ==
    ASSUME PollTasks, NEW t, NEW k, MayRun(k), task' = [task EXCEPT ![t] = k]
    PROVE  PollTasks'
  <1>1. DOMAIN task' = Slots
    BY DEF PollTasks
  <1>2. ASSUME NEW u \in Slots
        PROVE  MayRun(task'[u])
    <2>1. task'[u] = IF u = t THEN k ELSE task[u]
      BY DEF PollTasks
    <2> QED
      BY <2>1 DEF PollTasks
  <1> QED
    BY <1>1, <1>2 DEF PollTasks, MayRun, StatusCalls, ChainOps, Idle, Dead, Slots

LEMMA TasksChanged ==
    ASSUME PollTasks, NEW t, NEW u, NEW k, NEW l, MayRun(k), MayRun(l),
           task' = [task EXCEPT ![t] = k, ![u] = l]
    PROVE  PollTasks'
  <1>1. DOMAIN task' = Slots
    BY DEF PollTasks
  <1>2. ASSUME NEW v \in Slots
        PROVE  MayRun(task'[v])
    <2>1. task'[v] = k \/ task'[v] = l \/ task'[v] = task[v]
      BY DEF PollTasks
    <2> QED
      BY <2>1 DEF PollTasks
  <1> QED
    BY <1>1, <1>2 DEF PollTasks, MayRun, StatusCalls, ChainOps, Idle, Dead, Slots

LEMMA CallsMayRun ==
    ASSUME NEW c \in Clusters \cup {None}
    PROVE  /\ MayRun(Idle) /\ MayRun(Dead)
           /\ MayRun(StatusCall("clear", c, <<>>))
           /\ c # None => MayRun(StatusCall("load", c, <<>>))
  <1>1. <<>> \in Seq(ChainOps)
    OBVIOUS
  <1> QED
    BY <1>1 DEF MayRun, StatusCall, StatusCalls

\* A chain is for the cluster that it is begun with.
LEMMA ChainIsFor ==
    ASSUME NEW ops \in Seq(ChainOps), NEW s
    PROVE  Chain(ops, s) = Idle \/ Chain(ops, s).to = s
  BY DEF Chain, StatusCall

\* What replaces calls is for the cluster that is shown, or not for statuses.
LEMMA StaleKept ==
    ASSUME StaleKnown, shown' = shown, NEW T, \A u \in Slots \ T : task'[u] = task[u],
           \A u \in Slots \cap T : ~Stale(u)', overtaken \ T \subseteq overtaken'
    PROVE  StaleKnown'
  <1>1. \A u \in Slots \ T : Stale(u)' = Stale(u)
    BY DEF Stale, Running
  <1> QED
    BY <1>1 DEF StaleKnown

\* Such calls
Harmless(k, s) == k \in {Idle, Dead} \/ KindOf(k.op) \notin StatusKinds \/ k.to \in {None, s}

LEMMA HarmlessCalls ==
    ASSUME NEW s
    PROVE  /\ Harmless(Idle, s) /\ Harmless(Dead, s)
           /\ \A c : Harmless(StatusCall("load", c, <<>>), s) /\ Harmless(StatusCall("clear", c, <<>>), s)
           /\ \A ops \in Seq(ChainOps) : Harmless(Chain(ops, s), s)
  <1>1. KindOf("load") \notin StatusKinds /\ KindOf("clear") \notin StatusKinds
    BY DEF KindOf, StatusKinds
  <1> QED
    BY <1>1, ChainIsFor DEF Harmless, StatusCall

LEMMA HarmlessIsNotStale ==
    ASSUME NEW t, Harmless(task'[t], shown')
    PROVE  ~Stale(t)'
  BY DEF Harmless, Stale, Running

-----------------------------------------------------------------------------
LEMMA PollsStart ==
    ASSUME PollsInit
    PROVE  PollsIInv
  <1>1. PagesOpen
    BY PollsAssumption DEF PollsInit, PagesOpen, NoStatuses, StatusKinds, Tabs
  <1>2. PollTasks
    BY DEF PollsInit, PollTasks, MayRun
  <1>3. StaleKnown /\ StatusesAreOwn
    BY DEF PollsInit, StaleKnown, Stale, Running, StatusesAreOwn, NoStatuses
  <1> QED
    BY <1>1, <1>2, <1>3 DEF PollsIInv

\* The same, for a single call
LEMMA StaleKeptAt ==
    ASSUME PollTasks, StaleKnown, shown' = shown, NEW t, NEW k, Harmless(k, shown),
           task' = [task EXCEPT ![t] = k], overtaken \ {t} \subseteq overtaken'
    PROVE  StaleKnown'
  <1>1. \A u \in Slots : task'[u] = IF u = t THEN k ELSE task[u]
    BY DEF PollTasks
  <1>2. \A u \in Slots \cap {t} : ~Stale(u)'
    BY <1>1, HarmlessIsNotStale
  <1> QED
    BY <1>1, <1>2, StaleKept

LEMMA MountKeeps ==
    ASSUME PollsIInv, NEW c \in Clusters, NEW x \in Tabs, NEW b \in BOOLEAN, Mount(c, x, b)
    PROVE  PollsIInv'
  <1>1. PagesOpen'
    BY PollsAssumption DEF PollsIInv, PagesOpen, Mount
  <1>2. MayRun(Chain(OnMount(x), shown))
    BY MountChainsMayRun DEF PollsIInv, PagesOpen
  <1>3. MayRun(IF b THEN StatusCall("load", c, <<>>) ELSE Idle)
    BY CallsMayRun, PollsAssumption
  <1>4. PollTasks'
    BY <1>2, <1>3, TasksChanged DEF PollsIInv, Mount
  <1> DEFINE T == {<<"mount", mounts + 1>>, <<"load", mounts + 1>>}
  <1>5. StaleKnown'
    <2>1. OnMount(x) \in Seq(ChainOps)
      BY ChainsOfTabs
    <2>2. /\ Harmless(Chain(OnMount(x), shown), shown)
          /\ Harmless(IF b THEN StatusCall("load", c, <<>>) ELSE Idle, shown)
      BY <2>1, HarmlessCalls
    <2>3. \A u \in Slots : /\ u \notin T => task'[u] = task[u]
                           /\ u \in T => \/ task'[u] = Chain(OnMount(x), shown)
                                         \/ task'[u] = IF b THEN StatusCall("load", c, <<>>) ELSE Idle
      BY DEF PollsIInv, PollTasks, Mount
    <2>4. shown' = shown /\ overtaken' = overtaken
      BY DEF Mount
    <2>5. \A u \in Slots \cap T : ~Stale(u)'
      <3>1. \A u \in Slots \cap T : Harmless(task'[u], shown')
        BY <2>2, <2>3, <2>4
      <3> QED
        BY <3>1, HarmlessIsNotStale
    <2> HIDE DEF T
    <2>6. StaleKnown /\ \A u \in Slots \ T : task'[u] = task[u]
      BY <2>3 DEF PollsIInv
    <2> QED
      BY <2>4, <2>5, <2>6, StaleKept
  <1>6. StatusesAreOwn'
    BY DEF Mount, PollsIInv, StatusesAreOwn
  <1> QED
    BY <1>1, <1>4, <1>5, <1>6 DEF PollsIInv

LEMMA AnswerKeeps ==
    ASSUME PollsIInv, NEW t \in Slots, Answer(t)
    PROVE  PollsIInv'
  <1> DEFINE k == task[t]
  <1>1. k \in StatusCalls /\ k.to \in Clusters
    BY DEF PollsIInv, PollTasks, MayRun, Answer, Running, StatusCalls
  <1>2. CASE k.op = "load"
    <2>1. loadProject(k.to, t) /\ UNCHANGED <<page, tab, mounts, fails>>
      BY <1>2 DEF Answer
    <2>2. PagesOpen'
      BY <1>1, <2>1 DEF PollsIInv, PagesOpen, loadProject, Loaded, StatusKinds
    <2>3. MayRun(IF tab = "logs" THEN Chain(OnMount(tab), k.to) ELSE Idle)
      <3>1. CASE tab = "logs"
        BY <1>1, <3>1, MountChainsMayRun DEF Tabs
      <3> QED
        BY <3>1, CallsMayRun, <1>1
    <2>4. PollTasks'
      BY <2>1, <2>3, <1>1, CallsMayRun, TasksChanged DEF PollsIInv, loadProject, Loaded
    <2>5. StaleKnown'
      <3> DEFINE e == <<"effect", t[2]>>
                 l == IF tab = "logs" THEN Chain(OnMount(tab), k.to) ELSE Idle
      <3>1. /\ task' = [task EXCEPT ![t] = Idle, ![e] = l] /\ shown' = k.to
            /\ overtaken' = {u \in Slots \ {t} : Running(u) /\ KindOf(task[u].op) \in StatusKinds}
        BY <2>1 DEF loadProject, Loaded
      <3>2. Harmless(Idle, shown') /\ Harmless(l, shown')
        <4>1. tab = "logs" => OnMount(tab) \in Seq(ChainOps)
          BY ChainsOfTabs DEF Tabs
        <4> QED
          BY <3>1, <4>1, HarmlessCalls
      <3> HIDE DEF e, l, k
      <3>3. \A u \in Slots : task'[u] \in {Idle, l} \/ (u # t /\ task'[u] = task[u])
        BY <3>1 DEF PollsIInv, PollTasks
      <3>4. ASSUME NEW u \in Slots, Stale(u)'
            PROVE  u \in overtaken'
        <4>1. u # t /\ task'[u] = task[u]
          BY <3>2, <3>3, <3>4, HarmlessIsNotStale
        <4> QED
          BY <3>1, <3>4, <4>1 DEF Stale, Running
      <3> QED
        BY <3>4 DEF StaleKnown
    <2>6. StatusesAreOwn'
      BY <2>1 DEF loadProject, Loaded, StatusesAreOwn, StatusKinds, PollsIInv, PagesOpen
    <2> QED
      BY <2>2, <2>4, <2>5, <2>6 DEF PollsIInv
  <1>3. CASE k.op = "clear"
    <2>1. clearLogs(t) /\ UNCHANGED <<page, tab, mounts, fails>>
      BY <1>3 DEF Answer
    <2>2. PagesOpen'
      BY <2>1 DEF PollsIInv, PagesOpen, clearLogs
    <2>3. PollTasks'
      BY <2>1, <1>1, CallsMayRun, TaskChanged DEF PollsIInv, clearLogs
    <2>4. StaleKnown'
      BY <2>1, HarmlessCalls, StaleKeptAt DEF PollsIInv, clearLogs
    <2>5. StatusesAreOwn'
      BY <2>1 DEF clearLogs, StatusesAreOwn, PollsIInv, PagesOpen
    <2> QED
      BY <2>2, <2>3, <2>4, <2>5 DEF PollsIInv
  <1>4. CASE k.op \notin {"load", "clear"}
    <2>1. update(k.op, k.to, t) /\ UNCHANGED <<page, tab, mounts, fails>>
      BY <1>4 DEF Answer
    <2>7. k.op \in ChainOps /\ KindOf(k.op) \in StatusKinds
      BY <1>1, <1>4 DEF StatusCalls, KindOf, ChainOps, StatusKinds
    <2>2. PagesOpen'
      BY <1>1, <2>1, <2>7 DEF PollsIInv, PagesOpen, update
    <2>3. k.rest \in Seq(ChainOps) /\ shown \in Clusters \cup {None}
      BY <1>1 DEF StatusCalls, PollsIInv, PagesOpen
    <2>4. MayRun(Chain(k.rest, shown))
      BY <2>3, ChainMayRun
    <2>5. task' = [task EXCEPT ![t] = Chain(k.rest, shown)]
      BY <2>1 DEF update
    <2>6. PollTasks'
      BY <2>4, <2>5, TaskChanged DEF PollsIInv
    <2>8. StaleKnown'
      <3>1. Harmless(Chain(k.rest, shown), shown) /\ shown' = shown /\ overtaken' = overtaken \ {t}
        BY <2>1, <2>3, HarmlessCalls DEF update
      <3> QED
        BY <2>5, <3>1, StaleKeptAt DEF PollsIInv
    <2>9. StatusesAreOwn'
      <3>1. k.to \notin {None, shown} => t \in overtaken
        BY <2>7 DEF PollsIInv, StaleKnown, Stale, Answer
      <3>2. \A x \in StatusKinds : statuses'[x] = IF x = KindOf(k.op) THEN k.to ELSE statuses[x]
        BY <2>1, <2>7 DEF update, PollsIInv, PagesOpen
      <3>3. /\ older' = IF t \in overtaken THEN older \cup {KindOf(k.op)} ELSE older \ {KindOf(k.op)}
            /\ shown' = shown
        BY <2>1 DEF update
      <3> HIDE DEF k
      <3> QED
        BY <3>1, <3>2, <3>3 DEF StatusesAreOwn, PollsIInv
    <2> QED
      BY <2>2, <2>6, <2>8, <2>9 DEF PollsIInv
  <1> QED
    BY <1>2, <1>3, <1>4

LEMMA RejectKeeps ==
    ASSUME PollsIInv, NEW t \in Slots, Reject(t)
    PROVE  PollsIInv'
  <1>1. fails' \in 0..Fails
    BY PollsAssumption DEF PollsIInv, PagesOpen, Reject
  <1>2. PagesOpen'
    BY <1>1, PollsAssumption DEF PollsIInv, PagesOpen, Reject
  <1>3. MayRun(IF t[1] = "poll" THEN Dead ELSE Idle)
    BY CallsMayRun
  <1>4. PollTasks'
    BY <1>3, TaskChanged DEF PollsIInv, Reject
  <1>5. StaleKnown'
    <2>1. Harmless(IF t[1] = "poll" THEN Dead ELSE Idle, shown)
      BY HarmlessCalls
    <2> QED
      BY <2>1, StaleKeptAt DEF PollsIInv, Reject
  <1>6. StatusesAreOwn'
    BY DEF Reject, StatusesAreOwn, PollsIInv
  <1> QED
    BY <1>2, <1>4, <1>5, <1>6 DEF PollsIInv

LEMMA PollsStep ==
    ASSUME PollsIInv, [PollsNext]_pollVars
    PROVE  PollsIInv'
  <1>1. ASSUME NEW c \in Clusters, NEW x \in Tabs, Open(c, x)
        PROVE  PollsIInv'
    BY <1>1, MountKeeps DEF Open
  <1>2. ASSUME NEW x \in Tabs, SwitchTab(x)
        PROVE  PollsIInv'
    <2>1. page \in Clusters /\ Mount(page, x, FALSE)
      BY <1>2 DEF SwitchTab, PollsIInv, PagesOpen
    <2>2. PICK c \in Clusters : c = page
      BY <2>1
    <2>3. Mount(c, x, FALSE)
      BY <2>1, <2>2
    <2> QED
      BY <2>3, MountKeeps
  <1>3. CASE Leave
    <2>1. PagesOpen'
      BY <1>3 DEF Leave, PollsIInv, PagesOpen
    <2>2. PollTasks'
      BY <1>3 DEF Leave, PollsIInv, PollTasks, MayRun, StatusCalls, Running
    <2>3. StaleKnown' /\ StatusesAreOwn'
      BY <1>3 DEF Leave, PollsIInv, StaleKnown, Stale, Running, StatusesAreOwn
    <2> QED
      BY <2>1, <2>2, <2>3 DEF PollsIInv
  <1>4. CASE Tick
    <2>1. PagesOpen'
      BY <1>4 DEF Tick, PollsIInv, PagesOpen
    <2>2. tab \in Tabs /\ shown \in Clusters \cup {None}
      BY <1>4 DEF Tick, PollsIInv, PagesOpen
    <2>3. PollTasks'
      BY <1>4, <2>2, MountChainsMayRun, TaskChanged DEF Tick, PollsIInv
    <2>4. StaleKnown'
      <3>1. Harmless(Chain(OnInterval(tab), shown), shown)
        BY <2>2, ChainsOfTabs, HarmlessCalls
      <3> QED
        BY <1>4, <3>1, StaleKeptAt DEF Tick, PollsIInv
    <2>5. StatusesAreOwn'
      BY <1>4 DEF Tick, StatusesAreOwn, PollsIInv
    <2> QED
      BY <2>1, <2>3, <2>4, <2>5 DEF PollsIInv
  <1>5. CASE Clear
    <2>1. PagesOpen'
      BY <1>5 DEF Clear, PollsIInv, PagesOpen
    <2>2. shown \in Clusters \cup {None}
      BY DEF PollsIInv, PagesOpen
    <2>3. PollTasks'
      BY <1>5, <2>2, CallsMayRun, TaskChanged DEF Clear, PollsIInv
    <2>4. StaleKnown'
      BY <1>5, HarmlessCalls, StaleKeptAt DEF Clear, PollsIInv
    <2>5. StatusesAreOwn'
      BY <1>5 DEF Clear, StatusesAreOwn, PollsIInv
    <2> QED
      BY <2>1, <2>3, <2>4, <2>5 DEF PollsIInv
  <1>6. CASE UNCHANGED pollVars
    <2>1. PagesOpen' /\ PollTasks'
      BY <1>6 DEF pollVars, PollsIInv, PagesOpen, PollTasks, MayRun, StatusCalls
    <2>2. StaleKnown' /\ StatusesAreOwn'
      BY <1>6 DEF pollVars, PollsIInv, StaleKnown, Stale, Running, StatusesAreOwn
    <2> QED
      BY <2>1, <2>2 DEF PollsIInv
  <1> QED
    BY <1>1, <1>2, <1>3, <1>4, <1>5, <1>6, AnswerKeeps, RejectKeeps DEF PollsNext

(* The statuses in cluster-management-store.ts are those of the cluster      *)
(* shown, however many pages poll: another cluster's come only with the      *)
(* answer to a call that was made before this one was loaded.                *)
THEOREM PollsInvariant == PollsSpec => []PollsInv
  <1>1. PollsInit => PollsIInv
    BY PollsStart
  <1>2. PollsIInv /\ [PollsNext]_pollVars => PollsIInv'
    BY PollsStep
  <1>3. PollsIInv => PollsInv
    BY PollsTypes DEF PollsInv, PollsIInv
  <1> QED
    BY <1>1, <1>2, <1>3, PTL DEF PollsSpec
=================================================================================
