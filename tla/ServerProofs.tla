---------------------------- MODULE ServerProofs ----------------------------
(***************************************************************************)
(* Proofs about JsonRepository: what its operations make of the content,   *)
(* its inductive invariant, what a damaged file can become, and that it    *)
(* implements SnapshotStore; then, with the history of LostUpdates, about  *)
(* the content of the file: each name once, and no update lost but by      *)
(* overlapping or interrupted saves. Next, about Operator: the bound of    *)
(* the channel, what a shutdown loses, and that it implements WorkQueue.   *)
(* Last, about Session, of which the web server keeps only a key.          *)
(***************************************************************************)
EXTENDS LostUpdates, Operator, Session, SequenceTheorems, TLAPS

(* Every operation makes a content of a content. *)
LEMMA ApplyType ==
    ASSUME NEW o \in WriteOps, NEW d \in DB
    PROVE  Apply(o, d) \in DB
<1>1. CASE o \in SaveClusterOps
  <2>1. SaveCluster(d, o.cluster) \in DB
    BY <1>1 DEF SaveClusterOps, SaveCluster, HasCluster, DB
  <2> QED BY <1>1, <2>1 DEF SaveClusterOps, Apply
<1>2. CASE o \in DeleteClusterOps
  <2>1. DeleteCluster(d, o.name) \in DB
    BY DEF DeleteCluster, DeleteLogs, DB
  <2> QED BY <1>2, <2>1 DEF DeleteClusterOps, Apply
<1>3. CASE o \in SaveLogOps
  <2>1. SaveLog(d, o.entry) \in DB
    BY <1>3 DEF SaveLogOps, SaveLog, DB
  <2> QED BY <1>3, <2>1 DEF SaveLogOps, Apply
<1>4. CASE o \in DeleteLogsOps
  <2>1. DeleteLogs(d, o.name) \in DB
    BY DEF DeleteLogs, DB
  <2> QED BY <1>4, <2>1 DEF DeleteLogsOps, Apply
<1> QED BY <1>1, <1>2, <1>3, <1>4 DEF WriteOps

(* No operation makes a second record of a name. *)
LEMMA ApplyUnique ==
    ASSUME NEW o \in WriteOps, NEW d \in DB, NamesUnique(d)
    PROVE  NamesUnique(Apply(o, d))
<1>1. CASE o \in SaveClusterOps
  <2>1. NamesUnique(SaveCluster(d, o.cluster))
    <3>1. CASE HasCluster(d, o.cluster.name)
      <4>1. SaveCluster(d, o.cluster).clusters =
              {IF c.name = o.cluster.name THEN o.cluster ELSE c : c \in d.clusters}
        BY <3>1 DEF SaveCluster, DB
      <4> QED BY <4>1 DEF NamesUnique
    <3>2. CASE ~HasCluster(d, o.cluster.name)
      <4>1. SaveCluster(d, o.cluster).clusters = d.clusters \cup {o.cluster}
        BY <3>2 DEF SaveCluster, DB
      <4> QED BY <3>2, <4>1 DEF NamesUnique, HasCluster
    <3> QED BY <3>1, <3>2
  <2> QED BY <1>1, <2>1 DEF SaveClusterOps, Apply
<1>2. CASE o \in DeleteClusterOps
  <2>1. NamesUnique(DeleteCluster(d, o.name))
    BY DEF DeleteCluster, DeleteLogs, NamesUnique, DB
  <2> QED BY <1>2, <2>1 DEF DeleteClusterOps, Apply
<1>3. CASE o \in SaveLogOps
  <2>1. NamesUnique(SaveLog(d, o.entry))
    BY DEF SaveLog, NamesUnique, DB
  <2> QED BY <1>3, <2>1 DEF SaveLogOps, Apply
<1>4. CASE o \in DeleteLogsOps
  <2>1. NamesUnique(DeleteLogs(d, o.name))
    BY DEF DeleteLogs, NamesUnique, DB
  <2> QED BY <1>4, <2>1 DEF DeleteLogsOps, Apply
<1> QED BY <1>1, <1>2, <1>3, <1>4 DEF WriteOps
-----------------------------------------------------------------------------

LEMMA EmptyType == EmptyDB \in DB
BY DEF EmptyDB, DB

(* RepoInv is inductive: every error path of load and save gives the mutex  *)
(* back and forgets the data, whatever the number of threads.               *)
THEOREM RepoInvariant == Spec => []RepoInv
<1> USE DEF RepoInv, TypeOK, MutexHolder, HoldsData, WritersWrite, OnlyUpRuns,
            FileUsable, Truncated, Writing, NoData, Torn, Inside, PcState
<1>1. Init => RepoInv
  BY EmptyType, NoThreadAssumption, UnreadableAssumption, MissingAssumption DEF Init
<1>2. RepoInv /\ [Next]_vars => RepoInv'
  <2> SUFFICES ASSUME RepoInv, [Next]_vars
               PROVE  RepoInv'
    OBVIOUS
  <2> USE NoThreadAssumption, UnreadableAssumption, MissingAssumption
  <2>1. CASE Start \/ CreateFile \/ FileCreated
    BY <2>1, EmptyType DEF Start, CreateFile, FileCreated
  <2>2. CASE Crash
    BY <2>2 DEF Crash
  <2>3. ASSUME NEW t \in Threads, NEW o \in WriteOps \cup {ReadOp}, Call(t, o)
        PROVE  RepoInv'
    BY <2>3 DEF Call, Goto
  <2>4. ASSUME NEW t \in Threads, LockLoad(t) \/ LockSave(t)
        PROVE  RepoInv'
    BY <2>4 DEF LockLoad, LockSave, Goto, Lock
  <2>5. ASSUME NEW t \in Threads, Return(t)
        PROVE  RepoInv'
    BY <2>5 DEF Return, Goto, Forget
  <2>6. ASSUME NEW t \in Threads, Read(t)
        PROVE  RepoInv'
    BY <2>6 DEF Read, Goto, Unlock
  <2>7. ASSUME NEW t \in Threads, ReadFails(t)
        PROVE  RepoInv'
    BY <2>7 DEF ReadFails, Goto, Unlock
  <2>8. ASSUME NEW t \in Threads, OpenTruncates(t)
        PROVE  RepoInv'
    BY <2>8 DEF OpenTruncates, Goto
  <2>9. ASSUME NEW t \in Threads, OpenFails(t) \/ WriteFails(t)
        PROVE  RepoInv'
    BY <2>9 DEF OpenFails, WriteFails, Goto, Unlock, Forget
  <2>10. ASSUME NEW t \in Threads, Write(t)
         PROVE  RepoInv'
    <3>1. Apply(op[t], data[t]) \in DB
      BY <2>10, ApplyType DEF Write, Goto
    <3> QED BY <2>10, <3>1 DEF Write, Goto, Unlock, Forget
  <2>11. CASE UNCHANGED vars
    BY <2>11 DEF vars
  <2> QED BY <2>1, <2>2, <2>3, <2>4, <2>5, <2>6, <2>7, <2>8, <2>9, <2>10, <2>11
          DEF Next, Step, Inner
<1> QED BY <1>1, <1>2, PTL DEF Spec

(* A damaged database is not overwritten by any operation: once no thread   *)
(* holds data, the file stays as the failed save left it, for any number of *)
(* threads, until a start cannot open it.                                   *)
THEOREM RepoDamageStays == Spec => OnlyStartsErase
<1> DEFINE Erased == process = "down" /\ process' = "creating"
<1>1. RepoInv /\ [Next]_vars => [Bricked => Bricked' \/ Erased]_vars
  <2> SUFFICES ASSUME RepoInv, Next, Bricked, ~Erased
               PROVE  Bricked'
    OBVIOUS
  <2> USE UnreadableAssumption, MissingAssumption DEF Bricked, RepoInv, TypeOK, Torn
  <2>1. CASE Start \/ CreateFile \/ FileCreated \/ Crash
    BY <2>1 DEF Start, CreateFile, FileCreated, Crash
  <2>2. ASSUME NEW t \in Threads, NEW o \in WriteOps \cup {ReadOp}, Call(t, o)
        PROVE  Bricked'
    BY <2>2 DEF Call, Goto
  <2>3. ASSUME NEW t \in Threads, LockLoad(t) \/ Return(t)
        PROVE  Bricked'
    BY <2>3 DEF LockLoad, Return, Goto
  <2>4. ASSUME NEW t \in Threads, LockSave(t) \/ Inner(t)
        PROVE  Bricked'
    BY <2>4 DEF LockSave, Inner, Read, ReadFails, OpenTruncates, OpenFails, Write,
                WriteFails, Goto
  <2> QED BY <2>1, <2>2, <2>3, <2>4 DEF Next, Step
<1> QED BY <1>1, RepoInvariant, PTL DEF Spec, OnlyStartsErase
-----------------------------------------------------------------------------
\* What the threads see, while one of them is writing and while none is.
VisibleCases ==
    /\ \A t \in Threads : pc[t] = "write" => VisibleDB = Apply(op[t], data[t])
    /\ process = "up" /\ ~Writing => VisibleDB = file

LEMMA VisibleInvariant == Spec => []VisibleCases
<1>1. RepoInv => VisibleCases
  <2> SUFFICES ASSUME RepoInv
               PROVE  VisibleCases
    OBVIOUS
  <2>1. ASSUME NEW t \in Threads, pc[t] = "write"
        PROVE  VisibleDB = Apply(op[t], data[t])
    <3>1. \A u \in Threads : pc[u] = "write" => u = t
      BY <2>1 DEF RepoInv, MutexHolder, Inside
    <3>2. process = "up" /\ file # Missing
      BY <2>1 DEF RepoInv, OnlyUpRuns, FileUsable
    <3> QED BY <2>1, <3>1, <3>2 DEF VisibleDB, Writing
  <2>2. process = "up" /\ ~Writing => VisibleDB = file
    BY DEF RepoInv, FileUsable, VisibleDB
  <2> QED BY <2>1, <2>2 DEF VisibleCases
<1> QED BY <1>1, RepoInvariant, PTL

(* The file and its mutex implement the store whose load and save are       *)
(* atomic: a save takes effect when the file is truncated, a failed write   *)
(* and a crash in the middle of one are the store's Damage.                 *)
THEOREM RepoRefinesStore == Spec => RefinesStore
<1>1. Init => Store!Init
  <2>1. ASSUME Init
        PROVE  VisibleDB = EmptyDB
    BY <2>1, MissingAssumption DEF Init, VisibleDB, Writing
  <2>2. EmptyDB \in Store!DB /\ Store!NamesUnique(EmptyDB)
    BY EmptyType DEF EmptyDB, Store!DB, DB, Store!Cluster, Cluster, Store!LogEntry, LogEntry,
       Store!NamesUnique
  <2>3. ASSUME Init
        PROVE  VisibleData = [t \in Threads |-> NoData]
    BY <2>3 DEF Init, VisibleData
  <2> QED BY <2>1, <2>2, <2>3 DEF Store!Init, NoData, Store!NoData
<1>2. RepoInv /\ VisibleCases /\ VisibleCases' /\ [Next]_vars
        => [Store!Next]_(Store!vars)
  <2> SUFFICES ASSUME RepoInv, VisibleCases, VisibleCases', [Next]_vars
               PROVE  \/ VisibleDB' = VisibleDB /\ VisibleData' = VisibleData
                      \/ Store!Next
    BY DEF Store!vars
  <2> USE UnreadableAssumption, MissingAssumption DEF Torn, NoData, Store!NoData
  <2>a. TypeOK /\ MutexHolder /\ HoldsData /\ WritersWrite /\ OnlyUpRuns /\ FileUsable /\ Truncated
    BY DEF RepoInv
  <2>1. CASE Start \/ FileCreated
    <3>1. ~Writing /\ ~Writing'
      BY <2>1, <2>a DEF Writing, OnlyUpRuns, Start, FileCreated
    <3>2. VisibleDB' = VisibleDB
      BY <2>1, <3>1 DEF VisibleDB, Start, FileCreated
    <3>3. VisibleData' = VisibleData
      BY <2>1 DEF VisibleData, Start, FileCreated
    <3> QED BY <3>2, <3>3
  <2>12. CASE CreateFile
    <3>1. \A t \in Threads : VisibleData[t] = NoData
      BY <2>12, <2>a DEF CreateFile, VisibleData, HoldsData, OnlyUpRuns, TypeOK
    <3>2. VisibleDB' = Store!EmptyDB
      BY <2>12 DEF CreateFile, VisibleDB, EmptyDB, Store!EmptyDB
    <3>3. VisibleData' = VisibleData
      BY <2>12 DEF CreateFile, VisibleData
    <3>4. Store!Replace
      BY <3>1, <3>2, <3>3 DEF Store!Replace
    <3> QED BY <3>4 DEF Store!Next
  <2>2. CASE Crash
    <3>1. VisibleData' = [t \in Threads |-> NoData]
      BY <2>2 DEF Crash, VisibleData
    <3>2. ~Writing'
      BY <2>2 DEF Crash, Writing
    <3>3. process' = "down" /\ file' = file
      BY <2>2 DEF Crash
    <3>4. VisibleDB' = Unreadable \/ VisibleDB' = VisibleDB
      BY <2>2, <2>a, <3>2, <3>3 DEF Crash, VisibleDB, Truncated, FileUsable, TypeOK
    <3>5. Store!Forget(Threads) \/ Store!Damage(Threads)
      BY <3>1, <3>4 DEF Store!Forget, Store!Damage
    <3> QED BY <3>5 DEF Store!Next
  \* The steps of a thread that leave the file and the other threads alone.
  <2>b. ASSUME NEW t \in Threads, process = "up", UNCHANGED <<file, process>>,
               pc[t] # "write", pc'[t] # "write",
               \A u \in Threads \ {t} : pc'[u] = pc[u] /\ op'[u] = op[u] /\ data'[u] = data[u]
        PROVE  VisibleDB' = VisibleDB
    <3>1. CASE \E u \in Threads : pc[u] = "write"
      <4>1. PICK u \in Threads : pc[u] = "write"
        BY <3>1
      <4>2. u # t
        BY <2>b, <4>1
      <4> QED BY <2>b, <4>1, <4>2 DEF VisibleCases
    <3>2. CASE ~\E u \in Threads : pc[u] = "write"
      <4>1. ~Writing /\ ~Writing'
        BY <2>b, <3>2 DEF Writing
      <4> QED BY <2>b, <4>1 DEF VisibleCases
    <3> QED BY <3>1, <3>2
  <2>3. ASSUME NEW t \in Threads, NEW o \in WriteOps \cup {ReadOp}, Call(t, o)
        PROVE  VisibleDB' = VisibleDB /\ VisibleData' = VisibleData
    <3> USE <2>3, <2>a DEF Call, Goto, TypeOK
    <3>1. VisibleDB' = VisibleDB
      BY <2>b
    <3>2. VisibleData' = VisibleData
      BY DEF VisibleData
    <3> QED BY <3>1, <3>2
  <2>4. ASSUME NEW t \in Threads, LockLoad(t) \/ LockSave(t) \/ ReadFails(t)
        PROVE  VisibleDB' = VisibleDB /\ VisibleData' = VisibleData
    <3> USE <2>4, <2>a DEF LockLoad, LockSave, ReadFails, Goto, TypeOK, OnlyUpRuns
    <3>1. VisibleDB' = VisibleDB
      BY <2>b
    <3>2. VisibleData' = VisibleData
      BY DEF VisibleData
    <3> QED BY <3>1, <3>2
  <2>5. ASSUME NEW t \in Threads, Read(t)
        PROVE  Store!Load(t)
    <3> USE <2>5, <2>a DEF Read, Goto, TypeOK, OnlyUpRuns
    <3>1. VisibleDB' = VisibleDB
      BY <2>b
    <3>2. ~Writing
      BY DEF Writing, MutexHolder, Inside
    <3>3. VisibleDB = file
      BY <3>2 DEF VisibleCases
    <3>4. VisibleData[t] = NoData
      BY DEF VisibleData, HoldsData
    <3>5. VisibleData' = [VisibleData EXCEPT ![t] = file]
      BY DEF VisibleData
    <3> QED BY <3>1, <3>3, <3>4, <3>5 DEF Store!Load
  <2>6. ASSUME NEW t \in Threads, Return(t) \/ OpenFails(t)
        PROVE  Store!Forget({t})
    <3> USE <2>6, <2>a DEF Return, OpenFails, Goto, Forget, TypeOK, OnlyUpRuns
    <3>1. VisibleDB' = VisibleDB
      BY <2>b
    <3>2. VisibleData' = [u \in Threads |-> IF u \in {t} THEN NoData ELSE VisibleData[u]]
      BY DEF VisibleData
    <3> QED BY <3>1, <3>2 DEF Store!Forget
  <2>7. ASSUME NEW t \in Threads, OpenTruncates(t)
        PROVE  Store!Commit(t, op[t])
    <3> USE <2>7, <2>a DEF OpenTruncates, Goto, TypeOK
    <3>1. VisibleDB' = Apply(op[t], data[t])
      BY DEF VisibleCases
    <3>2. VisibleData[t] = data[t] /\ data[t] # NoData
      BY DEF VisibleData, HoldsData
    <3>3. VisibleData' = [VisibleData EXCEPT ![t] = NoData]
      BY DEF VisibleData
    <3>4. Store!Apply(op[t], data[t]) = Apply(op[t], data[t])
      BY DEF Apply, Store!Apply, SaveCluster, Store!SaveCluster, HasCluster, Store!HasCluster,
             DeleteCluster, Store!DeleteCluster, DeleteLogs, Store!DeleteLogs,
             SaveLog, Store!SaveLog
    <3> QED BY <3>1, <3>2, <3>3, <3>4 DEF Store!Commit
  <2>8. ASSUME NEW t \in Threads, Write(t)
        PROVE  VisibleDB' = VisibleDB /\ VisibleData' = VisibleData
    <3> USE <2>8, <2>a DEF Write, Goto, Forget, TypeOK, OnlyUpRuns
    <3>1. ~Writing'
      BY DEF Writing, MutexHolder, Inside
    <3>2. VisibleDB' = VisibleDB
      BY <3>1 DEF VisibleCases
    <3>3. VisibleData' = VisibleData
      BY DEF VisibleData
    <3> QED BY <3>2, <3>3
  <2>9. ASSUME NEW t \in Threads, WriteFails(t)
        PROVE  Store!Damage({t})
    <3> USE <2>9, <2>a DEF WriteFails, Goto, Forget, TypeOK, OnlyUpRuns
    <3>1. ~Writing'
      BY DEF Writing, MutexHolder, Inside
    <3>2. VisibleDB' = Unreadable
      BY <3>1 DEF VisibleCases, Truncated, Writing
    <3>3. VisibleData' = [u \in Threads |-> IF u \in {t} THEN NoData ELSE VisibleData[u]]
      BY DEF VisibleData
    <3> QED BY <3>2, <3>3 DEF Store!Damage
  <2>10. CASE UNCHANGED vars
    BY <2>10 DEF vars, VisibleDB, VisibleData, Writing
  <2>11. ASSUME NEW t \in Threads, OpenTruncates(t)
         PROVE  Store!Next
    <3>1. op[t] \in Store!WriteOps
      BY <2>11, <2>a DEF OpenTruncates, Goto, WritersWrite, WriteOps, Store!WriteOps,
         SaveClusterOps, DeleteClusterOps, SaveLogOps, DeleteLogsOps,
         Store!SaveClusterOps, Store!DeleteClusterOps, Store!SaveLogOps, Store!DeleteLogsOps,
         Cluster, Store!Cluster, LogEntry, Store!LogEntry
    <3> QED BY <2>7, <2>11, <3>1 DEF Store!Next
  <2> QED BY <2>1, <2>2, <2>3, <2>4, <2>5, <2>6, <2>8, <2>9, <2>10, <2>11, <2>12
          DEF Next, Step, Inner, Store!Next
<1> QED BY <1>1, <1>2, RepoInvariant, VisibleInvariant, PTL
        DEF Spec, RefinesStore, Store!Spec
-----------------------------------------------------------------------------
(* The content of the file *)
(* Whatever the number of threads, clusters and failures, neither the file  *)
(* nor a snapshot of it ever holds two records of one name.                 *)
THEOREM RepoUniqueNames == Spec => []UniqueNames
<1>0. NamesUnique(EmptyDB)
  BY DEF NamesUnique, EmptyDB
<1>1. Init => UniqueNames
  BY <1>0, MissingAssumption DEF Init, UniqueNames
<1>2. RepoInv /\ UniqueNames /\ [Next]_vars => UniqueNames'
  <2> SUFFICES ASSUME RepoInv, UniqueNames, [Next]_vars
               PROVE  UniqueNames'
    OBVIOUS
  <2>a. TypeOK /\ HoldsData /\ WritersWrite
    BY DEF RepoInv
  <2> USE <1>0, <2>a, UnreadableAssumption, MissingAssumption
          DEF UniqueNames, TypeOK, NoData, Torn
  <2>1. CASE Start \/ CreateFile \/ FileCreated
    BY <2>1 DEF Start, CreateFile, FileCreated
  <2>2. CASE Crash
    BY <2>2 DEF Crash
  <2>3. ASSUME NEW t \in Threads, NEW o \in WriteOps \cup {ReadOp}, Call(t, o)
        PROVE  UniqueNames'
    BY <2>3 DEF Call
  <2>4. ASSUME NEW t \in Threads,
               LockLoad(t) \/ ReadFails(t) \/ LockSave(t) \/ OpenTruncates(t)
        PROVE  UniqueNames'
    BY <2>4 DEF LockLoad, ReadFails, LockSave, OpenTruncates
  <2>5. ASSUME NEW t \in Threads, Return(t) \/ OpenFails(t) \/ WriteFails(t)
        PROVE  UniqueNames'
    BY <2>5 DEF Return, OpenFails, WriteFails, Forget
  <2>6. ASSUME NEW t \in Threads, Read(t)
        PROVE  UniqueNames'
    BY <2>6 DEF Read
  <2>7. ASSUME NEW t \in Threads, Write(t)
        PROVE  UniqueNames'
    <3>1. op[t] \in WriteOps /\ data[t] # NoData
      BY <2>7 DEF Write, Goto, WritersWrite, HoldsData
    <3>2. NamesUnique(Apply(op[t], data[t]))
      BY <3>1, ApplyUnique
    <3> QED BY <2>7, <3>2 DEF Write, Forget
  <2>8. CASE UNCHANGED vars
    BY <2>8 DEF vars
  <2> QED BY <2>1, <2>2, <2>3, <2>4, <2>5, <2>6, <2>7, <2>8 DEF Next, Step, Inner
<1> QED BY <1>1, <1>2, RepoInvariant, PTL DEF Spec
-----------------------------------------------------------------------------
(* The history only watches: without it every behaviour is one of the       *)
(* repository, so that what holds of Spec holds here.                       *)
THEOREM HistoryWatches == HSpec => Spec
<1>1. HInit => Init
  BY DEF HInit
<1>2. [HNext]_hvars => [Next]_vars
  BY DEF HNext, HRead, HWrite, HWriteFails, HCrash, HCreateFile, Elsewhere, Next, Step,
         Inner, hvars, vars
<1> QED BY <1>1, <1>2, PTL DEF HSpec, Spec

(* LostInv holds in every state of the repository with its history. *)
THEOREM LostInvariant == HSpec => []LostInv
<1> USE DEF LostInv, HTypeOK, KeepsEveryUpdate, FreshSnapshots
<1>1. HInit => LostInv
  BY EmptyType, MissingAssumption DEF HInit, Init
<1>2. RepoInv /\ RepoInv' /\ LostInv /\ [HNext]_hvars => LostInv'
  <2> SUFFICES ASSUME RepoInv, RepoInv', LostInv, [HNext]_hvars
               PROVE  LostInv'
    OBVIOUS
  <2>a. TypeOK /\ HoldsData /\ WritersWrite /\ OnlyUpRuns /\ FileUsable /\ Truncated
    BY DEF RepoInv
  <2> USE <2>a, UnreadableAssumption, MissingAssumption
          DEF TypeOK, NoData, Torn, history
  <2>0. ASSUME Lose
        PROVE  LostInv'
    BY <2>0, EmptyType DEF Lose
  <2>1. ASSUME NEW t \in Threads, HRead(t)
        PROVE  LostInv'
    BY <2>1 DEF HRead, Read, Goto, OnlyUpRuns
  <2>2. ASSUME NEW t \in Threads, HWrite(t)
        PROVE  LostInv'
    <3> USE <2>2 DEF HWrite, Write, Goto, Forget
    <3>1. CASE lost
      BY <3>1
    <3>2. CASE ~lost /\ t \in overtaken
      BY <2>0, <3>2
    <3>3. CASE ~lost /\ t \notin overtaken
      <4>1. op[t] \in WriteOps /\ data[t] = ideal /\ process = "up"
        BY <3>3 DEF WritersWrite, HoldsData, OnlyUpRuns
      <4>2. file' = Apply(op[t], ideal) /\ file' \in DB /\ ideal' = file' /\ process' = "up"
        BY <3>3, <4>1, ApplyType DEF KeepTrack
      <4>3. /\ overtaken' = {u \in Threads \ {t} : data[u] # NoData}
            /\ lost' = lost
        BY <3>3 DEF KeepTrack
      \* Every other snapshot is older than this save, and is marked.
      <4>4. \A u \in Threads : data'[u] # NoData => u \in overtaken'
        BY <4>3
      <4> QED BY <4>2, <4>3, <4>4
    <3> QED BY <3>1, <3>2, <3>3
  <2>3. ASSUME NEW t \in Threads, HWriteFails(t)
        PROVE  LostInv'
    BY <2>0, <2>3 DEF HWriteFails
  <2>4. CASE HCrash
    <3>1. CASE Writing \/ process = "creating"
      BY <2>0, <2>4, <3>1 DEF HCrash
    <3>2. CASE ~(Writing \/ process = "creating")
      BY <2>4, <3>2 DEF HCrash, Crash
    <3> QED BY <3>1, <3>2
  <2>5. CASE Elsewhere /\ UNCHANGED history
    <3>1. CASE Start \/ FileCreated
      BY <2>5, <3>1, EmptyType DEF Start, FileCreated
    <3>2. ASSUME NEW t \in Threads,
                 \/ \E o \in WriteOps \cup {ReadOp} : Call(t, o)
                 \/ LockLoad(t) \/ ReadFails(t) \/ LockSave(t)
          PROVE  LostInv'
      BY <2>5, <3>2 DEF Call, LockLoad, ReadFails, LockSave
    <3>3. ASSUME NEW t \in Threads, Return(t) \/ OpenFails(t)
          PROVE  LostInv'
      BY <2>5, <3>3 DEF Return, OpenFails, Forget
    <3>4. ASSUME NEW t \in Threads, OpenTruncates(t)
          PROVE  LostInv'
      BY <2>5, <3>4 DEF OpenTruncates, Goto, OnlyUpRuns
    <3> QED BY <2>5, <3>1, <3>2, <3>3, <3>4 DEF Elsewhere
  <2>6. CASE UNCHANGED hvars
    BY <2>6 DEF hvars
  <2>7. CASE HCreateFile
    <3>1. CASE ideal = EmptyDB
      BY <2>7, <3>1 DEF HCreateFile, CreateFile
    <3>2. CASE ideal # EmptyDB
      BY <2>0, <2>7, <3>2 DEF HCreateFile
    <3> QED BY <3>1, <3>2
  <2> QED BY <2>1, <2>2, <2>3, <2>4, <2>5, <2>6, <2>7 DEF HNext
<1> QED BY <1>1, <1>2, RepoInvariant, HistoryWatches, PTL DEF HSpec

(* Updates are lost only by overlapping saves, by a save cut short, or by a *)
(* start that cannot open the file.                                         *)
THEOREM UpdatesKept == HSpec => []KeepsEveryUpdate
<1>1. LostInv => KeepsEveryUpdate
  BY DEF LostInv
<1> QED BY <1>1, LostInvariant, PTL
-----------------------------------------------------------------------------
(* The channel of the operator and its worker, for every number of requests *)
(* and every capacity: a part of the server on its own.                     *)

(* Types are kept, and the channel never holds more than its capacity. *)
THEOREM OperatorTypeOK == ChannelSpec => []ChannelTypeOK
<1> USE DEF ChannelTypeOK, Gone
<1>1. ChannelInit => ChannelTypeOK
  <2>1. <<>> \in Seq(Requests) /\ Len(<<>>) = 0
    OBVIOUS
  <2>2. Len(<<>>) <= Capacity
    BY <2>1, CapacityAssumption
  <2> QED BY <2>1, <2>2 DEF ChannelInit
<1>2. ChannelTypeOK /\ [ChannelNext]_channelVars => ChannelTypeOK'
  <2> SUFFICES ASSUME ChannelTypeOK, [ChannelNext]_channelVars
               PROVE  ChannelTypeOK'
    OBVIOUS
  <2>1. ASSUME NEW r \in Requests, Mark(r) \/ Reject(r) \/ SendFails(r)
        PROVE  ChannelTypeOK'
    BY <2>1 DEF Mark, Reject, SendFails, Handle
  <2>2. ASSUME NEW r \in Requests, Send(r)
        PROVE  ChannelTypeOK'
    <3>1. queue' \in Seq(Requests) /\ Len(queue') = Len(queue) + 1
      BY <2>2 DEF Send
    <3>2. Len(queue) < Capacity
      BY <2>2 DEF Send
    <3>3. Len(queue') <= Capacity
      BY <3>1, <3>2, CapacityAssumption
    <3> QED BY <2>2, <3>1, <3>3 DEF Send, Handle
  <2>3. CASE Receive
    <3>1. queue' \in Seq(Requests) /\ Len(queue') = Len(queue) - 1 /\ Head(queue) \in Requests
      BY <2>3 DEF Receive
    <3>2. Len(queue') <= Capacity
      BY <3>1, CapacityAssumption
    <3> QED BY <2>3, <3>1, <3>2 DEF Receive
  <2>4. CASE FindNothing \/ WakeUp \/ Dispatched \/ Panic
    BY <2>4 DEF FindNothing, WakeUp, Dispatched, Panic
  <2>5. CASE Drop \/ Join
    BY <2>5 DEF Drop, Join
  <2>6. CASE UNCHANGED channelVars
    BY <2>6 DEF channelVars
  <2> QED BY <2>1, <2>2, <2>3, <2>4, <2>5, <2>6 DEF ChannelNext, Deliver, Work
<1> QED BY <1>1, <1>2, PTL DEF ChannelSpec

(* An orderly stop loses no event that was sent before the worker's last    *)
(* sleep began.                                                             *)
THEOREM OperatorStop == ChannelSpec => []StopLosesOnlyLate
<1> USE DEF ChannelTypeOK, StopLosesOnlyLate, Gone
<1>1. ChannelInit => StopLosesOnlyLate
  BY DEF ChannelInit
<1>2. ChannelTypeOK /\ StopLosesOnlyLate /\ [ChannelNext]_channelVars => StopLosesOnlyLate'
  <2> SUFFICES ASSUME ChannelTypeOK, StopLosesOnlyLate, [ChannelNext]_channelVars
               PROVE  StopLosesOnlyLate'
    OBVIOUS
  <2>1. ASSUME NEW r \in Requests, Mark(r) \/ Reject(r) \/ SendFails(r)
        PROVE  StopLosesOnlyLate'
    BY <2>1 DEF Mark, Reject, SendFails, Handle
  <2>2. ASSUME NEW r \in Requests, Send(r)
        PROVE  StopLosesOnlyLate'
    <3>1. \A i \in 1..Len(queue') : queue'[i] = r \/ (i \in 1..Len(queue) /\ queue'[i] = queue[i])
      BY <2>2 DEF Send
    <3> QED BY <2>2, <3>1 DEF Send
  <2>3. CASE Receive \/ Dispatched \/ Panic
    BY <2>3 DEF Receive, Dispatched, Panic
  <2>4. CASE FindNothing
    BY <2>4 DEF FindNothing
  <2>5. CASE WakeUp
    BY <2>5 DEF WakeUp
  <2>6. CASE Drop \/ Join
    BY <2>6 DEF Drop, Join
  <2>7. CASE UNCHANGED channelVars
    BY <2>7 DEF channelVars
  <2> QED BY <2>1, <2>2, <2>3, <2>4, <2>5, <2>6, <2>7 DEF ChannelNext, Deliver, Work
<1> QED BY <1>1, <1>2, OperatorTypeOK, PTL DEF ChannelSpec

(* The channel and the worker implement the work queue. *)
THEOREM OperatorRefinesQueue == ChannelSpec => RefinesQueue
<1>1. ChannelInit => Queue!Init
  BY DEF ChannelInit, Queue!Init, Gone
<1>2. ChannelTypeOK /\ [ChannelNext]_channelVars => [Queue!Next]_(Queue!vars)
  <2> SUFFICES ASSUME ChannelTypeOK, [ChannelNext]_channelVars
               PROVE  [Queue!Next]_(Queue!vars)
    OBVIOUS
  <2> USE DEF ChannelTypeOK, Gone, Queue!vars
  <2>1. ASSUME NEW r \in Requests, Mark(r) \/ Reject(r) \/ SendFails(r)
        PROVE  UNCHANGED Queue!vars
    BY <2>1 DEF Mark, Reject, SendFails
  <2>2. ASSUME NEW r \in Requests, Send(r)
        PROVE  Queue!Next
    BY <2>2 DEF Send, Queue!Next, Queue!Accept
  <2>3. CASE Receive
    BY <2>3 DEF Receive, Queue!Next, Queue!Take
  <2>4. CASE FindNothing \/ Dispatched \/ Drop \/ Join
    BY <2>4 DEF FindNothing, Dispatched, Drop, Join
  <2>5. CASE WakeUp \/ Panic
    BY <2>5 DEF WakeUp, Panic, Queue!Next, Queue!Close
  <2>6. CASE UNCHANGED channelVars
    BY <2>6 DEF channelVars
  <2> QED BY <2>1, <2>2, <2>3, <2>4, <2>5, <2>6 DEF ChannelNext, Deliver, Work
<1> QED BY <1>1, <1>2, OperatorTypeOK, PTL DEF ChannelSpec, RefinesQueue, Queue!Spec
-----------------------------------------------------------------------------
LEMMA MoveHead ==
    ASSUME NEW s \in Seq(Requests), NEW q \in Seq(Requests), q # <<>>
    PROVE  Append(s, Head(q)) \o Tail(q) = s \o q
OBVIOUS

LEMMA AppendNew ==
    ASSUME NEW s \in Seq(Requests), NEW r \in Requests,
           r \notin ToSet(s), IsInjective(s)
    PROVE  /\ ToSet(Append(s, r)) = ToSet(s) \cup {r}
           /\ IsInjective(Append(s, r))
<1> DEFINE a == Append(s, r)
<1>1. Len(s) \in Nat /\ DOMAIN s = 1..Len(s) /\ DOMAIN a = 1..(Len(s) + 1)
  OBVIOUS
<1>2. \A i \in DOMAIN a : a[i] = IF i = Len(s) + 1 THEN r ELSE s[i]
  OBVIOUS
<1>3. \A i \in DOMAIN s : s[i] # r
  BY DEF ToSet
<1> HIDE DEF a
<1>4. ToSet(a) = ToSet(s) \cup {r}
  BY <1>1, <1>2 DEF ToSet
<1>5. ASSUME NEW i \in DOMAIN a, NEW j \in DOMAIN a, a[i] = a[j]
      PROVE  i = j
  <2>1. CASE i = Len(s) + 1
    BY <1>1, <1>2, <1>3, <1>5, <2>1
  <2>2. CASE j = Len(s) + 1
    BY <1>1, <1>2, <1>3, <1>5, <2>2
  <2>3. CASE i \in DOMAIN s /\ j \in DOMAIN s
    BY <1>1, <1>2, <1>5, <2>3 DEF IsInjective
  <2> QED BY <1>1, <2>1, <2>2, <2>3
<1> QED BY <1>4, <1>5 DEF IsInjective, a

(* Every accepted request is in the channel or taken, exactly once. *)
THEOREM OperatorAcceptedOnce == ChannelSpec => []AcceptedOnce
<1>1. ChannelInit => AcceptedOnce
  <2>1. ASSUME ChannelInit
        PROVE  Accepted = <<>>
    BY <2>1 DEF ChannelInit, Accepted
  <2>2. ToSet(<<>>) = {} /\ IsInjective(<<>>)
    BY DEF ToSet, IsInjective
  <2>3. ASSUME ChannelInit
        PROVE  \A r \in Requests : handler[r] # "accepted"
    BY <2>3 DEF ChannelInit
  <2> QED BY <2>1, <2>2, <2>3 DEF AcceptedOnce
<1>2. ChannelTypeOK /\ AcceptedOnce /\ [ChannelNext]_channelVars => AcceptedOnce'
  <2> SUFFICES ASSUME ChannelTypeOK, AcceptedOnce, [ChannelNext]_channelVars
               PROVE  AcceptedOnce'
    OBVIOUS
  <2> USE DEF ChannelTypeOK, AcceptedOnce
  <2>1. ASSUME NEW r \in Requests, Mark(r) \/ Reject(r) \/ SendFails(r)
        PROVE  AcceptedOnce'
    <3>1. Accepted' = Accepted
      BY <2>1 DEF Mark, Reject, SendFails, Accepted
    <3> QED BY <2>1, <3>1 DEF Mark, Reject, SendFails, Handle
  <2>2. ASSUME NEW r \in Requests, Send(r)
        PROVE  AcceptedOnce'
    <3>1. Accepted' = Append(Accepted, r)
      BY <2>2 DEF Send, Accepted
    <3>2. Accepted \in Seq(Requests)
      BY DEF Accepted
    <3>3. r \notin ToSet(Accepted)
      BY <2>2 DEF Send, Handle
    <3>4. ToSet(Accepted') = ToSet(Accepted) \cup {r} /\ IsInjective(Accepted')
      BY <3>1, <3>2, <3>3, AppendNew
    <3> QED BY <2>2, <3>4 DEF Send, Handle
  <2>3. CASE Receive
    <3>1. Accepted' = Accepted
      BY <2>3, MoveHead DEF Receive, Accepted
    <3> QED BY <2>3, <3>1 DEF Receive
  <2>4. CASE FindNothing \/ WakeUp \/ Dispatched \/ Panic \/ Drop \/ Join
    <3>1. Accepted' = Accepted /\ handler' = handler
      BY <2>4 DEF FindNothing, WakeUp, Dispatched, Panic, Drop, Join, Accepted
    <3> QED BY <3>1
  <2>5. CASE UNCHANGED channelVars
    BY <2>5 DEF channelVars, Accepted
  <2> QED BY <2>1, <2>2, <2>3, <2>4, <2>5 DEF ChannelNext, Deliver, Work
<1> QED BY <1>1, <1>2, OperatorTypeOK, PTL DEF ChannelSpec

(* The invariant of the channel and its worker: the channel is within its   *)
(* capacity, loses and repeats nothing, and a stop loses only late events.  *)
THEOREM OperatorInvariant == ChannelSpec => []OperatorInv
BY OperatorTypeOK, OperatorAcceptedOnce, OperatorStop, PTL DEF OperatorInv
-----------------------------------------------------------------------------
(***************************************************************************)
(* The sessions, for any tabs and any bounds on what happens.  No cookie   *)
(* is of a key that is still to come, so that a cookie that does not work  *)
(* never works again (Past); a denial that has not arrived yet is          *)
(* therefore still true of its cookie (Denials), and that is all that      *)
(* StaysIn says.                                                           *)
(***************************************************************************)
KnownCookie(c) == c # None => c.key <= key /\ c.ticket <= issued

Past == \A r \in requests : KnownCookie(r.cookie) /\ KnownCookie(r.grants)

Denials ==
    \A r \in requests :
        r.kind \in {"hostIp", "call"} /\ r.answer = "401" /\ Works(r.cookie) => unreachable

Failures == \A r \in requests : r.answer = "failed" => faults > 0

PollsAreCalls == \A r \in requests : r.polls => r.kind = "call"

SessionIInv == SessionInv /\ Past /\ Denials /\ Failures /\ PollsAreCalls

THEOREM SessionInitInv == SessionInit => SessionIInv
<1> SUFFICES ASSUME SessionInit PROVE SessionIInv
    OBVIOUS
<1> bound \in Bound
    BY SessionAssumption DEF SessionInit
<1>1. SessionTypeOK
  <2>1. bound.restarts \in Nat /\ bound.logins \in Nat /\ bound.faults \in Nat
        BY DEF Bound
  <2>2. /\ page \in [Tabs -> {"login", "list"}] /\ finished \in [Tabs -> BOOLEAN]
        /\ requests = {} /\ cookie = None /\ unreachable = FALSE /\ bound \in Bounds
        BY DEF SessionInit
  <2>3. key = 0 /\ issued = 0 /\ expired = {} /\ faults = 0
        BY DEF SessionInit
  <2>4. 0 \in 0..bound.restarts /\ 0 \in 0..bound.logins /\ 0 \in 0..bound.faults
        BY <2>1
  <2> QED
        BY <2>2, <2>3, <2>4 DEF SessionTypeOK, Of
<1>2. PollsUnlessFailed /\ Past /\ Denials /\ Failures /\ PollsAreCalls
      BY DEF SessionInit, PollsUnlessFailed, Past, Denials, Failures, PollsAreCalls
<1> QED
    BY <1>1, <1>2 DEF SessionIInv, SessionInv

(* A step of the server that gives requests an answer changes their answers *)
(* and what they grant, and nothing that SessionTypeOK says of polls.       *)
AnsweredAs(r, x) ==
    /\ requests' = (requests \ {r}) \cup {x}
    /\ x \in WebRequests
    /\ x.tab = r.tab /\ x.kind = r.kind /\ x.polls = r.polls /\ x.cookie = r.cookie

LEMMA AnswerKeeps ==
    ASSUME SessionIInv, UNCHANGED <<bound, browser>>, NEW r \in requests, NEW x, AnsweredAs(r, x),
           key' = key, issued <= issued', issued' \in 0..bound.logins,
           faults' \in 0..bound.faults, faults <= faults', unreachable' \in BOOLEAN,
           unreachable => unreachable', expired' = expired, r.answer = None,
           x.answer = "failed" => faults' > 0,
           x.kind \in {"hostIp", "call"} /\ x.answer = "401" /\ Works(x.cookie) => unreachable',
           KnownCookie(x.grants)'
    PROVE  SessionIInv'
<1> USE DEF SessionIInv, SessionInv, browser
<1> bound \in Bound
    BY SessionAssumption DEF SessionTypeOK
<1>1. SessionTypeOK'
  <2>1. requests' \subseteq WebRequests'
        BY DEF SessionTypeOK, AnsweredAs, WebRequests, Cookies
  <2>2. ASSUME NEW t \in Tabs, NEW a \in Of(t)', a.polls
        PROVE  /\ page'[t] = "list" /\ ~finished'[t]
               /\ \A other \in Of(t)' : other.polls => other = a
        BY <2>2 DEF SessionTypeOK, AnsweredAs, Of
  <2> QED
        BY <2>1, <2>2 DEF SessionTypeOK, Cookies, Bound
<1>2. PollsUnlessFailed'
  <2> SUFFICES ASSUME NEW t \in Tabs, page[t] = "list", Dead(t)' PROVE faults' > 0
        BY DEF PollsUnlessFailed
  <2>1. Dead(t)
        BY DEF Dead, Of, AnsweredAs
  <2> QED
        BY <2>1 DEF PollsUnlessFailed, SessionTypeOK, Bound
<1>3. Past'
      BY DEF Past, AnsweredAs, KnownCookie, SessionTypeOK, WebRequests, Cookies, Bound
<1>4. Denials'
      BY DEF Denials, AnsweredAs, Works, Readable
<1>5. Failures'
      BY DEF Failures, AnsweredAs, SessionTypeOK, Bound
<1>6. PollsAreCalls'
      BY DEF PollsAreCalls, AnsweredAs
<1> QED
    BY <1>1, <1>2, <1>3, <1>4, <1>5, <1>6

LEMMA RequestType ==
    ASSUME SessionTypeOK, NEW t \in Tabs, NEW kind \in Kinds, NEW polls \in BOOLEAN
    PROVE  Request(t, kind, polls) \in WebRequests
BY DEF Request, WebRequests, SessionTypeOK

(* A page that is left takes its poll with it, a page that is mounted has   *)
(* not polled yet.                                                          *)
LEMMA GoToKeeps ==
    ASSUME SessionIInv, UNCHANGED <<bound, server, faults, unreachable>>,
           NEW t \in Tabs, NEW where \in {"login", "list"}, NEW rs, rs \subseteq requests,
           cookie' \in Cookies \cup {None}, KnownCookie(cookie'),
           \A r \in requests : r.polls /\ (page[t] = where \/ r.tab # t) => r \in rs,
           GoTo(t, where, rs)
    PROVE  SessionIInv'
<1> USE DEF SessionIInv, SessionInv, server
<1> DEFINE asked == {[Request(t, kind, FALSE) EXCEPT !.cookie = cookie'] : kind \in {"hostIp", "call"}}
<1> KnownCookie(cookie)
    BY DEF SessionTypeOK, KnownCookie
<1>1. CASE page[t] = where
  <2>1. page' = page /\ finished' = finished /\ requests' = rs
        BY <1>1 DEF GoTo, SessionTypeOK
  <2>2. SessionTypeOK'
        BY <2>1 DEF SessionTypeOK, WebRequests, Cookies, Of, KnownCookie
  <2>3. PollsUnlessFailed'
        BY <1>1, <2>1 DEF PollsUnlessFailed, Dead, Of, SessionTypeOK
  <2>4. Past' /\ Denials' /\ Failures' /\ PollsAreCalls'
        BY <2>1 DEF Past, Denials, Failures, PollsAreCalls, KnownCookie, Works, Readable
  <2> QED
      BY <2>2, <2>3, <2>4
<1>2. CASE page[t] # where
  <2>1. /\ page' = [page EXCEPT ![t] = where] /\ finished' = [finished EXCEPT ![t] = TRUE]
        /\ requests' \subseteq Forgotten(t, rs) \cup asked
        BY <1>2 DEF GoTo, SessionTypeOK
  <2>2. ASSUME NEW x \in asked
        PROVE  /\ x \in WebRequests /\ ~x.polls /\ x.tab = t /\ x.answer = None /\ x.grants = None
               /\ KnownCookie(x.cookie)
    <3>1. PICK kind \in {"hostIp", "call"} :
              x = [Request(t, kind, FALSE) EXCEPT !.cookie = cookie']
          OBVIOUS
    <3>2. x = [tab |-> t, kind |-> kind, polls |-> FALSE, cookie |-> cookie', answer |-> None,
               grants |-> None]
          BY <3>1 DEF Request
    <3> QED
        BY <3>2 DEF WebRequests, Kinds
  <2>3. ASSUME NEW x \in Forgotten(t, rs)
        PROVE  \E r \in requests :
                   /\ x \in WebRequests /\ x.tab = r.tab /\ x.kind = r.kind /\ x.cookie = r.cookie
                   /\ x.answer = r.answer /\ x.grants = r.grants
                   /\ x.polls => x = r /\ r.tab # t
    <3>1. PICK r \in rs : x = IF r.tab = t THEN [r EXCEPT !.polls = FALSE] ELSE r
          BY DEF Forgotten
    <3>2. r \in requests /\ r \in WebRequests
          BY DEF SessionTypeOK
    <3> QED
        BY <3>1, <3>2 DEF WebRequests
  <2>4. ASSUME NEW u \in Tabs, u # t, NEW r \in requests, r.tab = u, r.polls
        PROVE  r \in requests'
    <3>1. r \in rs
          BY <2>4
    <3>2. r = IF r.tab = t THEN [r EXCEPT !.polls = FALSE] ELSE r
          BY <2>4
    <3>3. r \in Forgotten(t, rs)
          BY <3>1, <3>2 DEF Forgotten
    <3> QED
        BY <1>2, <3>3 DEF GoTo
  <2>5. SessionTypeOK'
    <3>1. requests' \subseteq WebRequests'
          BY <2>1, <2>2, <2>3 DEF SessionTypeOK, WebRequests, Cookies
    <3>2. ASSUME NEW u \in Tabs, NEW r \in Of(u)', r.polls
          PROVE  /\ page'[u] = "list" /\ ~finished'[u]
                 /\ \A other \in Of(u)' : other.polls => other = r
      <4>1. ASSUME NEW x \in Of(u)', x.polls
            PROVE  x \in Of(u) /\ u # t
        <5>1. x \in requests' /\ x.tab = u
              BY <4>1 DEF Of
        <5>2. x \in Forgotten(t, rs)
              BY <2>1, <2>2, <4>1, <5>1
        <5>3. x \in requests /\ x.tab # t
              BY <2>3, <4>1, <5>2
        <5> QED
            BY <5>1, <5>3 DEF Of
      <4> QED
          BY <2>1, <3>2, <4>1 DEF SessionTypeOK
    <3>3. page' \in [Tabs -> {"login", "list"}] /\ finished' \in [Tabs -> BOOLEAN]
          BY <2>1 DEF SessionTypeOK
    <3> QED
        BY <3>1, <3>2, <3>3 DEF SessionTypeOK, KnownCookie, Cookies
  <2>6. PollsUnlessFailed'
    <3> SUFFICES ASSUME NEW u \in Tabs, page'[u] = "list", Dead(u)' PROVE faults' > 0
        BY DEF PollsUnlessFailed
    <3>1. u # t
          BY <2>1 DEF Dead, SessionTypeOK
    <3>2. page[u] = "list" /\ finished'[u] = finished[u]
          BY <2>1, <3>1 DEF SessionTypeOK
    <3>3. Dead(u)
          BY <2>4, <3>1, <3>2 DEF Dead, Of
    <3> QED
        BY <3>2, <3>3 DEF PollsUnlessFailed
  <2>7. Past' /\ Denials' /\ Failures' /\ PollsAreCalls'
    <3> SUFFICES ASSUME NEW x \in requests'
                 PROVE  /\ KnownCookie(x.cookie)' /\ KnownCookie(x.grants)'
                        /\ x.kind \in {"hostIp", "call"} /\ x.answer = "401" /\ Works(x.cookie)'
                               => unreachable'
                        /\ x.answer = "failed" => faults' > 0
                        /\ x.polls => x.kind = "call"
        BY DEF Past, Denials, Failures, PollsAreCalls
    <3>1. CASE x \in asked
          BY <2>2, <3>1, SessionAssumption DEF KnownCookie
    <3>2. CASE x \in Forgotten(t, rs)
          BY <2>3, <3>2 DEF Past, Denials, Failures, PollsAreCalls, KnownCookie, Works, Readable
    <3> QED
        BY <2>1, <3>1, <3>2
  <2> QED
      BY <2>5, <2>6, <2>7
<1> QED
    BY <1>1, <1>2

LEMMA AskKeeps ==
    ASSUME SessionIInv, UNCHANGED <<bound, server, browser, faults, unreachable>>,
           NEW t \in Tabs, NEW kind \in Kinds,
           requests' = requests \cup {Request(t, kind, FALSE)}
    PROVE  SessionIInv'
<1> USE DEF SessionIInv, SessionInv, server, browser
<1> DEFINE x == Request(t, kind, FALSE)
<1>1. /\ x \in WebRequests /\ ~x.polls /\ x.tab = t /\ x.answer = None /\ x.grants = None
      /\ x.cookie = cookie
  <2>1. FALSE \in BOOLEAN
        OBVIOUS
  <2> QED
      BY <2>1, RequestType DEF Request
<1> HIDE DEF x
<1>2. SessionTypeOK'
  <2>1. requests' \subseteq WebRequests'
        BY <1>1 DEF SessionTypeOK, WebRequests, Cookies, x
  <2>2. ASSUME NEW u \in Tabs, NEW r \in Of(u)', r.polls
        PROVE  r \in Of(u)
        BY <1>1, <2>2 DEF Of, x
  <2> QED
      BY <2>1, <2>2 DEF SessionTypeOK, Cookies
<1>3. PollsUnlessFailed'
      BY DEF PollsUnlessFailed, Dead, Of
<1>4. Past' /\ Denials' /\ Failures' /\ PollsAreCalls'
      BY <1>1, SessionAssumption
      DEF SessionTypeOK, Past, Denials, Failures, PollsAreCalls, KnownCookie, Works, Readable, x
<1> QED
    BY <1>2, <1>3, <1>4

THEOREM SessionStepInv == SessionIInv /\ [SessionNext]_<<sessionVars, bound>> => SessionIInv'
<1> SUFFICES ASSUME SessionIInv, [SessionNext]_<<sessionVars, bound>> PROVE SessionIInv'
    OBVIOUS
<1> USE DEF SessionIInv, SessionInv
<1> bound \in Bound /\ bound.opened \subseteq Tabs
    BY SessionAssumption DEF SessionTypeOK, Bound
<1> KnownCookie(cookie)
    BY DEF SessionTypeOK, KnownCookie
<1>1. CASE UNCHANGED <<sessionVars, bound>>
      BY <1>1 DEF sessionVars, server, browser, SessionTypeOK, PollsUnlessFailed, Dead, Past, Denials, Failures,
                  PollsAreCalls, KnownCookie, Works, Readable, WebRequests, Cookies, Of
<1>2. ASSUME UNCHANGED bound, NEW t \in Tabs, submitLogin(t) PROVE SessionIInv'
      BY <1>2, AskKeeps DEF submitLogin, Asks, Kinds
<1>3. ASSUME UNCHANGED bound, NEW t \in Tabs, onLogoutHandler(t) PROVE SessionIInv'
      BY <1>3, AskKeeps DEF onLogoutHandler, Asks, Kinds
<1>4. ASSUME UNCHANGED bound, NEW t \in Tabs, Open(t) PROVE SessionIInv'
      BY <1>4, GoToKeeps DEF Open, SessionTypeOK, KnownCookie
<1>5. ASSUME UNCHANGED bound, NEW t \in Tabs, Leave(t) PROVE SessionIInv'
      BY <1>5, GoToKeeps DEF Leave, SessionTypeOK, KnownCookie
<1>6. ASSUME UNCHANGED bound, NEW t \in Tabs, useInterval(t) PROVE SessionIInv'
  <2> DEFINE x == Request(t, "call", TRUE)
  <2>1. /\ x \in WebRequests /\ x.polls /\ x.tab = t /\ x.answer = None /\ x.grants = None
        /\ x.cookie = cookie /\ x.kind = "call"
    <3>1. TRUE \in BOOLEAN /\ "call" \in Kinds
          BY DEF Kinds
    <3> QED
        BY <3>1, RequestType DEF Request
  <2>2. /\ page[t] = "list" /\ finished[t] /\ finished' = [finished EXCEPT ![t] = FALSE]
        /\ requests' = requests \cup {x} /\ cookie' = cookie /\ page' = page
        /\ UNCHANGED <<server, faults, unreachable>>
        BY <1>6 DEF useInterval
  <2> HIDE DEF x
  <2>3. SessionTypeOK'
    <3>1. requests' \subseteq WebRequests'
          BY <2>1, <2>2, <1>6 DEF SessionTypeOK, WebRequests, Cookies
    <3>2. ASSUME NEW u \in Tabs, NEW r \in Of(u)', r.polls
          PROVE  /\ page'[u] = "list" /\ ~finished'[u]
                 /\ \A other \in Of(u)' : other.polls => other = r
      <4>1. CASE u = t
        <5>1. \A y \in Of(t) : ~y.polls
              BY <2>2 DEF SessionTypeOK
        <5>2. \A y \in Of(t)' : y.polls => y = x
              BY <2>2, <5>1 DEF Of
        <5> QED
            BY <2>2, <3>2, <4>1, <5>2 DEF SessionTypeOK
      <4>2. CASE u # t
        <5>1. Of(u)' = Of(u) /\ finished'[u] = finished[u]
              BY <2>1, <2>2, <4>2 DEF Of, SessionTypeOK
        <5> QED
            BY <2>2, <3>2, <5>1 DEF SessionTypeOK
      <4> QED
          BY <4>1, <4>2
    <3> QED
        BY <2>2, <3>1, <3>2, <1>6 DEF SessionTypeOK, server, Cookies
  <2>4. PollsUnlessFailed'
        BY <2>1, <2>2 DEF PollsUnlessFailed, Dead, Of, SessionTypeOK
  <2>5. Past' /\ Denials' /\ Failures' /\ PollsAreCalls'
        BY <2>1, <2>2, SessionAssumption
        DEF Past, Denials, Failures, PollsAreCalls, KnownCookie, Works, Readable, server
  <2> QED
      BY <2>3, <2>4, <2>5
<1>7. ASSUME UNCHANGED bound, Restart PROVE SessionIInv'
  <2>1. /\ key' = key + 1 /\ key < bound.restarts
        /\ UNCHANGED <<issued, expired, browser, requests, faults, unreachable>>
        BY <1>7 DEF Restart
  <2>2. SessionTypeOK'
    <3>1. key' \in 0..bound.restarts
          BY <2>1 DEF SessionTypeOK, Bound
    <3>2. WebRequests' = WebRequests /\ Cookies' = Cookies /\ key <= key'
          BY <1>7, <2>1 DEF WebRequests, Cookies, SessionTypeOK
    <3>3. cookie # None => cookie.key <= key' /\ cookie.ticket <= issued
          BY <2>1 DEF SessionTypeOK, Cookies
    <3> QED
        BY <1>7, <2>1, <3>1, <3>2, <3>3 DEF SessionTypeOK, browser, Of
  <2>3. PollsUnlessFailed' /\ Failures' /\ PollsAreCalls'
        BY <2>1 DEF PollsUnlessFailed, Dead, Of, Failures, PollsAreCalls, browser
  <2>4. ASSUME NEW r \in requests
        PROVE  /\ KnownCookie(r.cookie)' /\ KnownCookie(r.grants)'
               /\ ~Works(r.cookie)'
        BY <2>1 DEF Past, SessionTypeOK, WebRequests, Cookies, KnownCookie, Works, Readable
  <2> QED
      BY <2>1, <2>2, <2>3, <2>4 DEF Past, Denials
<1>8. ASSUME UNCHANGED bound, Expire PROVE SessionIInv'
  <2>1. /\ expired \subseteq expired' /\ expired' \subseteq 1..issued
        /\ UNCHANGED <<key, issued, browser, requests, faults, unreachable>>
        BY <1>8 DEF Expire, SessionTypeOK
  <2>2. SessionTypeOK'
        BY <1>8, <2>1 DEF SessionTypeOK, browser, WebRequests, Cookies, Of
  <2>3. PollsUnlessFailed' /\ Failures' /\ PollsAreCalls' /\ Past' /\ Denials'
        BY <2>1 DEF PollsUnlessFailed, Dead, Of, Failures, PollsAreCalls, browser, Past, Denials,
                    KnownCookie, Works, Readable
  <2> QED
      BY <2>2, <2>3
<1>9. ASSUME UNCHANGED bound, NEW r \in requests, login(r) PROVE SessionIInv'
  <2> r \in WebRequests /\ r.kind = "login" /\ r.answer = None
      BY <1>9 DEF login, SessionTypeOK
  <2> UNCHANGED <<key, expired, browser, faults, unreachable>>
      BY <1>9 DEF login
  <2>1. CASE /\ issued < bound.logins /\ issued' = issued + 1
             /\ requests' = (requests \ {r})
                    \cup {[r EXCEPT !.answer = "ok",
                                    !.grants = [key |-> key, ticket |-> issued + 1]]}
    <3>1. PICK granted : granted = [key |-> key, ticket |-> issued + 1]
          OBVIOUS
    <3>2. granted \in Cookies /\ granted.key <= key' /\ granted.ticket <= issued'
          BY <2>1, <3>1 DEF SessionTypeOK, Cookies, Bound
    <3>3. PICK x : x = [r EXCEPT !.answer = "ok", !.grants = granted]
          OBVIOUS
    <3>4. /\ AnsweredAs(r, x) /\ x.answer = "ok" /\ x.kind = "login" /\ KnownCookie(x.grants)'
          BY <2>1, <3>1, <3>2, <3>3 DEF AnsweredAs, WebRequests, KnownCookie
    <3>5. issued <= issued' /\ issued' \in 0..bound.logins
          BY <2>1 DEF SessionTypeOK, Bound
    <3> QED
        BY <1>9, <3>4, <3>5, AnswerKeeps DEF SessionTypeOK, Bound
  <2>2. CASE Answer(r, "401") /\ UNCHANGED issued
    <3> DEFINE x == [r EXCEPT !.answer = "401"]
    <3>1. AnsweredAs(r, x) /\ x.answer = "401" /\ x.grants = r.grants /\ x.kind = "login"
          BY <2>2 DEF AnsweredAs, Answer, WebRequests
    <3>2. KnownCookie(x.grants)'
          BY <2>2, <3>1 DEF Past, KnownCookie
    <3> HIDE DEF x
    <3> QED
        BY <1>9, <2>2, <3>1, <3>2, AnswerKeeps DEF SessionTypeOK, Bound
  <2> QED
      BY <1>9, <2>1, <2>2 DEF login
<1>10. ASSUME UNCHANGED bound, NEW r \in requests, Serve(r) PROVE SessionIInv'
  <2>1. PICK a \in {"ok", "401"} : /\ Answer(r, a)
                                   /\ a = IF r.kind = "logout" \/ Readable(r.cookie) THEN "ok" ELSE "401"
        BY <1>10 DEF Serve
  <2>2. PICK x : x = [r EXCEPT !.answer = a]
        OBVIOUS
  <2>3. /\ r \in WebRequests /\ r.answer = None
        /\ UNCHANGED <<key, issued, expired, browser, faults, unreachable>>
        BY <1>10 DEF Serve, SessionTypeOK, server
  <2>4. AnsweredAs(r, x) /\ x.answer = a /\ KnownCookie(x.grants)'
        BY <2>1, <2>2, <2>3 DEF AnsweredAs, Answer, WebRequests, Past, KnownCookie
  <2>5. x.kind \in {"hostIp", "call"} /\ x.answer = "401" => ~Works(x.cookie)
        BY <2>1, <2>2, <2>3, <2>4, <1>10 DEF AnsweredAs, Works, Serve
  <2> QED
      BY <1>10, <2>3, <2>4, <2>5, AnswerKeeps DEF SessionTypeOK, Bound
<1>11. ASSUME UNCHANGED bound, NEW r \in requests, GuardedCall(r) PROVE SessionIInv'
  <2>1. /\ r \in WebRequests /\ r.answer = None /\ UNCHANGED <<key, issued, expired, browser>>
        BY <1>11 DEF GuardedCall, SessionTypeOK, server
  <2>2. PICK a \in {"ok", "401"} :
            /\ Answer(r, a)
            /\ a = "401" /\ Works(r.cookie) => unreachable'
            /\ faults <= faults' /\ faults' \in 0..bound.faults
            /\ unreachable' \in BOOLEAN /\ (unreachable => unreachable')
    <3>1. CASE /\ Answer(r, IF Works(r.cookie) THEN "ok" ELSE "401")
               /\ UNCHANGED <<faults, unreachable>>
      <4>1. unreachable' \in BOOLEAN /\ (unreachable => unreachable')
            BY <3>1, Zenon DEF SessionTypeOK
      <4>2. faults <= faults' /\ faults' \in 0..bound.faults
            BY <3>1 DEF SessionTypeOK, Bound
      <4>3. CASE Works(r.cookie)
            BY <3>1, <4>1, <4>2, <4>3
      <4>4. CASE ~Works(r.cookie)
            BY <3>1, <4>1, <4>2, <4>4
      <4> QED
          BY <4>3, <4>4
    <3>2. CASE /\ faults < bound.faults /\ Answer(r, "401")
               /\ faults' = faults + 1 /\ unreachable' = TRUE
      <4>1. faults <= faults' /\ faults' \in 0..bound.faults
            BY <3>2 DEF SessionTypeOK, Bound
      <4> QED
          BY <3>2, <4>1
    <3> QED
        BY <1>11, <3>1, <3>2, Zenon DEF GuardedCall, logged_in
  <2>3. PICK x : x = [r EXCEPT !.answer = a]
        OBVIOUS
  <2>4. AnsweredAs(r, x) /\ x.answer = a /\ KnownCookie(x.grants)'
        BY <2>1, <2>2, <2>3 DEF AnsweredAs, Answer, WebRequests, Past, KnownCookie
  <2> QED
      BY <1>11, <2>1, <2>2, <2>4, AnswerKeeps DEF SessionTypeOK, Bound, AnsweredAs
<1>12. ASSUME UNCHANGED bound, NEW r \in requests, Fail(r) PROVE SessionIInv'
  <2>1. /\ r \in WebRequests /\ r.answer = None /\ Answer(r, "failed")
        /\ UNCHANGED <<key, issued, expired, browser, unreachable>>
        BY <1>12 DEF Fail, SessionTypeOK, server
  <2>2. faults' \in 0..bound.faults /\ faults' > 0 /\ faults <= faults'
        BY <1>12 DEF Fail, SessionTypeOK, Bound
  <2>3. PICK x : x = [r EXCEPT !.answer = "failed"]
        OBVIOUS
  <2>4. AnsweredAs(r, x) /\ x.answer = "failed" /\ KnownCookie(x.grants)'
        BY <2>1, <2>3 DEF AnsweredAs, Answer, WebRequests, Past, KnownCookie
  <2> QED
      BY <1>12, <2>1, <2>2, <2>4, AnswerKeeps DEF SessionTypeOK, Bound
<1>13. ASSUME UNCHANGED bound, NEW r \in requests, Arrive(r) PROVE SessionIInv'
  <2> DEFINE t    == r.tab
             rest == requests \ {r}
  <2>1. /\ r \in WebRequests /\ t \in Tabs /\ rest \subseteq requests /\ r.answer # None
        /\ UNCHANGED <<server, faults, unreachable>>
        BY <1>13 DEF Arrive, SessionTypeOK, WebRequests
  <2>2. cookie' \in Cookies \cup {None} /\ KnownCookie(cookie')
        BY <1>13, <2>1 DEF Arrive, SetCookie, SessionTypeOK, Past, KnownCookie, WebRequests
  <2>3. ASSUME NEW where \in {"login", "list"}, GoTo(t, where, rest), ~r.polls \/ page[t] # where
        PROVE  SessionIInv'
        BY <1>13, <2>1, <2>2, <2>3, GoToKeeps
  <2>4. CASE Redirect(r)
    <3>1. GoTo(t, "login", rest)
          BY <1>13, <2>4 DEF Arrive
    <3>2. ~r.polls \/ page[t] # "login"
          BY <2>1 DEF SessionTypeOK, Of
    <3> QED
        BY <2>3, <3>1, <3>2
  <2>5. CASE ~Redirect(r) /\ r.kind \in {"login", "logout"} /\ r.answer = "ok"
    <3>1. ~r.polls
          BY <2>5 DEF PollsAreCalls
    <3>2. \E where \in {"login", "list"} : GoTo(t, where, rest)
          BY <1>13, <2>5 DEF Arrive
    <3> QED
        BY <2>3, <3>1, <3>2
  <2>6. CASE ~Redirect(r) /\ ~(r.kind \in {"login", "logout"} /\ r.answer = "ok")
    <3>1. /\ finished' = [finished EXCEPT ![t] = @ \/ (r.polls /\ r.answer = "ok")]
          /\ requests' = rest /\ page' = page
          BY <1>13, <2>6 DEF Arrive
    <3>2. SessionTypeOK'
      <4>1. requests' \subseteq WebRequests'
            BY <1>13, <2>1, <3>1 DEF SessionTypeOK, WebRequests, Cookies
      <4>2. ASSUME NEW u \in Tabs, NEW p \in Of(u)', p.polls
            PROVE  /\ page'[u] = "list" /\ ~finished'[u]
                   /\ \A other \in Of(u)' : other.polls => other = p
        <5>1. p \in Of(u) /\ p # r
              BY <3>1, <4>2 DEF Of
        <5>2. finished'[u] = finished[u]
              BY <2>1, <3>1, <4>2, <5>1 DEF SessionTypeOK, Of
        <5> QED
            BY <3>1, <4>2, <5>1, <5>2 DEF SessionTypeOK, Of
      <4> QED
          BY <1>13, <2>1, <2>2, <3>1, <4>1, <4>2 DEF SessionTypeOK, server, Cookies, KnownCookie
    <3>3. PollsUnlessFailed'
      <4> SUFFICES ASSUME NEW u \in Tabs, page[u] = "list", Dead(u)', ~Dead(u) PROVE faults > 0
          BY <2>1, <3>1 DEF PollsUnlessFailed
      <4>1. ~finished'[u] /\ ~finished[u]
            BY <2>1, <3>1 DEF Dead, SessionTypeOK
      <4>2. u = t /\ r.polls
            BY <3>1, <4>1 DEF Dead, Of
      <4>3. r.answer = "failed"
            BY <2>1, <2>6, <3>1, <4>1, <4>2 DEF Redirect, WebRequests, SessionTypeOK
      <4> QED
          BY <4>3 DEF Failures
    <3>4. Past' /\ Denials' /\ Failures' /\ PollsAreCalls'
          BY <2>1, <3>1 DEF Past, Denials, Failures, PollsAreCalls, KnownCookie, Works, Readable, server
    <3> QED
        BY <3>2, <3>3, <3>4
  <2> QED
      BY <2>4, <2>5, <2>6
<1> QED
    BY <1>1, <1>2, <1>3, <1>4, <1>5, <1>6, <1>7, <1>8, <1>9, <1>10, <1>11, <1>12, <1>13 DEF SessionNext

(* The cookies of the browser, and the polls: whatever is asked and answered *)
(* in whatever order, and however often the server is started again.         *)
THEOREM SessionInvariant == SessionSpec => []SessionInv
<1>1. SessionIInv => SessionInv
      BY DEF SessionIInv
<1> QED
    BY <1>1, SessionInitInv, SessionStepInv, PTL DEF SessionSpec

(* A session that works is left for the login page only by its user, or by   *)
(* the answer to a request of another session.                               *)
THEOREM SessionStaysIn == SessionSpec => StaysIn
<1> DEFINE Asked(t) == \/ Leave(t)
                       \/ \E r \in Of(t) : /\ Arrive(r)
                                           /\ r.kind \in {"login", "logout"} \/ r.cookie # cookie
           Stays(t) == page[t] = "list" /\ page'[t] = "login" /\ Works(cookie) /\ ~unreachable => Asked(t)
<1>1. ASSUME SessionIInv, [SessionNext]_<<sessionVars, bound>> PROVE [\A t \in Tabs : Stays(t)]_sessionVars
  <2> SUFFICES ASSUME SessionNext, NEW t \in Tabs, page[t] = "list", page'[t] = "login", Works(cookie),
                      ~unreachable
               PROVE  Asked(t)
      BY <1>1
  <2> page \in [Tabs -> {"login", "list"}] /\ requests \subseteq WebRequests
      /\ bound.opened \subseteq Tabs
      BY <1>1, SessionAssumption DEF SessionIInv, SessionInv, SessionTypeOK, Bound
  <2>1. \/ \E u \in bound.opened : Open(u) \/ Leave(u)
        \/ \E r \in requests : Arrive(r)
        BY DEF SessionNext, submitLogin, onLogoutHandler, useInterval, Restart, Expire, login, Serve, GuardedCall,
               Fail, browser, server
  <2>2. ASSUME NEW u \in Tabs, Open(u) PROVE FALSE
        BY <2>2 DEF Open, GoTo
  <2>3. ASSUME NEW u \in Tabs, Leave(u) PROVE Leave(t)
    <3>1. u = t
          BY <2>3 DEF Leave, GoTo
    <3> QED
        BY <2>3, <3>1
  <2>4. ASSUME NEW r \in requests, Arrive(r) PROVE Asked(t)
    <3>1. r \in WebRequests /\ r.tab \in Tabs /\ r.tab = t
          BY <2>4 DEF Arrive, GoTo, WebRequests
    <3>2. CASE r.kind \in {"login", "logout"} \/ r.cookie # cookie
          BY <2>4, <3>1, <3>2 DEF Of
    <3>3. CASE r.kind \in {"hostIp", "call"} /\ r.cookie = cookie
      <4>1. ~Redirect(r)
            BY <1>1, <3>3 DEF Redirect, SessionIInv, Denials
      <4>2. page' = page
            BY <2>4, <3>3, <4>1 DEF Arrive
      <4> QED
          BY <4>2
    <3> QED
        BY <3>1, <3>2, <3>3 DEF WebRequests, Kinds
  <2> QED
      BY <2>1, <2>2, <2>3, <2>4
<1>2. [\A t \in Tabs : Stays(t)]_sessionVars => [\A t \in Tabs :
         page[t] = "list" /\ page'[t] = "login" /\ Works(cookie) /\ ~unreachable =>
            \/ Leave(t)
            \/ \E r \in Of(t) : Arrive(r) /\ (r.kind \in {"login", "logout"} \/ r.cookie # cookie)
      ]_sessionVars
      OBVIOUS
<1> QED
    BY <1>1, <1>2, SessionInitInv, SessionStepInv, PTL DEF SessionSpec, StaysIn
=============================================================================
