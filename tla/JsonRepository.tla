--------------------------- MODULE JsonRepository ---------------------------
(***************************************************************************)
(* core/src/repository_json.rs: one JSON file, a mutex taken by load and   *)
(* by save separately, and the process that owns them.                     *)
(*                                                                         *)
(* Every thread of the process (the web server's and the operator's) runs  *)
(* one operation at a time: it locks, reads the file, unlocks; a writing   *)
(* operation then changes the data in memory, locks again, opens the file  *)
(* with truncation, writes it and unlocks.  Opening, reading and writing   *)
(* may fail, and the process may die between any two steps and be started  *)
(* again.  A file that was truncated and not fully written is Torn: its    *)
(* text is a proper prefix of a JSON object, which does not parse.         *)
(***************************************************************************)
EXTENDS DbData

CONSTANTS Threads,
          NoThread,
          Missing      \* there is no file

ASSUME NoThreadAssumption == NoThread \notin Threads
ASSUME MissingAssumption  == Missing \notin DB \cup {Unreadable}

Torn    == Unreadable
ReadOp  == [op |-> "read"]      \* get_clusters, get_cluster and logs

VARIABLES file,     \* DB content, Torn or Missing
          mutex,    \* the thread that holds the mutex, or NoThread
          pc,       \* where each thread is in its operation
          op,       \* the operation each thread runs
          data,     \* the data each thread has loaded, or NoData
          process   \* "down", "creating" a first file in new(), or "up"

vars == <<file, mutex, pc, op, data, process>>

Inside  == {"load", "open", "write"}
PcState == Inside \cup {"idle", "lockLoad", "return", "lockSave"}

TypeOK ==
    /\ file \in DB \cup {Torn, Missing}
    /\ mutex \in Threads \cup {NoThread}
    /\ pc \in [Threads -> PcState]
    /\ op \in [Threads -> WriteOps \cup {ReadOp}]
    /\ data \in [Threads -> DB \cup {NoData}]
    /\ process \in {"down", "creating", "up"}

Init ==
    /\ file \in {Missing, EmptyDB}
    /\ mutex = NoThread
    /\ pc = [t \in Threads |-> "idle"]
    /\ op = [t \in Threads |-> ReadOp]
    /\ data = [t \in Threads |-> NoData]
    /\ process = "down"

Goto(t, from, to) ==
    /\ pc[t] = from
    /\ pc' = [pc EXCEPT ![t] = to]

Lock(t)   == mutex = NoThread /\ mutex' = t
Unlock(t) == mutex' = NoThread

Forget(t) == data' = [data EXCEPT ![t] = NoData]
-----------------------------------------------------------------------------
(* JsonRepository::new.  A file that was opened and does not parse is an   *)
(* error: the process does not start.  A file that cannot be opened, be it *)
(* missing or there, is replaced by an empty one.                          *)
Start ==
    /\ process = "down"
    /\ file \in DB
    /\ process' = "up"
    /\ UNCHANGED <<file, mutex, pc, op, data>>

\* File::open fails for whatever reason, and save can open the file.
CreateFile ==
    /\ process = "down"
    /\ file' = Torn
    /\ process' = "creating"
    /\ UNCHANGED <<mutex, pc, op, data>>

FileCreated ==
    /\ process = "creating"
    /\ file' = EmptyDB
    /\ process' = "up"
    /\ UNCHANGED <<mutex, pc, op, data>>

\* The process is killed, or new() panics because it cannot write the file.
Crash ==
    /\ process # "down"
    /\ process' = "down"
    /\ mutex' = NoThread
    /\ pc' = [t \in Threads |-> "idle"]
    /\ data' = [t \in Threads |-> NoData]
    /\ op' = [t \in Threads |-> ReadOp]
    /\ UNCHANGED file
-----------------------------------------------------------------------------
Call(t, o) ==
    /\ process = "up"
    /\ Goto(t, "idle", "lockLoad")
    /\ op' = [op EXCEPT ![t] = o]
    /\ UNCHANGED <<file, mutex, data, process>>

LockLoad(t) ==
    /\ Goto(t, "lockLoad", "load")
    /\ Lock(t)
    /\ UNCHANGED <<file, op, data, process>>

\* Mutant: what does not parse is taken for an empty database.
Read_DefaultsToEmpty(t) ==
    /\ file # Missing
    /\ Goto(t, "load", IF op[t] = ReadOp THEN "return" ELSE "lockSave")
    /\ data' = [data EXCEPT ![t] = IF file = Torn THEN EmptyDB ELSE file]
    /\ Unlock(t)
    /\ UNCHANGED <<file, op, process>>

Read(t) ==
    /\ file \in DB
    /\ Goto(t, "load", IF op[t] = ReadOp THEN "return" ELSE "lockSave")
    /\ data' = [data EXCEPT ![t] = file]
    /\ Unlock(t)
    /\ UNCHANGED <<file, op, process>>

\* Mutant: the error return leaves the mutex locked.
ReadFails_KeepsLock(t) ==
    /\ Goto(t, "load", "idle")
    /\ UNCHANGED <<file, mutex, op, data, process>>

\* File::open fails, or the text does not parse.
ReadFails(t) ==
    /\ Goto(t, "load", "idle")
    /\ Unlock(t)
    /\ UNCHANGED <<file, op, data, process>>

Return(t) ==
    /\ Goto(t, "return", "idle")
    /\ Forget(t)
    /\ UNCHANGED <<file, mutex, op, process>>

\* Mutant: save relies on the lock of load.
LockSave_NoLock(t) ==
    /\ Goto(t, "lockSave", "open")
    /\ UNCHANGED <<file, mutex, op, data, process>>

LockSave(t) ==
    /\ Goto(t, "lockSave", "open")
    /\ Lock(t)
    /\ UNCHANGED <<file, op, data, process>>

OpenTruncates(t) ==
    /\ Goto(t, "open", "write")
    /\ file' = Torn
    /\ UNCHANGED <<mutex, op, data, process>>

\* Mutant: the error return leaves the mutex locked.
OpenFails_KeepsLock(t) ==
    /\ Goto(t, "open", "idle")
    /\ Forget(t)
    /\ UNCHANGED <<file, mutex, op, process>>

OpenFails(t) ==
    /\ Goto(t, "open", "idle")
    /\ Unlock(t)
    /\ Forget(t)
    /\ UNCHANGED <<file, op, process>>

\* Mutant: what was loaded is written without the change.
Write_DropsChange(t) ==
    /\ Goto(t, "write", "idle")
    /\ file' = data[t]
    /\ Unlock(t)
    /\ Forget(t)
    /\ UNCHANGED <<op, process>>

Write(t) ==
    /\ Goto(t, "write", "idle")
    /\ file' = Apply(op[t], data[t])
    /\ Unlock(t)
    /\ Forget(t)
    /\ UNCHANGED <<op, process>>

\* The disk is full: the error is returned, the file stays as far as it was written.
WriteFails(t) ==
    /\ Goto(t, "write", "idle")
    /\ Unlock(t)
    /\ Forget(t)
    /\ UNCHANGED <<file, op, process>>

Inner(t) ==
    \/ Read(t) \/ ReadFails(t)
    \/ OpenTruncates(t) \/ OpenFails(t)
    \/ Write(t) \/ WriteFails(t)

Step(t) == LockLoad(t) \/ Return(t) \/ LockSave(t) \/ Inner(t)

Next ==
    \/ Start \/ CreateFile \/ FileCreated \/ Crash
    \/ \E t \in Threads :
           Step(t) \/ \E o \in WriteOps \cup {ReadOp} : Call(t, o)

(* A thread that holds the mutex runs system calls that return.  Nothing   *)
(* is assumed of who gets the mutex next: std::sync::Mutex is not fair.    *)
Fairness == \A t \in Threads : WF_vars(Inner(t))

Spec == Init /\ [][Next]_vars /\ Fairness
-----------------------------------------------------------------------------
Writing == \E t \in Threads : pc[t] = "write"

(* The thread that holds the mutex is the one that is reading or writing   *)
(* the file, on every path out of load and save, the error returns too.    *)
MutexHolder ==
    \A t \in Threads : (mutex = t) = (pc[t] \in Inside)

(* A thread that may yet write the file back holds the data it will write. *)
HoldsData ==
    \A t \in Threads :
        (data[t] # NoData) = (pc[t] \in {"return", "lockSave", "open", "write"})

WritersWrite ==
    \A t \in Threads :
        pc[t] \in {"lockSave", "open", "write"} => op[t] \in WriteOps

OnlyUpRuns ==
    process # "up" => \A t \in Threads : pc[t] = "idle"

FileUsable ==
    process = "up" => file # Missing

\* Between the truncation and the end of the write the file does not parse.
Truncated ==
    Writing \/ process = "creating" => file = Torn

(* The inductive invariant of the repository: types, and who may be where. *)
RepoInv ==
    /\ TypeOK
    /\ MutexHolder
    /\ HoldsData
    /\ WritersWrite
    /\ OnlyUpRuns
    /\ FileUsable
    /\ Truncated

(* Each cluster name occurs once in the file and in what the threads hold, *)
(* however their saves overlap: the search by name in get_cluster and the  *)
(* replacement in save_cluster rely on it, and nothing in the format of    *)
(* the file enforces it.                                                   *)
UniqueNames ==
    /\ file \in DB => NamesUnique(file)
    /\ \A t \in Threads : data[t] # NoData => NamesUnique(data[t])

(* The file is unreadable, nobody is writing it and nobody holds data that *)
(* could be written over it.                                               *)
Bricked ==
    /\ file = Torn
    /\ process # "creating"
    /\ \A t \in Threads : pc[t] \notin {"lockSave", "open", "write"}

(* A damaged database is not papered over by the operations that go on to  *)
(* be called: whatever fails and whoever tries, what is left of it stays on *)
(* disk until a start of the process that cannot open the file.            *)
OnlyStartsErase == [][Bricked => Bricked' \/ (process = "down" /\ process' = "creating")]_vars

(* The critical sections end: the holder of the mutex always gives it back. *)
MutexReleased == \A t \in Threads : mutex = t ~> mutex # t
-----------------------------------------------------------------------------
(* The file as the threads see it.  A save takes effect when the file is   *)
(* truncated: from then on nobody else can look before the write is over.  *)
VisibleDB ==
    IF process = "creating" \/ file = Missing THEN EmptyDB
    ELSE IF Writing
         THEN LET t == CHOOSE u \in Threads : pc[u] = "write"
              IN  Apply(op[t], data[t])
         ELSE file

VisibleData ==
    [t \in Threads |-> IF pc[t] = "write" THEN NoData ELSE data[t]]

Store == INSTANCE SnapshotStore WITH db <- VisibleDB, loaded <- VisibleData

(* The mutex makes load and save atomic, with disk errors and crashes: the *)
(* file and the threads' data behave as SnapshotStore says.                *)
RefinesStore == Store!Spec
=============================================================================
