---------------------------- MODULE SnapshotStore ----------------------------
(***************************************************************************)
(* What JsonRepository promises to the threads that share it.  A thread    *)
(* takes a snapshot of the whole file in one step (load), and later puts   *)
(* the snapshot with its own change applied in the place of the whole file *)
(* in one step (save).  Nothing is promised about what other threads saved *)
(* in between: see LostUpdates.                                            *)
(*                                                                         *)
(* A disk error or a crash in the middle of a save leaves the file         *)
(* unreadable; only a thread that still holds a snapshot can write a       *)
(* readable file again.  When nobody holds one, the whole content may be   *)
(* replaced by an empty one: that is what a start does which cannot open   *)
(* the file.                                                               *)
(***************************************************************************)
EXTENDS DbData

CONSTANT Threads

VARIABLES db,       \* the content of the file, or Unreadable
          loaded    \* the snapshot each thread holds, or NoData

vars == <<db, loaded>>

TypeOK ==
    /\ db \in DB \cup {Unreadable}
    /\ loaded \in [Threads -> DB \cup {NoData}]

Init ==
    /\ db \in DB /\ NamesUnique(db)
    /\ loaded = [t \in Threads |-> NoData]

Load(t) ==
    /\ loaded[t] = NoData
    /\ db # Unreadable
    /\ loaded' = [loaded EXCEPT ![t] = db]
    /\ UNCHANGED db

Commit(t, o) ==
    /\ loaded[t] # NoData
    /\ db' = Apply(o, loaded[t])
    /\ loaded' = [loaded EXCEPT ![t] = NoData]

\* Some threads return without having written: readers, and all of them in a crash.
Forget(S) ==
    /\ loaded' = [t \in Threads |-> IF t \in S THEN NoData ELSE loaded[t]]
    /\ UNCHANGED db

\* A save that had begun is cut short.
Damage(S) ==
    /\ db' = Unreadable
    /\ loaded' = [t \in Threads |-> IF t \in S THEN NoData ELSE loaded[t]]

\* The process starts, and cannot open what it then creates anew.
Replace ==
    /\ \A t \in Threads : loaded[t] = NoData
    /\ db' = EmptyDB
    /\ UNCHANGED loaded

Next ==
    \/ Replace
    \/ \E t \in Threads : Load(t) \/ \E o \in WriteOps : Commit(t, o)
    \/ \E S \in SUBSET Threads : Forget(S) \/ Damage(S)

Spec == Init /\ [][Next]_vars
==============================================================================
