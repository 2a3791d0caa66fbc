----------------------------- MODULE LostUpdates -----------------------------
(***************************************************************************)
(* When does the file of JsonRepository keep every update?  The mutex is   *)
(* released between load and save, so two writers may overlap and the      *)
(* second one to save erases what the first one saved.  The history        *)
(* variables below record what the file would hold if every operation were *)
(* applied to the file as it is when it is saved (ideal), which threads    *)
(* hold a snapshot that has been overtaken by another save, and whether    *)
(* such a snapshot was ever written, a save was cut short, or a start      *)
(* replaced a file that it could not open (lost).                          *)
(***************************************************************************)
EXTENDS JsonRepository

VARIABLES ideal,      \* every saved operation applied in the order of the saves
          overtaken,  \* the threads whose snapshot is older than the file
          lost        \* an overtaken snapshot was saved, a save was cut short, or a
                      \* start erased what there was

history == <<ideal, overtaken, lost>>
hvars   == <<file, mutex, pc, op, data, process, ideal, overtaken, lost>>

HInit ==
    /\ Init
    /\ ideal = EmptyDB
    /\ overtaken = {}
    /\ lost = FALSE

\* From here on there is nothing left to compare the file with.
Lose == ideal' = EmptyDB /\ overtaken' = {} /\ lost' = TRUE

HRead(t) ==
    /\ Read(t)
    /\ overtaken' = overtaken \ {t}
    /\ UNCHANGED <<ideal, lost>>

\* A save applies its change to the file; all other snapshots are now old.
KeepTrack(t) ==
    /\ ideal' = Apply(op[t], ideal)
    /\ overtaken' = {u \in Threads \ {t} : data[u] # NoData}
    /\ UNCHANGED lost

HWrite(t) ==
    /\ Write(t)
    /\ IF lost THEN UNCHANGED history
       ELSE IF t \in overtaken THEN Lose
       ELSE KeepTrack(t)

HWriteFails(t) == WriteFails(t) /\ Lose

HCrash ==
    /\ Crash
    /\ IF Writing \/ process = "creating" THEN Lose ELSE UNCHANGED history

\* Nothing is lost where there was nothing.
HCreateFile ==
    /\ CreateFile
    /\ IF ideal = EmptyDB THEN UNCHANGED history ELSE Lose

\* The steps that neither take a snapshot nor end a save.
Elsewhere ==
    \/ Start \/ FileCreated
    \/ \E t \in Threads :
           \/ \E o \in WriteOps \cup {ReadOp} : Call(t, o)
           \/ LockLoad(t) \/ ReadFails(t) \/ Return(t)
           \/ LockSave(t) \/ OpenTruncates(t) \/ OpenFails(t)

HNext ==
    \/ \E t \in Threads : HRead(t) \/ HWrite(t) \/ HWriteFails(t)
    \/ HCrash \/ HCreateFile
    \/ Elsewhere /\ UNCHANGED history

HSpec == HInit /\ [][HNext]_hvars /\ Fairness

HTypeOK ==
    /\ ideal \in DB
    /\ overtaken \subseteq Threads
    /\ lost \in BOOLEAN

(* As long as no save overlapped another one, none was cut short, and no   *)
(* start failed to open a file that was there, the file holds the effect   *)
(* of every operation, in order: the read-modify-write of                  *)
(* repository_json.rs loses updates in no other way, whatever fails before *)
(* the file is truncated.                                                  *)
KeepsEveryUpdate == ~lost /\ file \in DB => file = ideal

(* The strengthening that makes KeepsEveryUpdate inductive: a snapshot that *)
(* is not marked as overtaken is the content of the file, and a file that   *)
(* is still to be created has no past.                                      *)
FreshSnapshots ==
    ~lost =>
        /\ \A t \in Threads :
               data[t] # NoData /\ t \notin overtaken => data[t] = ideal
        /\ process = "creating" \/ file = Missing => ideal = EmptyDB

LostInv == HTypeOK /\ KeepsEveryUpdate /\ FreshSnapshots
==============================================================================
