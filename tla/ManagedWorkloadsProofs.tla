------------------------ MODULE ManagedWorkloadsProofs ------------------------
(***************************************************************************)
(* The workloads of a cluster, for any manifests, visits, clicks and       *)
(* failures: one command at a time, the list on the page is the record's   *)
(* unless an edit failed or was overtaken, and what is applied is what the *)
(* page shows, unless Enter went past the buttons.                         *)
(***************************************************************************)
EXTENDS ManagedWorkloads, PositionsProofs

(* OneCommand, with what is needed of the types: commands are in the slots  *)
(* of clicks, which a load never takes.                                     *)
TaskShape ==
    /\ DOMAIN task = Slots
    /\ \A t \in Slots : "op" \in DOMAIN task[t]
    /\ \A t \in Slots : InCommand(t) => t[1] = "click" /\ t[2] <= clicks

CommandInv ==
    /\ TaskShape
    /\ indicator \in [Commands -> BOOLEAN]
    /\ clicks \in Nat
    /\ OneCommand

(* While all indicators are down no command is under way: this is what the  *)
(* disabled buttons go by.                                                  *)
LEMMA NoCommand ==
    ASSUME CommandInv, ~anyOperationInProgress
    PROVE  /\ \A t \in Slots : ~InCommand(t)
           /\ \A o \in Commands : ~indicator[o]
  <1>1. \A o \in Commands : ~indicator[o]
    BY DEF anyOperationInProgress, Commands
  <1>2. ASSUME NEW t \in Slots, InCommand(t)
        PROVE  FALSE
    <2>1. task[t].op \in Commands
      BY <1>2 DEF InCommand
    <2>2. indicator[task[t].op]
      BY <1>2 DEF CommandInv, OneCommand
    <2>3. QED
      BY <1>1, <2>1, <2>2
  <1>3. QED
    BY <1>1, <1>2

(* A step that leaves the operation of every slot and all indicators alone  *)
(* keeps the invariant.                                                     *)
LEMMA SameOperations ==
    ASSUME CommandInv,
           DOMAIN task' = Slots,
           \A t \in Slots : "op" \in DOMAIN task'[t] /\ task'[t].op = task[t].op,
           UNCHANGED <<indicator, clicks>>
    PROVE  CommandInv'
  <1>1. \A t \in Slots : InCommand(t)' <=> InCommand(t)
    BY DEF InCommand
  <1>2. TaskShape'
    BY <1>1 DEF CommandInv, TaskShape
  <1>3. OneCommand'
    <2>1. \A t, u \in Slots : InCommand(t)' /\ InCommand(u)' => t = u
      BY <1>1 DEF CommandInv, OneCommand
    <2>2. \A t \in Slots : InCommand(t)' => indicator'[task'[t].op]
      BY <1>1 DEF CommandInv, OneCommand
    <2>3. \A o \in Commands : indicator'[o] => \E t \in Slots : task'[t].op = o
      BY DEF CommandInv, OneCommand
    <2>4. QED
      BY <2>1, <2>2, <2>3 DEF OneCommand
  <1>4. QED
    BY <1>2, <1>3 DEF CommandInv

(* The end of a call, whatever became of it.                                *)
LEMMA CallEnds ==
    ASSUME CommandInv, NEW t \in Slots,
           task' = [task EXCEPT ![t] = Idle],
           indicator' = stopProcessing(task[t].op),
           UNCHANGED clicks
    PROVE  CommandInv'
  <1> DEFINE op == task[t].op
  <1>1. /\ DOMAIN task' = Slots
        /\ task'[t] = Idle
        /\ \A u \in Slots : u # t => task'[u] = task[u]
    BY DEF CommandInv, TaskShape
  <1>2. Idle.op = "idle" /\ "op" \in DOMAIN Idle /\ "idle" \notin Commands
    BY DEF Idle, Commands
  <1>3. ~InCommand(t)' /\ \A u \in Slots : u # t => (InCommand(u)' <=> InCommand(u))
    BY <1>1, <1>2 DEF InCommand
  <1>4. TaskShape'
    BY <1>1, <1>2, <1>3 DEF CommandInv, TaskShape
  <1>5. /\ indicator' \in [Commands -> BOOLEAN]
        /\ \A o \in Commands : indicator'[o] <=> indicator[o] /\ o # op
    BY DEF stopProcessing
  <1>6. \A u, w \in Slots : InCommand(u)' /\ InCommand(w)' => u = w
    BY <1>3 DEF CommandInv, OneCommand
  <1>7. ASSUME NEW u \in Slots, InCommand(u)'
        PROVE  indicator'[task'[u].op]
    <2>1. u # t /\ InCommand(u) /\ task'[u] = task[u]
      BY <1>1, <1>3, <1>7
    <2>2. indicator[task[u].op] /\ task[u].op \in Commands
      BY <2>1 DEF CommandInv, OneCommand, InCommand
    <2>3. task[u].op # op
      <3>1. CASE op \in Commands
        BY <2>1, <3>1 DEF CommandInv, OneCommand, InCommand
      <3>2. CASE op \notin Commands
        BY <2>2, <3>2
      <3>3. QED
        BY <3>1, <3>2
    <2>4. QED
      BY <1>5, <2>1, <2>2, <2>3
  <1>8. ASSUME NEW o \in Commands, indicator'[o]
        PROVE  \E u \in Slots : task'[u].op = o
    <2>1. indicator[o] /\ o # op
      BY <1>5, <1>8
    <2>2. PICK u \in Slots : task[u].op = o
      BY <2>1 DEF CommandInv, OneCommand
    <2>3. QED
      BY <1>1, <2>1, <2>2
  <1>9. OneCommand'
    BY <1>6, <1>7, <1>8 DEF OneCommand
  <1>10. QED
    BY <1>4, <1>5, <1>9 DEF CommandInv

(* A click: its slot gets the operation, and the others keep theirs.        *)
LEMMA ClickTakesSlot ==
    ASSUME CommandInv, NEW op, NEW d, Click(op, d)
    PROVE  /\ <<"click", clicks + 1>> \in Slots
           /\ clicks' \in Nat
           /\ DOMAIN task' = Slots
           /\ \A t \in Slots : /\ "op" \in DOMAIN task'[t]
                               /\ task'[t].op = IF t = <<"click", clicks + 1>> THEN op ELSE task[t].op
  <1> DEFINE slot == <<"click", clicks + 1>>
  <1>1. clicks \in Nat /\ clicks < Ops /\ Ops \in Nat /\ clicks' = clicks + 1
    BY WorkloadsAssumption DEF CommandInv, Click
  <1>2. slot \in Slots
    BY <1>1 DEF Slots
  <1>3. DOMAIN task' = Slots
    BY DEF Click
  <1>4. ASSUME NEW t \in Slots
        PROVE  "op" \in DOMAIN task'[t] /\ task'[t].op = IF t = slot THEN op ELSE task[t].op
    <2>1. "op" \in DOMAIN task[t]
      BY DEF CommandInv, TaskShape
    <2>2. CASE t = slot
      <3>1. task'[t] = [op |-> op, id |-> dialog.id, def |-> d, by |-> visit, phase |-> "sent", answer |-> None]
        BY <2>2 DEF Click
      <3>2. QED
        BY <2>2, <3>1
    <2>3. CASE t # slot
      <3>1. task'[t] = [task[t] EXCEPT !.clean = FALSE] \/ task'[t] = task[t]
        BY <2>3 DEF Click
      <3>2. QED
        BY <2>1, <2>3, <3>1
    <2>4. QED
      BY <2>2, <2>3
  <1>5. QED
    BY <1>1, <1>2, <1>3, <1>4

(* An edit that is no command, which commands may be beside.                *)
LEMMA EditClick ==
    ASSUME CommandInv, NEW op, NEW d, Click(op, d), op \notin Commands, UNCHANGED indicator
    PROVE  CommandInv'
  <1> DEFINE slot == <<"click", clicks + 1>>
  <1>1. /\ slot \in Slots /\ clicks' \in Nat /\ DOMAIN task' = Slots
        /\ \A t \in Slots : /\ "op" \in DOMAIN task'[t]
                            /\ task'[t].op = IF t = slot THEN op ELSE task[t].op
    BY ClickTakesSlot
  <1>2. clicks \in Nat /\ clicks' = clicks + 1 /\ slot[2] = clicks + 1
    BY DEF CommandInv, Click
  <1>3. ~InCommand(slot)
    BY <1>1, <1>2 DEF CommandInv, TaskShape
  <1>4. \A t \in Slots : InCommand(t)' <=> InCommand(t)
    BY <1>1, <1>3 DEF InCommand
  <1>5. TaskShape'
    <2>1. \A t \in Slots : InCommand(t) => t[1] = "click" /\ t[2] <= clicks'
      <3>1. \A t \in Slots : InCommand(t) => t[2] \in Nat
        BY WorkloadsAssumption DEF CommandInv, TaskShape, Slots
      <3> QED
        BY <1>2, <3>1 DEF CommandInv, TaskShape
    <2> QED
      BY <1>1, <1>4, <2>1 DEF TaskShape
  <1>6. OneCommand'
    <2>1. \A t \in Slots : InCommand(t) => t # slot /\ task'[t].op = task[t].op
      BY <1>1, <1>3
    <2>2. \A t, u \in Slots : InCommand(t)' /\ InCommand(u)' => t = u
      BY <1>4 DEF CommandInv, OneCommand
    <2>3. \A t \in Slots : InCommand(t)' => indicator'[task'[t].op]
      BY <1>4, <2>1 DEF CommandInv, OneCommand
    <2>4. \A o \in Commands : indicator'[o] => \E t \in Slots : task'[t].op = o
      BY <2>1 DEF CommandInv, OneCommand, InCommand
    <2> QED
      BY <2>2, <2>3, <2>4 DEF OneCommand
  <1> QED
    BY <1>1, <1>5, <1>6 DEF CommandInv

(* A command: it is the only one.                                           *)
LEMMA CommandClick ==
    ASSUME CommandInv, NEW op \in Commands, Command(op)
    PROVE  CommandInv'
  <1> DEFINE slot == <<"click", clicks + 1>>
  <1>1. Click(op, None) /\ indicator' = [indicator EXCEPT ![op] = TRUE]
    BY DEF Command
  <1>2. ~anyOperationInProgress
    BY DEF Command
  <1>3. /\ \A t \in Slots : ~InCommand(t)
        /\ \A o \in Commands : ~indicator[o]
    BY <1>2, NoCommand
  <1>4. /\ slot \in Slots /\ clicks' \in Nat /\ DOMAIN task' = Slots
        /\ \A t \in Slots : /\ "op" \in DOMAIN task'[t]
                            /\ task'[t].op = IF t = slot THEN op ELSE task[t].op
    BY <1>1, ClickTakesSlot
  <1>5. \A t \in Slots : InCommand(t)' <=> t = slot
    BY <1>3, <1>4 DEF InCommand
  <1>6. slot[1] = "click" /\ slot[2] = clicks' /\ slot[2] <= clicks'
    BY <1>1, <1>4 DEF Click
  <1>7. TaskShape'
    BY <1>4, <1>5, <1>6 DEF TaskShape
  <1>8. /\ indicator' \in [Commands -> BOOLEAN]
        /\ \A o \in Commands : indicator'[o] <=> o = op
    BY <1>1, <1>3 DEF CommandInv
  <1>9. OneCommand'
    BY <1>4, <1>5, <1>8 DEF OneCommand
  <1>10. QED
    BY <1>4, <1>7, <1>8, <1>9 DEF CommandInv

(* A load takes a slot of its own.                                          *)
LEMMA LoadStarts ==
    ASSUME CommandInv, Open
    PROVE  CommandInv'
  <1> DEFINE slot == <<"load", visit + 1>>
  <1>1. /\ DOMAIN task' = Slots
        /\ \A t \in Slots : t # slot => task'[t] = task[t]
        /\ slot \in Slots => "op" \in DOMAIN task'[slot] /\ task'[slot].op = "load"
    BY DEF CommandInv, TaskShape, Open
  <1>2. slot \in Slots => ~InCommand(slot)
    <2>1. slot[1] = "load"
      OBVIOUS
    <2>2. QED
      BY <2>1 DEF CommandInv, TaskShape
  <1>3. \A t \in Slots : InCommand(t)' <=> InCommand(t)
    BY <1>1, <1>2 DEF InCommand, Commands
  <1>4. UNCHANGED <<indicator, clicks>>
    BY DEF Open
  <1>5. \A t \in Slots : InCommand(t) => task'[t] = task[t]
    BY <1>1, <1>2
  <1>6. TaskShape'
    BY <1>1, <1>3, <1>4 DEF CommandInv, TaskShape
  <1>7. OneCommand'
    <2>1. \A t, u \in Slots : InCommand(t)' /\ InCommand(u)' => t = u
      BY <1>3 DEF CommandInv, OneCommand
    <2>2. \A t \in Slots : InCommand(t)' => indicator'[task'[t].op]
      BY <1>3, <1>4, <1>5 DEF CommandInv, OneCommand
    <2>3. \A o \in Commands : indicator'[o] => \E t \in Slots : task'[t].op = o
      BY <1>4, <1>5 DEF CommandInv, OneCommand, InCommand
    <2>4. QED
      BY <2>1, <2>2, <2>3 DEF OneCommand
  <1>8. QED
    BY <1>4, <1>6, <1>7 DEF CommandInv

(* The server changes what a task has got, and never its operation.         *)
LEMMA ServeKeeps ==
    ASSUME CommandInv, NEW t \in Slots, Serve(t)
    PROVE  CommandInv'
  <1>1. \/ \E a : task' = Answered(t, a)
        \/ task' = Failed(t)
    BY DEF Serve, getCluster, save_cluster_workload, update_cluster_workload,
           delete_cluster_workload, run_kubectl
  <1>2. /\ DOMAIN task = Slots
        /\ \A u \in Slots : "op" \in DOMAIN task[u]
    BY DEF CommandInv, TaskShape
  <1>3. /\ DOMAIN task' = Slots
        /\ \A u \in Slots : "op" \in DOMAIN task'[u] /\ task'[u].op = task[u].op
    BY <1>1, <1>2 DEF Answered, Failed
  <1>4. UNCHANGED <<indicator, clicks>>
    BY DEF Serve
  <1>5. QED
    BY <1>3, <1>4, SameOperations

LEMMA CommandStep == CommandInv /\ [Next]_vars => CommandInv'
  <1> SUFFICES ASSUME CommandInv, [Next]_vars
               PROVE  CommandInv'
    OBVIOUS
  <1>1. CASE UNCHANGED vars
    <2>1. UNCHANGED <<task, indicator, clicks>>
      BY <1>1 DEF vars
    <2>2. QED
      BY <2>1 DEF CommandInv, TaskShape, OneCommand, InCommand
  <1>2. CASE Open
    BY <1>2, LoadStarts
  <1>3. CASE Leave \/ AddWorkload \/ SelectWorkload \/ Type \/ Close
    <2>1. UNCHANGED <<task, indicator, clicks>>
      BY <1>3 DEF Leave, AddWorkload, SelectWorkload, Type, Close, SetDialog
    <2>2. QED
      BY <2>1 DEF CommandInv, TaskShape, OneCommand, InCommand
  <1>4. CASE Add
    <2>1. Click("add", dialog.form)
      BY <1>4 DEF Add, Submit
    <2>2. UNCHANGED indicator
      BY <1>4 DEF Add, Submit
    <2>3. QED
      BY <2>1, <2>2, EditClick DEF Commands
  <1>5. CASE Save
    <2>1. Click("update", dialog.form)
      BY <1>5 DEF Save, Submit
    <2>2. UNCHANGED indicator
      BY <1>5 DEF Save, Submit
    <2>3. QED
      BY <2>1, <2>2, EditClick DEF Commands
  <1>6. ASSUME NEW op \in Commands, Command(op)
        PROVE  CommandInv'
    BY <1>6, CommandClick
  <1>7. ASSUME NEW t \in Slots, Serve(t)
        PROVE  CommandInv'
    BY <1>7, ServeKeeps
  <1>8. ASSUME NEW t \in Slots, Answer(t)
        PROVE  CommandInv'
    <2>1. /\ task' = [task EXCEPT ![t] = Idle]
          /\ indicator' = stopProcessing(task[t].op)
          /\ UNCHANGED clicks
      BY <1>8 DEF Answer
    <2>2. QED
      BY <2>1, CallEnds
  <1>9. ASSUME NEW t \in Slots, Reject(t)
        PROVE  CommandInv'
    <2>1. /\ task' = [task EXCEPT ![t] = Idle]
          /\ indicator' = stopProcessing(task[t].op)
          /\ UNCHANGED clicks
      BY <1>9 DEF Reject
    <2>2. QED
      BY <2>1, CallEnds
  <1>10. QED
    BY <1>1, <1>2, <1>3, <1>4, <1>5, <1>6, <1>7, <1>8, <1>9 DEF Next

LEMMA CommandInit == Init => CommandInv
  <1> SUFFICES ASSUME Init
               PROVE  CommandInv
    OBVIOUS
  <1>1. \A t \in Slots : task[t] = Idle
    BY DEF Init
  <1>2. Idle.op = "idle" /\ "op" \in DOMAIN Idle /\ "idle" \notin Commands
    BY DEF Idle, Commands
  <1>3. \A t \in Slots : ~InCommand(t)
    BY <1>1, <1>2 DEF InCommand
  <1>4. TaskShape
    BY <1>1, <1>2, <1>3 DEF Init, TaskShape
  <1>5. OneCommand
    BY <1>3 DEF Init, OneCommand
  <1>6. QED
    BY <1>4, <1>5 DEF Init, CommandInv

(* Installations, uninstallations and deletions of manifests never overlap, *)
(* over however many visits of the page, and the indicator of the one that  *)
(* runs is up until it ends.                                                *)
THEOREM WorkloadsOneCommand == Spec => []OneCommand
  <1>1. CommandInv => OneCommand
    BY DEF CommandInv
  <1>2. QED
    BY <1>1, CommandInit, CommandStep, PTL DEF Spec
-----------------------------------------------------------------------------
(* The list in the store and the record *)

LEMMA ResourceIds == \A r \in Resources : r.id \in Ids
  BY DEF Resources

LEMMA RowSets ==
    ASSUME NEW list
    PROVE  ToSet(list) = RowsIn(list)
  BY DEF ToSet, RowsIn

LEMMA ManifestReplaced ==
    ASSUME NEW list \in Seq(Resources), NEW id, NEW d \in Manifests, HasRow(list, id)
    PROVE  /\ WithDef(list, id, d) \in Seq(Resources)
           /\ \A i : HasRow(WithDef(list, id, d), i) <=> HasRow(list, i)
           /\ DistinctIds(list) => DistinctIds(WithDef(list, id, d))
           /\ DistinctIds(list) =>
                 \A i : RowsOf(WithDef(list, id, d), i) =
                          IF i = id THEN {[id |-> id, def |-> d]} ELSE RowsOf(list, i)
  <1>1. Redefinable(Resources, d)
    BY DEF Redefinable, Resources, Row
  <1>2. /\ WithDef(list, id, d) \in Seq(Resources)
        /\ \A i : HasRow(WithDef(list, id, d), i) <=> HasRow(list, i)
        /\ DistinctIds(list) => DistinctIds(WithDef(list, id, d))
    BY <1>1, RowReplaced
  <1>3. ASSUME DistinctIds(list), NEW i
        PROVE  RowsOf(WithDef(list, id, d), i) = IF i = id THEN {Row(id, d)} ELSE RowsOf(list, i)
    BY <1>1, <1>3, RowsReplaced
  <1> QED
    BY <1>2, <1>3 DEF Row

(* What the task of a load is, and of a click.                              *)
LoadTask(k) ==
    /\ DOMAIN k = {"op", "phase", "answer", "clean"}
    /\ k.op = "load" /\ k.phase \in {"sent", "answered"} /\ k.clean \in BOOLEAN
    /\ k.phase = "answered" => k.answer \in Seq(Resources) /\ DistinctIds(k.answer)

ClickTask(k, n) ==
    /\ DOMAIN k = {"op", "id", "def", "by", "phase", "answer"}
    /\ k.op \in {"add"} \cup {"update"} \cup Commands
    /\ k.phase \in {"sent", "answered", "failed"} /\ k.by \in 1..visit
    /\ k.op \in {"add", "update"} => k.def \in Manifests
    /\ k.op # "add" => k.id \in Ids
    /\ k.op = "add" => k.id = None /\ (k.phase = "answered" => k.answer = n)
    /\ k.op \in {"add", "delete"} => k.phase # "failed"

TaskOK(t) == \/ task[t] = Idle
             \/ t[1] = "load" /\ LoadTask(task[t])
             \/ t[1] = "click" /\ ClickTask(task[t], t[2])

Dialogs == [open : BOOLEAN, id : Ids \cup {None}, form : Manifests \cup {None},
            isSubmitting : BOOLEAN, own : SUBSET (1..Ops)]

Shapes ==
    /\ CommandInv
    /\ resources \in Seq(Resources) /\ shown \in Seq(Resources) /\ DistinctIds(resources)
    /\ loaded \in BOOLEAN /\ mounted \in BOOLEAN /\ inDoubt \in BOOLEAN
    /\ dialog \in Dialogs /\ (dialog.open => mounted /\ loaded)
    /\ loaded \/ shown = <<>>
    /\ visit \in 0..Visits /\ clicks \in 0..Ops /\ fails \in 0..Fails
    /\ mounted => visit # 0
    /\ clicks # 0 => loaded
    /\ \A t \in Slots : TaskOK(t)

(* The manifest that an edit is about.                                      *)
Subject(t) == IF task[t].op = "add" THEN t[2]
              ELSE IF task[t].op \in Edits THEN task[t].id ELSE None

(* Nobody has an id before its click.                                       *)
Unused(i) ==
    /\ RowsOf(resources, i) = {} /\ RowsOf(shown, i) = {} /\ dialog.id # i
    /\ \A t \in Slots : /\ Subject(t) # i
                        /\ task[t].op = "load" /\ task[t].phase = "answered" => RowsOf(task[t].answer, i) = {}

Fresh ==
    /\ \A n \in 1..Ops : n > clicks => task[<<"click", n>>] = Idle
    /\ \A i \in Ids : i > clicks => Unused(i)
    /\ \A t \in Slots : task[t].op = "add" /\ task[t].phase = "sent" => RowsOf(resources, t[2]) = {}

(* Nothing is edited while a load is clean, and its answer stays right.     *)
CleanLoads ==
    \A t \in Slots : task[t].op = "load" /\ task[t].clean =>
        ~Editing /\ (task[t].phase = "answered" => task[t].answer = resources)

(* Where an edit is between the list in the store and the record: an update *)
(* is in the list first, an addition and a deletion are in the record first.*)
EditState(t) ==
    LET k == task[t]
        i == Subject(t)
    IN  /\ k.op = "add" =>
              /\ dialog.id # i /\ RowsOf(shown, i) = {}
              /\ k.phase = "answered" => RowsOf(resources, i) = {[id |-> i, def |-> k.def]}
        /\ k.op = "update" =>
              RowsOf(shown, i) = IF k.phase = "answered" THEN RowsOf(resources, i)
                             ELSE IF RowsOf(resources, i) = {} THEN {} ELSE {[id |-> i, def |-> k.def]}
        /\ k.op = "delete" =>
              IF k.phase = "answered" THEN RowsOf(resources, i) = {} ELSE RowsOf(shown, i) = RowsOf(resources, i)

Sync ==
    /\ DistinctIds(shown)
    /\ \A t, u \in Slots : Subject(t) = Subject(u) /\ Subject(t) # None => t = u
    /\ \A t \in Slots : task[t].op \in Edits => EditState(t)
    /\ \A i \in Ids : (\A t \in Slots : Subject(t) # i) => RowsOf(shown, i) = RowsOf(resources, i)

ListInv ==
    /\ Shapes /\ Fresh /\ CleanLoads
    /\ loaded /\ ~inDoubt => Sync

LEMMA SlotForm ==
    ASSUME NEW t \in Slots
    PROVE  \/ t = <<"load", t[2]>> /\ t[1] = "load" /\ t[2] \in 1..Visits
           \/ t = <<"click", t[2]>> /\ t[1] = "click" /\ t[2] \in 1..Ops
  BY DEF Slots

LEMMA Bounds ==
    /\ Ops \in Nat /\ Visits \in Nat /\ Fails \in Nat
    /\ Ids = 0..Ops /\ None \notin Nat /\ None \notin Ids
  BY WorkloadsAssumption DEF Ids

(* The operation of a task says what it is.                                 *)
LEMMA TaskForm ==
    ASSUME Shapes, NEW t \in Slots
    PROVE  /\ task[t] = Idle <=> task[t].op = "idle"
           /\ task[t].op \in {"idle", "load", "add", "update", "delete", "install", "uninstall"}
           /\ task[t].op = "load" => LoadTask(task[t]) /\ t = <<"load", t[2]>>
           /\ task[t].op \notin {"idle", "load"} =>
                 ClickTask(task[t], t[2]) /\ t = <<"click", t[2]>> /\ t[2] \in 1..Ops
           /\ task[t].op # "idle" => Running(t)
  <1>1. TaskOK(t)
    BY DEF Shapes
  <1>2. Idle.op = "idle"
    BY DEF Idle
  <1>3. CASE task[t] = Idle
    BY <1>2, <1>3
  <1>4. CASE task[t] # Idle /\ t[1] = "load"
    <2>1. LoadTask(task[t])
      BY <1>1, <1>4 DEF TaskOK
    <2> QED
      BY <1>2, <1>4, <2>1, SlotForm DEF LoadTask, Running
  <1>5. CASE task[t] # Idle /\ t[1] = "click"
    <2>1. ClickTask(task[t], t[2])
      BY <1>1, <1>5 DEF TaskOK
    <2>2. task[t].op \in {"add", "update", "delete", "install", "uninstall"}
      BY <2>1 DEF ClickTask, Commands
    <2> QED
      BY <1>2, <1>5, <2>1, <2>2, SlotForm DEF Running
  <1> QED
    BY <1>3, <1>4, <1>5, SlotForm

LEMMA SubjectForm ==
    ASSUME Shapes, NEW t \in Slots
    PROVE  /\ Subject(t) \in Ids \cup {None}
           /\ task[t].op \in Edits <=> Subject(t) # None
           /\ task[t].op \in Edits => Subject(t) \in Ids
           /\ task[t].op = "add" => Subject(t) = t[2]
           /\ task[t].op \in {"update", "delete"} => Subject(t) = task[t].id
  <1>1. CASE task[t].op = "add"
    <2>1. t[2] \in 1..Ops
      BY <1>1, TaskForm
    <2> QED
      BY <1>1, <2>1, Bounds DEF Subject, Edits
  <1>2. CASE task[t].op \in {"update", "delete"}
    <2>1. task[t].id \in Ids
      BY <1>2, TaskForm DEF ClickTask
    <2> QED
      BY <1>2, <2>1, Bounds DEF Subject, Edits
  <1>3. CASE task[t].op \notin {"add", "update", "delete"}
    BY <1>3 DEF Subject, Edits
  <1> QED
    BY <1>1, <1>2, <1>3

(* One task changes, and nothing but the manifest that it is about.         *)
LEMMA SyncOne ==
    ASSUME Shapes, Shapes', Sync, DistinctIds(shown)',
           NEW t \in Slots, NEW s \in Ids \cup {None},
           \A u \in Slots : u # t => /\ task'[u].op = task[u].op
                                     /\ task[u].op \in Edits => task'[u] = task[u],
           \A i \in Ids : i # s => /\ RowsOf(resources', i) = RowsOf(resources, i)
                                   /\ RowsOf(shown', i) = RowsOf(shown, i),
           Subject(t) \in {s, None}, Subject(t)' \in {s, None},
           \A u \in Slots : u # t /\ s # None => Subject(u) # s,
           \A u \in Slots : u # t /\ task[u].op = "add" => dialog'.id # u[2],
           task'[t].op \in Edits => EditState(t)',
           s # None /\ Subject(t)' = None => RowsOf(shown', s) = RowsOf(resources', s)
    PROVE  Sync'
  <1>1. \A u \in Slots : u # t => Subject(u)' = Subject(u)
    BY DEF Subject, Edits
  <1>2. ASSUME NEW u \in Slots, NEW v \in Slots, Subject(u)' = Subject(v)', Subject(u)' # None
        PROVE  u = v
    <2>1. CASE u # t /\ v # t
      BY <1>1, <1>2, <2>1 DEF Sync
    <2>2. CASE u = t /\ v # t
      BY <1>1, <1>2, <2>2
    <2>3. CASE u # t /\ v = t
      BY <1>1, <1>2, <2>3
    <2> QED
      BY <2>1, <2>2, <2>3
  <1>3. ASSUME NEW u \in Slots, task'[u].op \in Edits
        PROVE  EditState(u)'
    <2>1. CASE u = t
      BY <1>3, <2>1
    <2>2. CASE u # t
      <3>1. task'[u] = task[u] /\ task[u].op \in Edits /\ EditState(u)
        BY <1>3, <2>2 DEF Sync
      <3>2. Subject(u)' = Subject(u) /\ Subject(u) \in Ids /\ Subject(u) # s
        BY <1>1, <2>2, <3>1, SubjectForm
      <3>3. RowsOf(resources, Subject(u))' = RowsOf(resources, Subject(u)) /\ RowsOf(shown, Subject(u))' = RowsOf(shown, Subject(u))
        BY <3>2 DEF RowsOf
      <3>4. task[u].op = "add" => dialog'.id # Subject(u)
        BY <2>2, <3>1, SubjectForm
      <3> QED
        BY <3>1, <3>2, <3>3, <3>4 DEF EditState
    <2> QED
      BY <2>1, <2>2
  <1>4. ASSUME NEW i \in Ids, \A u \in Slots : Subject(u)' # i
        PROVE  RowsOf(shown, i)' = RowsOf(resources, i)'
    <2>1. CASE i = s
      <3>1. Subject(t)' = None /\ s # None
        BY <1>4, <2>1, Bounds
      <3> QED
        BY <2>1, <3>1 DEF RowsOf
    <2>2. CASE i # s
      <3>1. \A u \in Slots : Subject(u) # i
        BY <1>1, <1>4, <2>2, Bounds
      <3>2. RowsOf(shown, i) = RowsOf(resources, i)
        BY <3>1 DEF Sync
      <3> QED
        BY <2>2, <3>2 DEF RowsOf
    <2> QED
      BY <2>1, <2>2
  <1> QED
    BY <1>2, <1>3, <1>4 DEF Sync

\* What the operators of the dialog leave of it
LEMMA DialogFields ==
    ASSUME NEW d \in Dialogs, NEW id \in Ids \cup {None}, NEW def \in Manifests \cup {None}
    PROVE  /\ Reinitialized(d, id, def) \in Dialogs
           /\ Reinitialized(d, id, def).id = id /\ Reinitialized(d, id, def).open = d.open
           /\ Reinitialized(d, id, def).isSubmitting = FALSE /\ Reinitialized(d, id, def).own = d.own
  BY DEF Reinitialized, Dialogs

LEMMA EndedFields ==
    ASSUME dialog \in Dialogs, NEW n
    PROVE  /\ Ended(n) \in Dialogs /\ Ended(n).id = dialog.id /\ Ended(n).open = dialog.open
           /\ Ended(n).own = dialog.own \ {n}
           /\ n \notin dialog.own => Ended(n) = dialog
  BY DEF Ended, Dialogs

(* The dialog opens for a manifest that is shown, or closes.                *)
LEMMA DialogMoves ==
    ASSUME ListInv, CommandInv',
           UNCHANGED <<resources, loaded, shown, indicator, visit, clicks, task, fails, inDoubt>>,
           dialog' \in Dialogs, mounted' \in BOOLEAN,
           dialog'.open => mounted' /\ loaded, mounted' => mounted,
           dialog'.id \in {None, dialog.id} \/ RowsOf(shown, dialog'.id) # {}
    PROVE  ListInv'
  <1> USE DEF ListInv
  <1>1. \A t \in Slots : Subject(t)' = Subject(t) /\ (InCommand(t)' <=> InCommand(t))
    BY DEF Subject, InCommand
  <1>2. \A i : RowsOf(shown, i)' = RowsOf(shown, i) /\ RowsOf(resources, i)' = RowsOf(resources, i)
    BY DEF RowsOf
  <1>3. Shapes'
    BY DEF Shapes, TaskOK, LoadTask, ClickTask, DistinctIds
  <1>4. \A i \in Ids : dialog'.id = i => dialog.id = i \/ RowsOf(shown, i) # {}
    BY Bounds
  <1>5. Fresh'
    <2>1. ASSUME NEW i \in Ids, i > clicks
          PROVE  Unused(i)'
      <3>1. Unused(i)
        BY <2>1 DEF Fresh
      <3>2. \A t \in Slots : task'[t].op = "load" /\ task'[t].phase = "answered" => RowsOf(task'[t].answer, i) = {}
        BY <3>1 DEF Unused
      <3>3. dialog'.id # i
        BY <1>4, <3>1 DEF Unused
      <3>4. RowsOf(resources', i) = {} /\ RowsOf(shown', i) = {}
        BY <3>1 DEF Unused
      <3> QED
        BY <1>1, <3>1, <3>2, <3>3, <3>4 DEF Unused, RowsOf
    <2> QED
      BY <2>1 DEF Fresh, RowsOf
  <1>6. CleanLoads'
    BY DEF CleanLoads, Editing, Running
  <1>7. ASSUME loaded, ~inDoubt
        PROVE  Sync'
    <2>1. Sync
      BY <1>7
    <2>2. ASSUME NEW t \in Slots, task[t].op \in Edits
          PROVE  EditState(t)'
      <3>1. EditState(t) /\ Subject(t) \in Ids
        BY <2>1, <2>2, SubjectForm DEF Sync
      <3>2. task[t].op = "add" => dialog'.id # Subject(t)
        BY <1>4, <3>1 DEF EditState
      <3> QED
        BY <1>1, <1>2, <3>1, <3>2 DEF EditState
    <2>3. DistinctIds(shown)'
      BY <2>1 DEF Sync, DistinctIds
    <2> QED
      BY <1>1, <1>2, <2>1, <2>2, <2>3 DEF Sync
  <1> QED
    BY <1>3, <1>5, <1>6, <1>7

LEMMA DialogKeeps ==
    ASSUME ListInv, CommandInv', Leave \/ AddWorkload \/ SelectWorkload \/ Type \/ Close
    PROVE  ListInv'
  <1>1. /\ dialog \in Dialogs /\ mounted \in BOOLEAN
        /\ dialog.open => mounted /\ loaded
        /\ shown \in Seq(Resources) /\ (loaded \/ shown = <<>>)
    BY DEF ListInv, Shapes
  <1>2. NoDialog \in Dialogs /\ NoDialog.id = None /\ NoDialog.open = FALSE
    BY DEF NoDialog, Dialogs
  <1>3. CASE Leave
    BY <1>2, <1>3, DialogMoves DEF Leave
  <1>4. CASE Close
    BY <1>1, <1>2, <1>4, DialogMoves DEF Close, SetDialog
  <1>5. CASE AddWorkload
    <2>1. dialog' = [NoDialog EXCEPT !.open = TRUE] /\ mounted' = mounted /\ mounted /\ loaded
      BY <1>5 DEF AddWorkload, SetDialog
    <2>2. dialog' \in Dialogs /\ dialog'.id = None
      BY <1>2, <2>1 DEF Dialogs
    <2> QED
      BY <1>1, <1>5, <2>1, <2>2, DialogMoves DEF AddWorkload, SetDialog
  <1>6. CASE SelectWorkload
    <2> DEFINE d == [NoDialog EXCEPT !.open = TRUE]
    <2>1. PICK k \in DOMAIN shown : SetDialog(Reinitialized(d, shown[k].id, shown[k].def))
      BY <1>6 DEF SelectWorkload
    <2>2. mounted' = mounted /\ mounted
      BY <1>6, <2>1 DEF SelectWorkload, SetDialog
    <2>3. shown[k] \in Resources /\ shown[k].id \in Ids /\ shown[k] \in RowsOf(shown, shown[k].id)
      BY <1>1, InRowsOf, ResourceIds
    <2>4. shown[k].def \in Manifests
      BY <2>3 DEF Resources
    <2>5. d \in Dialogs
      BY <1>2 DEF Dialogs
    <2>6. dialog' = Reinitialized(d, shown[k].id, shown[k].def)
      BY <2>1 DEF SetDialog
    <2>7. dialog' \in Dialogs /\ dialog'.id = shown[k].id
      <3>1. /\ shown[k].id \in Ids \cup {None} /\ shown[k].def \in Manifests \cup {None}
        BY <2>3, <2>4
      <3> HIDE DEF d
      <3> QED
        BY <2>5, <2>6, <3>1, DialogFields
    <2>8. RowsOf(shown, dialog'.id) # {} /\ loaded
      BY <1>1, <2>3, <2>7
    <2>9. /\ UNCHANGED <<resources, loaded, shown, indicator, visit, clicks, task, fails, inDoubt>>
          /\ (dialog'.open => mounted' /\ loaded) /\ (mounted' => mounted) /\ mounted' \in BOOLEAN
      BY <1>1, <2>1, <2>2, <2>8 DEF SetDialog
    <2> QED
      BY <2>7, <2>8, <2>9, DialogMoves
  <1>7. CASE Type
    <2>1. PICK d \in Manifests : SetDialog([dialog EXCEPT !.form = d])
      BY <1>7 DEF Type
    <2>2. dialog' \in Dialogs /\ dialog'.id = dialog.id /\ dialog'.open = dialog.open /\ mounted' = mounted
      BY <1>1, <2>1 DEF SetDialog, Dialogs
    <2> QED
      BY <1>1, <2>1, <2>2, DialogMoves DEF SetDialog
  <1> QED
    BY <1>3, <1>4, <1>5, <1>6, <1>7

(* A load begins, in a slot that only loads ever take.                      *)
LEMMA OpenKeeps ==
    ASSUME ListInv, CommandInv', Open
    PROVE  ListInv'
  <1> USE DEF ListInv
  <1>0. PICK slot : slot = <<"load", visit + 1>>
    OBVIOUS
  <1> DEFINE k == [op |-> "load", phase |-> "sent", answer |-> None, clean |-> ~Editing]
  <1>1. /\ visit \in 0..Visits /\ visit < Visits /\ visit' = visit + 1 /\ mounted' = TRUE
        /\ UNCHANGED <<resources, loaded, shown, indicator, dialog, clicks, fails, inDoubt>>
    BY DEF Shapes, Open
  <1>2. slot \in Slots /\ slot[1] = "load" /\ visit' \in 0..Visits /\ visit' # 0
    BY <1>0, <1>1, Bounds DEF Slots
  <1>3. DOMAIN task = Slots
    BY DEF Shapes, CommandInv, TaskShape
  <1>4. task'[slot] = k /\ \A t \in Slots : t # slot => task'[t] = task[t]
    BY <1>0, <1>2, <1>3 DEF Open
  <1>5. k.op = "load" /\ k.phase = "sent" /\ k.clean = ~Editing /\ LoadTask(k)
    BY DEF LoadTask, Editing
  <1> HIDE DEF k
  <1>6. task[slot].op \in {"idle", "load"}
    <2>1. TaskOK(slot)
      BY <1>2 DEF Shapes
    <2> QED
      BY <1>2, <2>1 DEF TaskOK, LoadTask, Idle
  <1>7. \A t \in Slots : Subject(t)' = Subject(t)
    BY <1>4, <1>5, <1>6 DEF Subject, Edits
  <1>8. \A i : RowsOf(shown, i)' = RowsOf(shown, i) /\ RowsOf(resources, i)' = RowsOf(resources, i)
    BY <1>1 DEF RowsOf
  <1>9. Shapes'
    <2>1. ASSUME NEW t \in Slots
          PROVE  TaskOK(t)'
      <3>1. CASE t = slot
        BY <1>2, <1>4, <1>5, <3>1 DEF TaskOK, LoadTask, DistinctIds
      <3>2. CASE t # slot
        <4>1. TaskOK(t)
          BY DEF Shapes
        <4>2. 1..visit \subseteq 1..visit'
          BY <1>1
        <4> QED
          BY <1>4, <3>2, <4>1, <4>2 DEF TaskOK, LoadTask, ClickTask, DistinctIds
      <3> QED
        BY <3>1, <3>2
    <2> QED
      BY <1>1, <1>2, <2>1 DEF Shapes, DistinctIds
  <1>10. Fresh'
    <2>1. \A n \in 1..Ops : <<"click", n>> \in Slots /\ <<"click", n>> # slot
      BY <1>2 DEF Slots
    <2>2. ASSUME NEW i \in Ids, i > clicks
          PROVE  Unused(i)'
      <3>1. Unused(i)
        BY <2>2 DEF Fresh
      <3> QED
        BY <1>1, <1>4, <1>5, <1>7, <1>8, <3>1 DEF Unused, RowsOf
    <2>3. \A t \in Slots : task'[t].op = "add" => task'[t] = task[t]
      BY <1>4, <1>5
    <2> QED
      BY <1>1, <1>4, <1>8, <2>1, <2>2, <2>3 DEF Fresh, RowsOf
  <1>11. Editing' <=> Editing
    BY <1>4, <1>5, <1>6 DEF Editing, Running, Edits, Idle
  <1>12. CleanLoads'
    BY <1>1, <1>4, <1>5, <1>11 DEF CleanLoads
  <1>14. ASSUME loaded, ~inDoubt
         PROVE  Sync'
    <2>1. Sync
      BY <1>14
    <2>2. DistinctIds(shown)'
      BY <1>1, <2>1 DEF Sync, DistinctIds
    <2>3. \A u \in Slots : u # slot /\ task[u].op = "add" => dialog'.id # u[2]
      <3>1. \A u \in Slots : task[u].op = "add" => EditState(u) /\ Subject(u) = u[2]
        BY <2>1, SubjectForm DEF Sync, Edits
      <3> QED
        BY <1>1, <3>1 DEF EditState
    <2>4. Subject(slot) = None /\ Subject(slot)' = None /\ task'[slot].op \notin Edits
      <3>1. task[slot].op \notin Edits /\ task'[slot].op \notin Edits
        BY <1>4, <1>5, <1>6 DEF Edits
      <3> QED
        BY <1>2, <1>7, <3>1, SubjectForm
    <2>5. \A i \in Ids : RowsOf(resources', i) = RowsOf(resources, i) /\ RowsOf(shown', i) = RowsOf(shown, i)
      BY <1>1
    <2>6. \A u \in Slots : u # slot => task'[u].op = task[u].op /\ (task[u].op \in Edits => task'[u] = task[u])
      BY <1>4
    <2>7. Shapes /\ None \in Ids \cup {None}
      OBVIOUS
    <2> QED
      BY <1>2, <1>9, <2>1, <2>2, <2>3, <2>4, <2>5, <2>6, <2>7, SyncOne
  <1> QED
    BY <1>1, <1>9, <1>10, <1>12, <1>14

(* The server answers a task, or has not found what it is about.            *)
LEMMA ServeTask ==
    ASSUME ListInv, NEW t \in Slots, Serve(t)
    PROVE  /\ UNCHANGED <<loaded, shown, indicator, pageVars, clicks, fails, inDoubt>>
           /\ task[t].phase = "sent" /\ task[t].op # "idle"
           /\ task'[t].op = task[t].op /\ TaskOK(t)'
           /\ \A u \in Slots : u # t => task'[u] = task[u]
           /\ task[t].op = "load" =>
                 /\ resources' = resources /\ task'[t].answer = resources
                 /\ task'[t].clean = task[t].clean
           /\ task[t].op # "load" =>
                 task'[t].id = task[t].id /\ task'[t].def = task[t].def /\ task'[t].by = task[t].by
           /\ task[t].op = "add" =>
                 /\ task'[t].phase = "answered"
                 /\ resources' = Append(resources, [id |-> t[2], def |-> task[t].def])
           /\ task[t].op = "update" =>
                 IF HasRow(resources, task[t].id)
                 THEN /\ resources' = [resources EXCEPT ![FindRow(resources, task[t].id)].def = task[t].def]
                      /\ task'[t].phase = "answered"
                 ELSE resources' = resources /\ task'[t].phase = "failed"
           /\ task[t].op = "delete" =>
                 resources' = WithoutRow(resources, task[t].id) /\ task'[t].phase = "answered"
           /\ task[t].op \notin Edits => resources' = resources
           /\ task[t].op \in {"install", "uninstall"} =>
                 IF HasRow(resources, task[t].id) THEN task'[t].phase = "answered" ELSE task'[t].phase = "failed"
  <1> USE DEF ListInv
  <1>1. /\ UNCHANGED <<loaded, shown, indicator, pageVars, clicks, fails, inDoubt>>
        /\ task[t].phase = "sent" /\ Running(t)
    BY DEF Serve
  <1>2. DOMAIN task = Slots
    BY DEF Shapes, CommandInv, TaskShape
  <1>3. task[t].op \in {"load", "add", "update", "delete", "install", "uninstall"}
    BY <1>1, TaskForm DEF Running
  <1>4. ASSUME NEW a, task' = Answered(t, a)
        PROVE  /\ \A u \in Slots : u # t => task'[u] = task[u]
               /\ task'[t] = [task[t] EXCEPT !.phase = "answered", !.answer = a]
    BY <1>2, <1>4 DEF Answered
  <1>5. ASSUME task' = Failed(t)
        PROVE  /\ \A u \in Slots : u # t => task'[u] = task[u]
               /\ task'[t] = [task[t] EXCEPT !.phase = "failed"]
    BY <1>2, <1>5 DEF Failed
  <1>6. UNCHANGED visit
    BY <1>1 DEF pageVars
  <1>7. CASE task[t].op = "load"
    <2>1. task' = Answered(t, resources) /\ resources' = resources
      BY <1>7 DEF Serve, getCluster
    <2>2. LoadTask(task[t]) /\ t[1] = "load"
      BY <1>7, TaskForm, SlotForm
    <2>3. task'[t] = [task[t] EXCEPT !.phase = "answered", !.answer = resources]
          /\ \A u \in Slots : u # t => task'[u] = task[u]
      BY <1>4, <2>1
    <2>4. resources \in Seq(Resources) /\ DistinctIds(resources)
      BY DEF Shapes
    <2>5. LoadTask(task'[t])
      BY <2>2, <2>3, <2>4 DEF LoadTask
    <2>6. TaskOK(t)'
      BY <2>2, <2>5 DEF TaskOK, LoadTask, DistinctIds
    <2> QED
      BY <1>1, <1>7, <2>1, <2>2, <2>3, <2>6 DEF LoadTask, Edits
  <1>8. ASSUME task[t].op # "load"
        PROVE  ClickTask(task[t], t[2]) /\ t[1] = "click"
    BY <1>3, <1>8, TaskForm, SlotForm
  <1>9. CASE task[t].op = "add"
    <2>1. /\ task' = Answered(t, t[2])
          /\ resources' = Append(resources, [id |-> t[2], def |-> task[t].def])
      BY <1>9 DEF Serve, save_cluster_workload
    <2>2. ClickTask(task[t], t[2]) /\ t[1] = "click"
      BY <1>8, <1>9
    <2>3. task'[t] = [task[t] EXCEPT !.phase = "answered", !.answer = t[2]]
          /\ \A u \in Slots : u # t => task'[u] = task[u]
      BY <1>4, <2>1
    <2>4. TaskOK(t)'
      BY <1>6, <1>9, <2>2, <2>3 DEF TaskOK, ClickTask
    <2> QED
      BY <1>1, <1>9, <2>1, <2>2, <2>3, <2>4 DEF ClickTask, Edits
  <1>10. CASE task[t].op = "delete"
    <2>1. task' = Answered(t, None) /\ resources' = WithoutRow(resources, task[t].id)
      BY <1>10 DEF Serve, delete_cluster_workload, WithoutRow
    <2>2. ClickTask(task[t], t[2]) /\ t[1] = "click"
      BY <1>8, <1>10
    <2>3. task'[t] = [task[t] EXCEPT !.phase = "answered", !.answer = None]
          /\ \A u \in Slots : u # t => task'[u] = task[u]
      BY <1>4, <2>1
    <2>4. TaskOK(t)'
      BY <1>6, <1>10, <2>2, <2>3 DEF TaskOK, ClickTask
    <2> QED
      BY <1>1, <1>10, <2>1, <2>2, <2>3, <2>4 DEF ClickTask, Edits
  <1>11. CASE task[t].op = "update"
    <2>1. IF HasRow(resources, task[t].id)
          THEN /\ resources' = [resources EXCEPT ![FindRow(resources, task[t].id)].def = task[t].def]
               /\ task' = Answered(t, None)
          ELSE task' = Failed(t) /\ UNCHANGED resources
      BY <1>11 DEF Serve, update_cluster_workload
    <2>2. ClickTask(task[t], t[2]) /\ t[1] = "click"
      BY <1>8, <1>11
    <2>3. CASE HasRow(resources, task[t].id)
      <3>1. task'[t] = [task[t] EXCEPT !.phase = "answered", !.answer = None]
            /\ \A u \in Slots : u # t => task'[u] = task[u]
        BY <1>4, <2>1, <2>3
      <3>2. TaskOK(t)'
        BY <1>6, <1>11, <2>2, <3>1 DEF TaskOK, ClickTask
      <3> QED
        BY <1>1, <1>11, <2>1, <2>2, <2>3, <3>1, <3>2 DEF ClickTask, Edits
    <2>4. CASE ~HasRow(resources, task[t].id)
      <3>1. task'[t] = [task[t] EXCEPT !.phase = "failed"]
            /\ \A u \in Slots : u # t => task'[u] = task[u]
        BY <1>5, <2>1, <2>4
      <3>2. TaskOK(t)'
        BY <1>6, <1>11, <2>2, <3>1 DEF TaskOK, ClickTask
      <3> QED
        BY <1>1, <1>11, <2>1, <2>2, <2>4, <3>1, <3>2 DEF ClickTask, Edits
    <2> QED
      BY <2>3, <2>4
  <1>12. CASE task[t].op \in {"install", "uninstall"}
    <2>1. /\ task' = IF HasRow(resources, task[t].id) THEN Answered(t, None) ELSE Failed(t)
          /\ UNCHANGED resources
      BY <1>12 DEF Serve, run_kubectl
    <2>2. ClickTask(task[t], t[2]) /\ t[1] = "click"
      BY <1>8, <1>12
    <2>3. CASE HasRow(resources, task[t].id)
      <3>1. task'[t] = [task[t] EXCEPT !.phase = "answered", !.answer = None]
            /\ \A u \in Slots : u # t => task'[u] = task[u]
        BY <1>4, <2>1, <2>3
      <3>2. TaskOK(t)'
        BY <1>6, <1>12, <2>2, <3>1 DEF TaskOK, ClickTask
      <3> QED
        BY <1>1, <1>12, <2>1, <2>2, <2>3, <3>1, <3>2 DEF ClickTask, Edits
    <2>4. CASE ~HasRow(resources, task[t].id)
      <3>1. task'[t] = [task[t] EXCEPT !.phase = "failed"]
            /\ \A u \in Slots : u # t => task'[u] = task[u]
        BY <1>5, <2>1, <2>4
      <3>2. TaskOK(t)'
        BY <1>6, <1>12, <2>2, <3>1 DEF TaskOK, ClickTask
      <3> QED
        BY <1>1, <1>12, <2>1, <2>2, <2>4, <3>1, <3>2 DEF ClickTask, Edits
    <2> QED
      BY <2>3, <2>4
  <1> QED
    BY <1>3, <1>7, <1>9, <1>10, <1>11, <1>12

(* What the record has then.                                                *)
LEMMA ServeRecord ==
    ASSUME ListInv, NEW t \in Slots, Serve(t)
    PROVE  /\ resources' \in Seq(Resources) /\ DistinctIds(resources')
           /\ \A i \in Ids : i # Subject(t) => RowsOf(resources', i) = RowsOf(resources, i)
           /\ task[t].op = "add" =>
                 RowsOf(resources', Subject(t)) = {[id |-> Subject(t), def |-> task[t].def]}
           /\ task[t].op = "update" =>
                 /\ RowsOf(resources', Subject(t)) = IF RowsOf(resources, Subject(t)) = {} THEN {}
                                                 ELSE {[id |-> Subject(t), def |-> task[t].def]}
                 /\ task'[t].phase = "answered" <=> RowsOf(resources, Subject(t)) # {}
           /\ task[t].op = "delete" => RowsOf(resources', Subject(t)) = {}
  <1> USE DEF ListInv
  <1>1. resources \in Seq(Resources) /\ DistinctIds(resources)
    BY DEF Shapes
  <1>2. CASE task[t].op \notin Edits
    <2>1. resources' = resources
      BY <1>2, ServeTask
    <2> QED
      BY <1>1, <1>2, <2>1 DEF Edits
  <1>3. CASE task[t].op = "add"
    <2> DEFINE r == [id |-> t[2], def |-> task[t].def]
    <2>1. resources' = Append(resources, r) /\ task[t].phase = "sent"
      BY <1>3, ServeTask
    <2>2. Subject(t) = t[2] /\ Subject(t) \in Ids
      BY <1>3, SubjectForm DEF Edits
    <2>3. task[t].def \in Manifests
      BY <1>3, TaskForm DEF ClickTask
    <2>4. r \in Resources /\ r.id = t[2]
      BY <2>2, <2>3 DEF Resources
    <2>5. RowsOf(resources, t[2]) = {}
      BY <1>3, <2>1 DEF Fresh
    <2>6. ~HasRow(resources, r.id)
      BY <1>1, <2>4, <2>5, InRowsOf
    <2> HIDE DEF r
    <2>7. /\ resources' \in Seq(Resources) /\ DistinctIds(resources')
          /\ \A i : RowsOf(resources', i) = IF i = r.id THEN RowsOf(resources, i) \cup {r} ELSE RowsOf(resources, i)
      BY <1>1, <2>1, <2>4, <2>6, RowAppended
    <2>8. RowsOf(resources', Subject(t)) = {r}
      BY <2>2, <2>4, <2>5, <2>7
    <2>9. RowsOf(resources', Subject(t)) = {[id |-> Subject(t), def |-> task[t].def]}
      BY <2>2, <2>8 DEF r
    <2> QED
      BY <1>3, <2>2, <2>4, <2>7, <2>9
  <1>4. CASE task[t].op = "delete"
    <2>1. resources' = WithoutRow(resources, task[t].id)
      BY <1>4, ServeTask
    <2>2. Subject(t) = task[t].id
      BY <1>4, SubjectForm
    <2> QED
      BY <1>1, <1>4, <2>1, <2>2, RowRemoved
  <1>5. CASE task[t].op = "update"
    <2>1. Subject(t) = task[t].id /\ task[t].def \in Manifests
      BY <1>5, SubjectForm, TaskForm DEF ClickTask
    <2>2. HasRow(resources, task[t].id) <=> RowsOf(resources, Subject(t)) # {}
      BY <1>1, <2>1, InRowsOf
    <2>3. CASE HasRow(resources, task[t].id)
      <3>1. /\ resources' = [resources EXCEPT ![FindRow(resources, task[t].id)].def = task[t].def]
            /\ task'[t].phase = "answered"
        BY <1>5, <2>3, ServeTask
      <3>2. /\ resources' \in Seq(Resources) /\ DistinctIds(resources')
            /\ \A i : RowsOf(resources', i) = IF i = task[t].id THEN {[id |-> task[t].id, def |-> task[t].def]}
                                          ELSE RowsOf(resources, i)
        <4>1. resources' = WithDef(resources, task[t].id, task[t].def)
          BY <3>1 DEF WithDef
        <4> QED
          <5>1. resources \in Seq(Resources) /\ task[t].def \in Manifests /\ HasRow(resources, task[t].id) /\ DistinctIds(resources)
            BY <1>1, <2>1, <2>3
          <5>2. WithDef(resources, task[t].id, task[t].def) \in Seq(Resources)
            BY <5>1, ManifestReplaced
          <5>3. DistinctIds(WithDef(resources, task[t].id, task[t].def))
            BY <5>1, ManifestReplaced
          <5>4. \A i :
                RowsOf(WithDef(resources, task[t].id, task[t].def), i) = IF i = task[t].id THEN {[id |-> task[t].id, def |-> task[t].def]} ELSE RowsOf(resources, i)
            BY <5>1, ManifestReplaced
          <5> QED
            BY <5>2, <5>3, <5>4, <4>1
      <3> QED
        BY <1>5, <2>1, <2>2, <2>3, <3>1, <3>2
    <2>4. CASE ~HasRow(resources, task[t].id)
      <3>1. resources' = resources /\ task'[t].phase = "failed"
        BY <1>5, <2>4, ServeTask
      <3> QED
        BY <1>1, <1>5, <2>2, <2>4, <3>1
    <2> QED
      BY <2>3, <2>4
  <1> QED
    BY <1>2, <1>3, <1>4, <1>5 DEF Edits

LEMMA ServeKeepsList ==
    ASSUME ListInv, CommandInv', NEW t \in Slots, Serve(t)
    PROVE  ListInv'
  <1> USE DEF ListInv
  <1>1. /\ UNCHANGED <<loaded, shown, indicator, pageVars, clicks, fails, inDoubt>>
        /\ task[t].phase = "sent" /\ task[t].op # "idle"
        /\ task'[t].op = task[t].op /\ TaskOK(t)'
        /\ \A u \in Slots : u # t => task'[u] = task[u]
    BY ServeTask
  <1>2. UNCHANGED <<visit, mounted, dialog>>
    BY <1>1 DEF pageVars
  <1>3. /\ resources' \in Seq(Resources) /\ DistinctIds(resources')
        /\ \A i \in Ids : i # Subject(t) => RowsOf(resources', i) = RowsOf(resources, i)
    BY ServeRecord
  <1>4. \A u \in Slots : task'[u].op = task[u].op /\ Subject(u)' = Subject(u)
    <2>1. Subject(t)' = Subject(t)
      <3>1. task[t].op \in Edits => task'[t].id = task[t].id
        BY ServeTask DEF Edits
      <3> QED
        BY <1>1, <3>1 DEF Subject
    <2> QED
      BY <1>1, <2>1 DEF Subject
  <1>5. \A u \in Slots : task[u].op \notin {"idle", "load"} => task'[u].by = task[u].by
    BY <1>1, ServeTask
  <1>6. Shapes'
    <2>1. ASSUME NEW u \in Slots
          PROVE  TaskOK(u)'
      <3>1. CASE u = t
        BY <1>1, <3>1
      <3>2. CASE u # t
        <4>1. TaskOK(u)
          BY DEF Shapes
        <4> QED
          BY <1>1, <1>2, <3>2, <4>1 DEF TaskOK, LoadTask, ClickTask, DistinctIds
      <3> QED
        BY <3>1, <3>2
    <2>2. DistinctIds(resources)' /\ resources' \in Seq(Resources)
      BY <1>3 DEF DistinctIds
    <2> QED
      BY <1>1, <1>2, <2>1, <2>2 DEF Shapes
  <1>7. Fresh'
    <2>1. ASSUME NEW n \in 1..Ops, n > clicks
          PROVE  task'[<<"click", n>>] = Idle
      <3>1. <<"click", n>> \in Slots /\ task[<<"click", n>>] = Idle
        BY <2>1 DEF Fresh, Slots
      <3>2. <<"click", n>> # t
        BY <1>1, <3>1 DEF Idle
      <3> QED
        BY <1>1, <3>1, <3>2
    <2>2. ASSUME NEW i \in Ids, i > clicks
          PROVE  Unused(i)'
      <3>1. Unused(i)
        BY <2>2 DEF Fresh
      <3>2. RowsOf(resources', i) = {} /\ RowsOf(shown', i) = {} /\ dialog'.id # i
        BY <1>1, <1>2, <1>3, <3>1 DEF Unused
      <3>3. ASSUME NEW u \in Slots, task'[u].op = "load", task'[u].phase = "answered"
            PROVE  RowsOf(task'[u].answer, i) = {}
        <4>1. CASE u = t
          <5>1. task'[t].answer = resources
            BY <1>4, <3>3, <4>1, ServeTask
          <5> QED
            BY <3>1, <4>1, <5>1 DEF Unused
        <4>2. CASE u # t
          BY <1>1, <3>1, <3>3, <4>2 DEF Unused
        <4> QED
          BY <4>1, <4>2
      <3> QED
        BY <1>4, <3>1, <3>2, <3>3 DEF Unused, RowsOf
    <2>3. ASSUME NEW u \in Slots, task'[u].op = "add", task'[u].phase = "sent"
          PROVE  RowsOf(resources', u[2]) = {}
      <3>1. u # t
        <4>1. task[t].op = "add" => task'[t].phase = "answered"
          BY ServeTask
        <4> QED
          BY <1>4, <2>3, <4>1
      <3>2. task[u].op = "add" /\ task[u].phase = "sent" /\ RowsOf(resources, u[2]) = {}
        BY <1>1, <2>3, <3>1 DEF Fresh
      <3>3. u = <<"click", u[2]>> /\ u[2] \in Ids
        BY <3>2, TaskForm, Bounds
      <3>4. CASE u[2] # Subject(t)
        BY <1>3, <3>2, <3>3, <3>4
      <3>5. CASE u[2] = Subject(t)
        <4>1. task[t].op \in Edits /\ Subject(t) \in Ids
          BY <3>3, <3>5, Bounds, SubjectForm
        <4>2. task[t].op # "add"
          <5>1. ASSUME task[t].op = "add" PROVE FALSE
            <6>1. Subject(t) = t[2] /\ t = <<"click", t[2]>>
              BY <5>1, SubjectForm, TaskForm
            <6> QED
              BY <3>1, <3>3, <3>5, <6>1
          <5> QED
            BY <5>1
        <4>3. RowsOf(resources, Subject(t)) = {}
          BY <3>2, <3>5
        <4> QED
          BY <3>5, <4>1, <4>2, <4>3, ServeRecord DEF Edits
      <3> QED
        BY <3>4, <3>5
    <2> QED
      BY <1>1, <2>1, <2>2, <2>3 DEF Fresh, RowsOf
  <1>8. Editing' <=> Editing
    <2>1. \A u \in Slots : Running(u)' /\ task'[u].op \in Edits <=> Running(u) /\ task[u].op \in Edits
      <3>1. "idle" \notin Edits
        BY DEF Edits
      <3>2. \A u \in Slots : (task[u] = Idle <=> task[u].op = "idle")
        BY TaskForm
      <3>3. \A u \in Slots : (task'[u] = Idle => task'[u].op = "idle")
        BY DEF Idle
      <3> QED
        BY <1>4, <3>1, <3>2, <3>3 DEF Running
    <2> QED
      BY <2>1 DEF Editing
  <1>9. CleanLoads'
    <2>1. ASSUME NEW u \in Slots, task'[u].op = "load", task'[u].clean
          PROVE  ~Editing' /\ (task'[u].phase = "answered" => task'[u].answer = resources')
      <3>1. task[u].op = "load" /\ task[u].clean
        BY <1>1, <1>4, <2>1, ServeTask
      <3>2. ~Editing /\ (task[u].phase = "answered" => task[u].answer = resources)
        BY <3>1 DEF CleanLoads
      <3>3. resources' = resources
        <4>1. task[t].op \notin Edits
          BY <1>1, <3>2, TaskForm DEF Editing
        <4> QED
          BY <4>1, ServeTask
      <3>4. CASE u = t
        BY <1>8, <3>1, <3>2, <3>3, <3>4, ServeTask
      <3>5. CASE u # t
        BY <1>1, <1>8, <3>2, <3>3, <3>5
      <3> QED
        BY <3>4, <3>5
    <2> QED
      BY <2>1 DEF CleanLoads
  <1>11. ASSUME loaded, ~inDoubt
         PROVE  Sync'
    <2>1. Sync
      BY <1>11
    <2>2. PICK s : s = Subject(t)
      OBVIOUS
    <2>3. s \in Ids \cup {None} /\ Subject(t)' = s /\ (s # None <=> task[t].op \in Edits)
      BY <1>4, <2>2, SubjectForm
    <2>4. DistinctIds(shown)'
      BY <1>1, <2>1 DEF Sync, DistinctIds
    <2>5. \A u \in Slots : u # t => task'[u].op = task[u].op /\ (task[u].op \in Edits => task'[u] = task[u])
      BY <1>1
    <2>6. \A i \in Ids : i # s => RowsOf(resources', i) = RowsOf(resources, i) /\ RowsOf(shown', i) = RowsOf(shown, i)
      BY <1>1, <1>3, <2>2
    <2>7. \A u \in Slots : u # t /\ s # None => Subject(u) # s
      BY <2>1, <2>2 DEF Sync
    <2>8. \A u \in Slots : u # t /\ task[u].op = "add" => dialog'.id # u[2]
      <3>1. \A u \in Slots : task[u].op = "add" => EditState(u) /\ Subject(u) = u[2]
        BY <2>1, SubjectForm DEF Sync, Edits
      <3> QED
        BY <1>2, <3>1 DEF EditState
    <2>9. ASSUME task'[t].op \in Edits
          PROVE  EditState(t)'
      <3>1. EditState(t) /\ s \in Ids
        BY <1>1, <2>1, <2>2, <2>9, SubjectForm DEF Sync
      <3>2. RowsOf(resources, Subject(t))' = RowsOf(resources', s) /\ RowsOf(shown, Subject(t))' = RowsOf(shown, s)
        BY <1>1, <2>3 DEF RowsOf
      <3>3. CASE task[t].op = "add"
        <4>1. RowsOf(resources', s) = {[id |-> s, def |-> task[t].def]} /\ task'[t].def = task[t].def
          BY <2>2, <3>3, ServeRecord, ServeTask
        <4>2. dialog.id # s /\ RowsOf(shown, s) = {}
          BY <2>2, <3>1, <3>3 DEF EditState
        <4> QED
          BY <1>1, <1>2, <2>3, <3>2, <3>3, <4>1, <4>2 DEF EditState
      <3>4. CASE task[t].op = "update"
        <4>1. /\ RowsOf(resources', s) = IF RowsOf(resources, s) = {} THEN {} ELSE {[id |-> s, def |-> task[t].def]}
              /\ task'[t].phase = "answered" <=> RowsOf(resources, s) # {}
              /\ task'[t].def = task[t].def
          BY <2>2, <3>4, ServeRecord, ServeTask
        <4>2. RowsOf(shown, s) = IF RowsOf(resources, s) = {} THEN {} ELSE {[id |-> s, def |-> task[t].def]}
          BY <1>1, <2>2, <3>1, <3>4 DEF EditState
        <4>3. RowsOf(shown, s) = IF task'[t].phase = "answered" THEN RowsOf(resources', s)
                             ELSE IF RowsOf(resources', s) = {} THEN {} ELSE {[id |-> s, def |-> task'[t].def]}
          BY <4>1, <4>2
        <4> QED
          BY <1>1, <2>3, <3>2, <3>4, <4>3 DEF EditState
      <3>5. CASE task[t].op = "delete"
        <4>1. RowsOf(resources', s) = {} /\ task'[t].phase = "answered"
          BY <2>2, <3>5, ServeRecord, ServeTask
        <4> QED
          BY <1>1, <2>3, <3>2, <3>5, <4>1 DEF EditState
      <3> QED
        BY <1>1, <2>9, <3>3, <3>4, <3>5 DEF Edits
    <2>10. s # None /\ Subject(t)' = None => RowsOf(shown', s) = RowsOf(resources', s)
      BY <2>3
    <2>11. Shapes /\ Subject(t) \in {s, None} /\ Subject(t)' \in {s, None}
      BY <2>2, <2>3
    <2> QED
      BY <1>6, <2>1, <2>3, <2>4, <2>5, <2>6, <2>7, <2>8, <2>9, <2>10, <2>11, SyncOne
  <1> QED
    BY <1>1, <1>6, <1>7, <1>9, <1>11

(* A task ends.                                                             *)
LEMMA TaskEnds ==
    ASSUME ListInv, CommandInv', NEW t \in Slots, Running(t), task' = [task EXCEPT ![t] = Idle],
           UNCHANGED <<resources, visit, clicks>>,
           shown' \in Seq(Resources), fails' \in 0..Fails,
           dialog' \in Dialogs, mounted' \in BOOLEAN,
           dialog'.open => mounted' /\ loaded', mounted' => mounted, loaded' \/ shown' = <<>>,
           loaded' \in BOOLEAN, loaded => loaded', inDoubt' \in BOOLEAN,
           \A i \in Ids : i > clicks => RowsOf(shown', i) = {} /\ dialog'.id # i
    PROVE  /\ Shapes' /\ Fresh' /\ CleanLoads'
           /\ task'[t] = Idle /\ Subject(t)' = None
           /\ \A u \in Slots : u # t => task'[u] = task[u] /\ Subject(u)' = Subject(u)
  <1> USE DEF ListInv
  <1>1. /\ task'[t] = Idle
        /\ \A u \in Slots : u # t => task'[u] = task[u]
    BY DEF Shapes, CommandInv, TaskShape
  <1>2. Idle.op = "idle"
    BY DEF Idle
  <1>3. /\ Subject(t)' = None
        /\ \A u \in Slots : u # t => Subject(u)' = Subject(u)
    BY <1>1, <1>2 DEF Subject, Edits
  <1>4. \A u \in Slots : task'[u].op # "idle" => u # t
    BY <1>1, <1>2
  <1>5. Shapes'
    <2>1. ASSUME NEW u \in Slots
          PROVE  TaskOK(u)'
      <3>1. TaskOK(u)
        BY DEF Shapes
      <3> QED
        BY <1>1, <3>1 DEF TaskOK, LoadTask, ClickTask, DistinctIds
    <2> QED
      BY <2>1 DEF Shapes, DistinctIds
  <1>6. Fresh'
    <2>1. ASSUME NEW i \in Ids, i > clicks
          PROVE  Unused(i)'
      <3>1. Unused(i) /\ None # i
        BY <2>1, Bounds DEF Fresh
      <3>2. \A u \in Slots : Subject(u)' # i
        BY <1>3, <3>1 DEF Unused
      <3>3. \A u \in Slots : task'[u].op = "load" /\ task'[u].phase = "answered" => RowsOf(task'[u].answer, i) = {}
        BY <1>1, <1>4, <3>1 DEF Unused
      <3> QED
        BY <2>1, <3>1, <3>2, <3>3 DEF Unused, RowsOf
    <2>2. \A u \in Slots : task'[u].op = "add" /\ task'[u].phase = "sent" => RowsOf(resources', u[2]) = {}
      BY <1>1, <1>4 DEF Fresh
    <2>3. \A n \in 1..Ops : n > clicks => task'[<<"click", n>>] = Idle
      <3>1. \A n \in 1..Ops : <<"click", n>> \in Slots
        BY DEF Slots
      <3> QED
        BY <1>1, <3>1 DEF Fresh
    <2> QED
      BY <2>1, <2>2, <2>3 DEF Fresh, RowsOf
  <1>7. CleanLoads'
    <2>1. Editing' => Editing
      BY <1>1, <1>4 DEF Editing, Running, Edits
    <2> QED
      BY <1>1, <1>4, <2>1 DEF CleanLoads
  <1> QED
    BY <1>1, <1>3, <1>5, <1>6, <1>7

(* What it was about is the same in both lists then.                        *)
LEMMA SyncEnds ==
    ASSUME Shapes, Shapes', Sync, DistinctIds(shown'), NEW t \in Slots,
           resources' = resources,
           task'[t] = Idle, Subject(t)' = None,
           \A u \in Slots : u # t => task'[u] = task[u],
           \/ dialog'.id \in {None, dialog.id} \/ (task[t].op = "add" /\ dialog'.id = t[2])
           \/ RowsOf(shown, dialog'.id) # {},
           \A i \in Ids : i # Subject(t) => RowsOf(shown', i) = RowsOf(shown, i),
           task[t].op \in Edits => RowsOf(shown', Subject(t)) = RowsOf(resources, Subject(t))
    PROVE  Sync'
  <1>1. PICK s : s = Subject(t)
    OBVIOUS
  <1>2. s \in Ids \cup {None} /\ (s # None => task[t].op \in Edits)
    BY <1>1, SubjectForm
  <1>3. task'[t].op \notin Edits
    BY DEF Idle, Edits
  <1>4. \A u \in Slots : u # t /\ s # None => Subject(u) # s
    BY <1>1 DEF Sync
  <1>5. ASSUME NEW u \in Slots, u # t, task[u].op = "add"
        PROVE  dialog'.id # u[2]
    <2>1. EditState(u) /\ Subject(u) = u[2] /\ u = <<"click", u[2]>> /\ u[2] \in Ids
      BY <1>5, SubjectForm, TaskForm, Bounds DEF Sync, Edits
    <2>2. dialog.id # u[2] /\ RowsOf(shown, u[2]) = {}
      BY <1>5, <2>1 DEF EditState
    <2>3. task[t].op = "add" => t = <<"click", t[2]>>
      BY TaskForm
    <2> QED
      BY <1>5, <2>1, <2>2, <2>3, Bounds
  <1>6. \A u \in Slots : u # t => task'[u].op = task[u].op /\ (task[u].op \in Edits => task'[u] = task[u])
    OBVIOUS
  <1>7. \A i \in Ids : i # s => RowsOf(resources', i) = RowsOf(resources, i) /\ RowsOf(shown', i) = RowsOf(shown, i)
    BY <1>1
  <1>8. s # None /\ Subject(t)' = None => RowsOf(shown', s) = RowsOf(resources', s)
    BY <1>1, <1>2
  <1>9. DistinctIds(shown)' /\ Subject(t) \in {s, None} /\ Subject(t)' \in {s, None}
    BY <1>1 DEF DistinctIds
  <1> QED
    BY <1>2, <1>3, <1>4, <1>5, <1>6, <1>7, <1>8, <1>9, SyncOne

LEMMA RejectKeepsList ==
    ASSUME ListInv, CommandInv', NEW t \in Slots, Reject(t)
    PROVE  ListInv'
  <1> USE DEF ListInv
  <1> DEFINE k == task[t]
  <1>1. /\ Running(t) /\ task' = [task EXCEPT ![t] = Idle]
        /\ UNCHANGED <<resources, loaded, shown, visit, clicks>>
        /\ fails' = fails \/ (fails < Fails /\ fails' = fails + 1)
        /\ \/ mounted' = FALSE /\ dialog' = NoDialog
           \/ mounted' = mounted /\ dialog' = Ended(t[2])
        /\ inDoubt' = \/ inDoubt
                      \/ k.op = "update" /\ k.phase # "answered"
                      \/ k.op \in {"add", "delete"} /\ k.phase = "answered"
    BY DEF Reject
  <1>2. /\ shown \in Seq(Resources) /\ fails \in 0..Fails /\ inDoubt \in BOOLEAN /\ mounted \in BOOLEAN
        /\ dialog \in Dialogs /\ (dialog.open => mounted /\ loaded) /\ loaded \in BOOLEAN
        /\ loaded \/ shown = <<>>
    BY DEF Shapes
  <1>3. NoDialog \in Dialogs /\ NoDialog.open = FALSE /\ NoDialog.id = None
    BY DEF NoDialog, Dialogs
  <1>4. fails' \in 0..Fails
    BY <1>1, <1>2, Bounds
  <1>5. /\ dialog' \in Dialogs /\ mounted' \in BOOLEAN
        /\ (dialog'.open => mounted' /\ loaded') /\ (mounted' => mounted)
        /\ dialog'.id \in {None, dialog.id}
    <2>1. CASE mounted' = FALSE /\ dialog' = NoDialog
      BY <1>2, <1>3, <2>1
    <2>2. CASE mounted' = mounted /\ dialog' = Ended(t[2])
      BY <1>1, <1>2, <2>2, EndedFields
    <2> QED
      BY <1>1, <2>1, <2>2
  <1>6. \A i \in Ids : i > clicks => RowsOf(shown', i) = {} /\ dialog'.id # i
    <2>1. \A i \in Ids : i > clicks => RowsOf(shown, i) = {} /\ dialog.id # i
      BY DEF Fresh, Unused
    <2> QED
      BY <1>1, <1>5, <2>1, Bounds
  <1>7. inDoubt' \in BOOLEAN
    BY <1>1, <1>2
  <1>8. /\ Shapes' /\ Fresh' /\ CleanLoads'
        /\ task'[t] = Idle /\ Subject(t)' = None
        /\ \A u \in Slots : u # t => task'[u] = task[u]
    BY <1>1, <1>2, <1>4, <1>5, <1>6, <1>7, TaskEnds
  <1>9. ASSUME loaded', ~inDoubt'
        PROVE  Sync'
    <2>1. Sync
      BY <1>1, <1>9
    <2>2. ASSUME task[t].op \in Edits
          PROVE  RowsOf(shown', Subject(t)) = RowsOf(resources, Subject(t))
      <3>1. EditState(t)
        BY <2>1, <2>2 DEF Sync
      <3>2. ClickTask(task[t], t[2])
        BY <2>2, TaskForm DEF Edits
      <3>3. CASE task[t].op = "add"
        <4>1. task[t].phase = "sent"
          BY <1>1, <1>9, <3>2, <3>3 DEF ClickTask
        <4>2. RowsOf(resources, t[2]) = {} /\ Subject(t) = t[2]
          BY <3>3, <4>1, SubjectForm DEF Fresh
        <4> QED
          BY <1>1, <3>1, <3>3, <4>2 DEF EditState
      <3>4. CASE task[t].op = "update"
        BY <1>1, <1>9, <3>1, <3>4 DEF EditState
      <3>5. CASE task[t].op = "delete"
        BY <1>1, <1>9, <3>1, <3>5 DEF EditState
      <3> QED
        BY <2>2, <3>3, <3>4, <3>5 DEF Edits
    <2>3. DistinctIds(shown') /\ \A i \in Ids : i # Subject(t) => RowsOf(shown', i) = RowsOf(shown, i)
      BY <1>1, <2>1 DEF Sync
    <2> QED
      BY <1>1, <1>5, <1>8, <2>1, <2>2, <2>3, SyncEnds
  <1> QED
    BY <1>8, <1>9

(* An answer of the server comes to the page, whatever visit it is.         *)
LEMMA AnswerStep ==
    ASSUME ListInv, NEW t \in Slots, Answer(t)
    PROVE  LET k == task[t]
           IN  /\ Running(t) /\ k.phase = "answered" /\ k.op # "idle"
               /\ task' = [task EXCEPT ![t] = Idle]
               /\ UNCHANGED <<resources, visit, mounted, clicks, fails>>
               /\ k.op = "load" => loadProject(k)
               /\ k.op = "add" => addK8sResources(t)
               /\ k.op = "update" => updateK8sResources(t)
               /\ k.op = "delete" => deleteK8sResources(k)
               /\ k.op \notin {"load"} \cup Edits => UNCHANGED <<loaded, shown, dialog, inDoubt>>
  <1>1. task[t].op # "idle"
    BY TaskForm DEF Answer, Running, ListInv
  <1> QED
    BY <1>1 DEF Answer, Edits

(* What it leaves in the list and in the dialog.                            *)
LEMMA AnswerIs ==
    ASSUME ListInv, NEW t \in Slots, Answer(t)
    PROVE  /\ loaded' \in BOOLEAN /\ (loaded => loaded') /\ inDoubt' \in BOOLEAN
           /\ shown' \in Seq(Resources)
           /\ dialog' \in Dialogs /\ (dialog'.open => dialog.open)
           /\ \/ dialog'.id \in {None, dialog.id} \/ (task[t].op = "add" /\ dialog'.id = t[2])
              \/ RowsOf(shown, dialog'.id) # {}
           /\ (loaded \/ shown = <<>>) => (loaded' \/ shown' = <<>>)
           /\ task[t].op # "load" =>
                 /\ loaded' = loaded /\ inDoubt' = inDoubt
                 /\ DistinctIds(shown) /\ (task[t].op = "add" => RowsOf(shown, t[2]) = {}) => DistinctIds(shown')
                 /\ \A i \in Ids : i # Subject(t) => RowsOf(shown', i) = RowsOf(shown, i)
                 /\ task[t].op = "add" =>
                       RowsOf(shown', t[2]) = RowsOf(shown, t[2]) \cup {[id |-> t[2], def |-> task[t].def]}
                 /\ task[t].op = "update" => shown' = shown
                 /\ task[t].op = "delete" => RowsOf(shown', Subject(t)) = {}
           /\ task[t].op = "load" => shown' = task[t].answer /\ inDoubt' = ~task[t].clean
           /\ task[t].op = "load" => DistinctIds(shown')
  <1> USE DEF ListInv
  <1> DEFINE k == task[t]
  <1>1. /\ k.phase = "answered" /\ k.op # "idle"
        /\ k.op = "load" => loadProject(k)
        /\ k.op = "add" => addK8sResources(t)
        /\ k.op = "update" => updateK8sResources(t)
        /\ k.op = "delete" => deleteK8sResources(k)
        /\ k.op \notin {"load"} \cup Edits => UNCHANGED <<loaded, shown, dialog, inDoubt>>
    BY AnswerStep
  <1>2. /\ shown \in Seq(Resources) /\ inDoubt \in BOOLEAN /\ loaded \in BOOLEAN
        /\ dialog \in Dialogs /\ clicks \in 0..Ops
    BY DEF Shapes
  <1>3. NoDialog \in Dialogs /\ NoDialog.open = FALSE /\ NoDialog.id = None
    BY DEF NoDialog, Dialogs
  <1>8. k.op # "load" => loaded
    <2>1. k.op # "load" => t = <<"click", t[2]>> /\ t[2] \in 1..Ops /\ task[t] # Idle
      BY <1>1, TaskForm DEF Idle
    <2>2. k.op # "load" => clicks # 0
      BY <1>2, <2>1, Bounds DEF Fresh
    <2> QED
      BY <2>2 DEF Shapes
  <1>9. Ended(t[2]) \in Dialogs /\ Ended(t[2]).id = dialog.id /\ Ended(t[2]).open = dialog.open
    BY <1>2, EndedFields
  <1>4. CASE k.op = "load"
    <2>1. /\ loaded' = TRUE /\ shown' = k.answer /\ inDoubt' = ~k.clean /\ dialog' = dialog
      BY <1>1, <1>4 DEF loadProject
    <2>2. LoadTask(k)
      BY <1>4, TaskForm
    <2>3. k.answer \in Seq(Resources) /\ DistinctIds(k.answer) /\ k.clean \in BOOLEAN
      BY <1>1, <2>2 DEF LoadTask
    <2> QED
      BY <1>2, <1>4, <2>1, <2>3
  <1>5. CASE k.op = "add"
    <2> DEFINE r == [id |-> t[2], def |-> k.def]
    <2>1. Subject(t) = t[2] /\ t[2] \in Ids /\ ClickTask(k, t[2])
      BY <1>5, SubjectForm, TaskForm DEF Edits
    <2>2. k.answer = t[2] /\ k.def \in Manifests
      BY <1>1, <1>5, <2>1 DEF ClickTask
    <2>3. r \in Resources /\ r.id = t[2]
      BY <2>1, <2>2 DEF Resources
    <2>4. /\ shown' = Append(shown, r) /\ loaded' = loaded /\ inDoubt' = inDoubt
          /\ dialog' = dialog \/ dialog' = Reinitialized(Ended(t[2]), t[2], k.def)
      BY <1>1, <1>5, <2>2 DEF addK8sResources, GoOn
    <2>5. /\ dialog' \in Dialogs /\ dialog'.open = dialog.open
          /\ dialog'.id \in {dialog.id, t[2]}
      <3>1. PICK e, def : e = Ended(t[2]) /\ def = k.def
        OBVIOUS
      <3>2. Reinitialized(e, t[2], def) \in Dialogs
                /\ Reinitialized(e, t[2], def).open = e.open /\ Reinitialized(e, t[2], def).id = t[2]
        <4>1. e \in Dialogs /\ t[2] \in Ids \cup {None} /\ def \in Manifests \cup {None}
          BY <1>9, <2>1, <2>2, <3>1
        <4> QED
          BY <4>1, DialogFields
      <3> QED
        BY <1>2, <1>9, <2>4, <3>1, <3>2
    <2> HIDE DEF r, k
    <2>6. /\ shown' \in Seq(Resources)
          /\ \A i : RowsOf(shown', i) = IF i = r.id THEN RowsOf(shown, i) \cup {r} ELSE RowsOf(shown, i)
          /\ DistinctIds(shown) /\ ~HasRow(shown, r.id) => DistinctIds(shown')
      BY <1>2, <2>3, <2>4, RowAppended
    <2>7. ~HasRow(shown, r.id) <=> RowsOf(shown, t[2]) = {}
      BY <1>2, <2>3, InRowsOf
    <2>8. RowsOf(shown', t[2]) = RowsOf(shown, t[2]) \cup {r}
      BY <2>3, <2>6
    <2> QED
      BY <1>2, <1>5, <1>8, <2>1, <2>3, <2>4, <2>5, <2>6, <2>7, <2>8 DEF r, k
  <1>6. CASE k.op = "delete"
    <2>1. Subject(t) = k.id
      BY <1>6, SubjectForm
    <2>2. /\ shown' = WithoutRow(shown, k.id) /\ loaded' = loaded /\ inDoubt' = inDoubt
          /\ dialog' = dialog \/ dialog' = NoDialog
      BY <1>1, <1>6 DEF deleteK8sResources
    <2>3. /\ shown' \in Seq(Resources)
          /\ \A i : RowsOf(shown', i) = IF i = k.id THEN {} ELSE RowsOf(shown, i)
          /\ DistinctIds(shown) => DistinctIds(shown')
      <3>1. PICK x : x = k.id
        OBVIOUS
      <3>2. /\ WithoutRow(shown, x) \in Seq(Resources)
            /\ \A i : RowsOf(WithoutRow(shown, x), i) = IF i = x THEN {} ELSE RowsOf(shown, i)
            /\ DistinctIds(shown) => DistinctIds(WithoutRow(shown, x))
        BY <1>2, RowRemoved
      <3> HIDE DEF k
      <3> QED
        BY <2>2, <3>1, <3>2
    <2>4. /\ dialog' \in Dialogs /\ (dialog'.open => dialog.open)
          /\ dialog'.id \in {None, dialog.id}
      BY <1>2, <1>3, <2>2
    <2> QED
      BY <1>2, <1>6, <1>8, <2>1, <2>2, <2>3, <2>4
  <1>7. CASE k.op = "update"
    <2>1. UNCHANGED <<loaded, shown, inDoubt>>
      BY <1>1, <1>7 DEF updateK8sResources
    <2>2. k.id \in Ids
      BY <1>7, TaskForm DEF ClickTask
    <2>3. PICK x : x = k.id
      OBVIOUS
    <2>4. /\ dialog' \in Dialogs /\ dialog'.open = dialog.open
          /\ dialog'.id = dialog.id \/ RowsOf(shown, dialog'.id) # {}
      <3>1. CASE HasRow(shown, x) /\ dialog.id # x
        <4>1. dialog' = dialog \/ dialog' = Reinitialized(Ended(t[2]), x, shown[FindRow(shown, x)].def)
          BY <1>1, <1>7, <2>3, <3>1 DEF updateK8sResources, GoOn
        <4>2. PICK a : a = FindRow(shown, x)
          OBVIOUS
        <4>3. a \in DOMAIN shown
          BY <1>2, <3>1, <4>2, RowFound
        <4>4. shown[a].def \in Manifests
          <5>1. shown[a] \in Resources
            BY <1>2, <4>3
          <5> QED
            BY <5>1 DEF Resources
        <4>5. RowsOf(shown, x) # {}
          BY <1>2, <3>1, InRowsOf
        <4>6. PICK e, def : e = Ended(t[2]) /\ def = shown[a].def
          OBVIOUS
        <4>7. Reinitialized(e, x, def) \in Dialogs
                  /\ Reinitialized(e, x, def).open = e.open /\ Reinitialized(e, x, def).id = x
          <5>1. e \in Dialogs /\ x \in Ids \cup {None} /\ def \in Manifests \cup {None}
            BY <1>9, <2>2, <2>3, <4>4, <4>6
          <5> QED
            BY <5>1 DEF Reinitialized, Dialogs
        <4> QED
          BY <1>2, <1>9, <4>1, <4>2, <4>5, <4>6, <4>7
      <3>2. CASE ~(HasRow(shown, x) /\ dialog.id # x)
        <4>1. dialog' = Ended(t[2])
          BY <1>1, <1>7, <2>3, <3>2 DEF updateK8sResources
        <4> QED
          BY <1>9, <4>1
      <3> QED
        BY <3>1, <3>2
    <2> QED
      BY <1>2, <1>7, <2>1, <2>4
  <1>10. CASE k.op \notin {"load"} \cup Edits
    <2>1. UNCHANGED <<loaded, shown, dialog, inDoubt>>
      BY <1>1, <1>10
    <2> QED
      BY <1>2, <1>10, <2>1 DEF Edits
  <1> QED
    BY <1>4, <1>5, <1>6, <1>7, <1>10 DEF Edits

LEMMA AnswerKeepsList ==
    ASSUME ListInv, CommandInv', NEW t \in Slots, Answer(t)
    PROVE  ListInv'
  <1> USE DEF ListInv
  <1>1. /\ Running(t) /\ task[t].phase = "answered" /\ task[t].op # "idle"
        /\ task' = [task EXCEPT ![t] = Idle]
        /\ UNCHANGED <<resources, visit, mounted, clicks, fails>>
    BY AnswerStep
  <1>2. /\ fails \in 0..Fails /\ mounted \in BOOLEAN /\ (dialog.open => mounted /\ loaded)
        /\ resources \in Seq(Resources) /\ DistinctIds(resources)
    BY DEF Shapes
  <1>3. /\ loaded' \in BOOLEAN /\ (loaded => loaded') /\ inDoubt' \in BOOLEAN
        /\ shown' \in Seq(Resources)
        /\ dialog' \in Dialogs /\ (dialog'.open => dialog.open)
        /\ \/ dialog'.id \in {None, dialog.id} \/ (task[t].op = "add" /\ dialog'.id = t[2])
           \/ RowsOf(shown, dialog'.id) # {}
        /\ loaded' \/ shown' = <<>>
    BY AnswerIs DEF Shapes
  <1>4. ASSUME NEW i \in Ids, i > clicks
        PROVE  RowsOf(shown', i) = {} /\ dialog'.id # i
    <2>1. Unused(i)
      BY <1>4 DEF Fresh
    <2>2. dialog.id # i /\ RowsOf(shown, i) = {} /\ Subject(t) # i /\ None # i
      BY <2>1, Bounds DEF Unused
    <2>3. task[t].op = "add" => t[2] # i
      BY <2>2, SubjectForm
    <2>4. CASE task[t].op = "load"
      <3>1. shown' = task[t].answer /\ RowsOf(task[t].answer, i) = {}
        BY <1>1, <2>1, <2>4, AnswerIs DEF Unused
      <3> QED
        BY <1>3, <2>2, <2>3, <3>1
    <2>5. CASE task[t].op # "load"
      <3>1. RowsOf(shown', i) = RowsOf(shown, i)
        BY <2>2, <2>5, AnswerIs
      <3> QED
        BY <1>3, <2>2, <2>3, <3>1
    <2> QED
      BY <2>4, <2>5
  <1>5. /\ Shapes' /\ Fresh' /\ CleanLoads'
        /\ task'[t] = Idle /\ Subject(t)' = None
        /\ \A u \in Slots : u # t => task'[u] = task[u]
    BY <1>1, <1>2, <1>3, <1>4, TaskEnds
  <1>6. ASSUME loaded', ~inDoubt', task[t].op # "load"
        PROVE  Sync'
    <2>1. Sync
      BY <1>6, AnswerIs
    <2>2. ASSUME task[t].op \in Edits
          PROVE  RowsOf(shown', Subject(t)) = RowsOf(resources, Subject(t))
      <3>1. EditState(t) /\ Subject(t) \in Ids
        BY <2>1, <2>2, SubjectForm DEF Sync
      <3>2. CASE task[t].op = "add"
        <4>1. RowsOf(shown', t[2]) = RowsOf(shown, t[2]) \cup {[id |-> t[2], def |-> task[t].def]} /\ Subject(t) = t[2]
          BY <1>6, <3>2, AnswerIs, SubjectForm
        <4> QED
          BY <1>1, <3>1, <3>2, <4>1 DEF EditState
      <3>3. CASE task[t].op = "update"
        <4>1. shown' = shown
          BY <1>6, <3>3, AnswerIs
        <4> QED
          BY <1>1, <3>1, <3>3, <4>1 DEF EditState
      <3>4. CASE task[t].op = "delete"
        <4>1. RowsOf(shown', Subject(t)) = {}
          BY <1>6, <3>4, AnswerIs
        <4> QED
          BY <1>1, <3>1, <3>4, <4>1 DEF EditState
      <3> QED
        BY <2>2, <3>2, <3>3, <3>4 DEF Edits
    <2>3. task[t].op = "add" => RowsOf(shown, t[2]) = {}
      BY <2>1, SubjectForm DEF Sync, EditState, Edits
    <2>4. DistinctIds(shown') /\ \A i \in Ids : i # Subject(t) => RowsOf(shown', i) = RowsOf(shown, i)
      BY <1>6, <2>1, <2>3, AnswerIs DEF Sync
    <2> QED
      BY <1>1, <1>3, <1>5, <2>1, <2>2, <2>4, SyncEnds
  <1>7. ASSUME loaded', ~inDoubt', task[t].op = "load"
        PROVE  Sync'
    <2>1. shown' = task[t].answer /\ task[t].clean
      BY <1>7, AnswerIs, TaskForm DEF LoadTask
    <2>2. shown' = resources' /\ ~Editing
      BY <1>1, <1>7, <2>1 DEF CleanLoads
    <2>3. \A u \in Slots : task'[u].op \notin Edits
      <3>1. \A u \in Slots : task[u].op \notin Edits
        BY <2>2, TaskForm DEF Editing, Edits
      <3> QED
        BY <1>5, <3>1 DEF Idle, Edits
    <2>4. \A u \in Slots : Subject(u)' = None
      BY <2>3 DEF Subject, Edits
    <2>5. DistinctIds(shown)'
      BY <1>1, <1>2, <2>2 DEF DistinctIds
    <2>6. \A i : RowsOf(shown, i)' = RowsOf(resources, i)'
      BY <2>2 DEF RowsOf
    <2> QED
      BY <2>3, <2>4, <2>5, <2>6 DEF Sync
  <1> QED
    BY <1>5, <1>6, <1>7

(* A click takes a slot of its own.                                         *)
LEMMA ClickTaken ==
    ASSUME ListInv, NEW op \in Edits \cup Commands, NEW d, Click(op, d),
           op = "add" => dialog.id = None, op # "add" => dialog.id # None,
           op \in {"add", "update"} => d \in Manifests,
           NEW s, s = <<"click", clicks + 1>>
    PROVE  /\ s \in Slots /\ s[1] = "click" /\ s[2] = clicks + 1 /\ s[2] \in Ids
           /\ clicks' = clicks + 1 /\ clicks' \in 0..Ops
           /\ loaded /\ UNCHANGED <<resources, loaded, visit, mounted, fails>>
           /\ task[s] = Idle /\ TaskOK(s)'
           /\ task'[s].op = op /\ task'[s].id = dialog.id /\ task'[s].def = d
           /\ task'[s].by = visit /\ task'[s].phase = "sent"
           /\ \A u \in Slots : u # s =>
                 /\ task'[u].op = task[u].op /\ TaskOK(u)'
                 /\ task[u].op # "load" => task'[u] = task[u]
                 /\ task[u].op = "load" =>
                       /\ task'[u].phase = task[u].phase /\ task'[u].answer = task[u].answer
                       /\ task'[u].clean => task[u].clean /\ op \notin Edits
           /\ ~inDoubt' =>
                 /\ ~inDoubt
                 /\ op \in {"update", "delete"} => \A u \in Slots : task[u].op \in Edits => task[u].id # dialog.id
           /\ inDoubt' \in BOOLEAN
  <1> USE DEF ListInv
  <1>1. /\ dialog.open /\ clicks < Ops /\ clicks' = clicks + 1
        /\ UNCHANGED <<resources, loaded, visit, mounted, fails>>
    BY DEF Click
  <1>2. /\ clicks \in 0..Ops /\ visit \in 0..Visits /\ visit # 0
        /\ dialog.id \in Ids \cup {None} /\ inDoubt \in BOOLEAN /\ loaded \in BOOLEAN
    BY <1>1 DEF Shapes, Dialogs
  <1>3. s \in Slots /\ s[1] = "click" /\ s[2] = clicks + 1 /\ s[2] \in 1..Ops /\ s[2] \in Ids /\ clicks' \in 0..Ops
    BY <1>1, <1>2, Bounds DEF Slots
  <1>4. loaded
    BY <1>1 DEF Shapes
  <1>5. task[s] = Idle
    BY <1>2, <1>3, Bounds DEF Fresh
  <1> DEFINE k == [op |-> op, id |-> dialog.id, def |-> d, by |-> visit, phase |-> "sent", answer |-> None]
  <1>6. /\ task'[s] = k
        /\ \A u \in Slots : u # s =>
              task'[u] = IF task[u].op = "load" /\ op \in Edits THEN [task[u] EXCEPT !.clean = FALSE] ELSE task[u]
    BY <1>3 DEF Click
  <1>7. visit \in 1..visit' /\ visit' = visit
    BY <1>1, <1>2, Bounds
  <1>9. TaskOK(s)'
    BY <1>1, <1>2, <1>3, <1>6, <1>7 DEF TaskOK, ClickTask, Edits, Commands
  <1>10. ASSUME NEW u \in Slots, u # s
         PROVE  /\ task'[u].op = task[u].op /\ TaskOK(u)'
                /\ task[u].op # "load" => task'[u] = task[u]
                /\ task[u].op = "load" =>
                      /\ task'[u].phase = task[u].phase /\ task'[u].answer = task[u].answer
                      /\ task'[u].clean => task[u].clean /\ op \notin Edits
    <2>1. CASE task[u].op = "load"
      <3>1. LoadTask(task[u]) /\ u[1] = "load"
        BY <2>1, TaskForm, SlotForm
      <3>2. task'[u] = [task[u] EXCEPT !.clean = FALSE] \/ (task'[u] = task[u] /\ op \notin Edits)
        BY <1>6, <1>10, <2>1
      <3>3. LoadTask(task'[u])
        BY <3>1, <3>2 DEF LoadTask
      <3> QED
        BY <2>1, <3>1, <3>2, <3>3 DEF TaskOK, LoadTask, DistinctIds
    <2>2. CASE task[u].op # "load"
      <3>1. task'[u] = task[u] /\ TaskOK(u)
        BY <1>6, <1>10, <2>2 DEF Shapes
      <3> QED
        BY <1>1, <2>2, <3>1 DEF TaskOK, LoadTask, ClickTask
    <2> QED
      BY <2>1, <2>2
  <1>13. inDoubt' = (inDoubt \/ (op \in {"update", "delete"} /\ Overlaps(dialog.id)))
    BY DEF Click
  <1>14. ASSUME ~inDoubt', op \in {"update", "delete"}, NEW u \in Slots, task[u].op \in Edits
         PROVE  task[u].id # dialog.id
    <2>1. u = <<"click", u[2]>> /\ u[2] \in 1..Ops /\ task[u] # Idle
      BY <1>14, TaskForm DEF Edits
    <2>2. ~Overlaps(dialog.id)
      BY <1>13, <1>14
    <2> QED
      BY <1>14, <2>1, <2>2 DEF Overlaps
  <1>15. inDoubt' \in BOOLEAN /\ (~inDoubt' => ~inDoubt)
    BY <1>2, <1>13
  <1> QED
    BY <1>1, <1>3, <1>4, <1>5, <1>6, <1>9, <1>10, <1>14, <1>15

LEMMA ClickKeepsList ==
    ASSUME ListInv, CommandInv', NEW op \in Edits \cup Commands, NEW d, Click(op, d),
           op = "add" => dialog.id = None, op # "add" => dialog.id # None,
           op \in {"add", "update"} => d \in Manifests,
           dialog' \in Dialogs, dialog'.open = dialog.open, dialog'.id = dialog.id,
           shown' \in Seq(Resources), DistinctIds(shown) => DistinctIds(shown'),
           \A i \in Ids : RowsOf(shown, i) = {} => RowsOf(shown', i) = {},
           op # "update" => shown' = shown,
           op = "update" /\ DistinctIds(shown) =>
              \A i \in Ids : RowsOf(shown', i) =
                 IF i = dialog.id /\ RowsOf(shown, i) # {} THEN {[id |-> i, def |-> d]} ELSE RowsOf(shown, i)
    PROVE  ListInv'
  <1> USE DEF ListInv
  <1>1. PICK s : s = <<"click", clicks + 1>>
    OBVIOUS
  <1>2. /\ s \in Slots /\ s[1] = "click" /\ s[2] = clicks + 1 /\ s[2] \in Ids
        /\ clicks' = clicks + 1 /\ clicks' \in 0..Ops
        /\ loaded /\ UNCHANGED <<resources, loaded, visit, mounted, fails>>
        /\ task[s] = Idle /\ TaskOK(s)' /\ inDoubt' \in BOOLEAN
        /\ task'[s].op = op /\ task'[s].id = dialog.id /\ task'[s].def = d
        /\ task'[s].by = visit /\ task'[s].phase = "sent"
    BY <1>1, ClickTaken
  <1>3. ASSUME NEW u \in Slots, u # s
        PROVE  /\ task'[u].op = task[u].op /\ TaskOK(u)'
               /\ task[u].op # "load" => task'[u] = task[u]
               /\ task[u].op = "load" =>
                     /\ task'[u].phase = task[u].phase /\ task'[u].answer = task[u].answer
                     /\ task'[u].clean => task[u].clean /\ op \notin Edits
    BY <1>1, <1>3, ClickTaken
  <1>5. /\ dialog.id \in Ids \cup {None} /\ clicks \in 0..Ops
        /\ visit \in 0..Visits /\ fails \in 0..Fails /\ resources \in Seq(Resources) /\ DistinctIds(resources)
        /\ dialog \in Dialogs /\ (dialog.open => mounted) /\ mounted \in BOOLEAN
        /\ (mounted => visit # 0)
    BY DEF Shapes, Dialogs
  <1>6. PICK i : i = IF op = "add" THEN s[2] ELSE IF op \in Edits THEN dialog.id ELSE None
    OBVIOUS
  <1>7. /\ i \in Ids \cup {None} /\ (op \in Edits <=> i # None)
        /\ Subject(s)' = i
    BY <1>2, <1>5, <1>6, Bounds DEF Subject, Edits
  <1>8. /\ Subject(s) = None
        /\ \A u \in Slots : u # s => Subject(u)' = Subject(u)
    <2>1. task[s].op = "idle"
      BY <1>2 DEF Idle
    <2> QED
      BY <1>3, <2>1 DEF Subject, Edits
  <1>9. Shapes'
    <2>1. \A u \in Slots : TaskOK(u)'
      BY <1>2, <1>3
    <2>2. DistinctIds(resources)'
      BY <1>2, <1>5 DEF DistinctIds
    <2> QED
      BY <1>2, <1>5, <2>1, <2>2 DEF Shapes
  <1>10. Unused(s[2])
    BY <1>2, <1>5, Bounds DEF Fresh
  <1>11. Fresh'
    <2>1. ASSUME NEW n \in 1..Ops, n > clicks'
          PROVE  task'[<<"click", n>>] = Idle
      <3>1. n > clicks /\ n # clicks + 1
        BY <1>2, <1>5, <2>1, Bounds
      <3>2. <<"click", n>> \in Slots /\ task[<<"click", n>>] = Idle /\ <<"click", n>> # s
        BY <1>1, <3>1 DEF Fresh, Slots
      <3> QED
        BY <1>3, <3>2 DEF Idle
    <2>2. ASSUME NEW j \in Ids, j > clicks'
          PROVE  Unused(j)'
      <3>1. j > clicks /\ j # clicks + 1
        BY <1>2, <1>5, <2>2, Bounds
      <3>2. Unused(j) /\ j # None
        BY <3>1, Bounds DEF Fresh
      <3>3. RowsOf(resources', j) = {} /\ RowsOf(shown', j) = {} /\ dialog'.id # j
        BY <1>2, <3>2 DEF Unused
      <3>4. i # j
        BY <1>2, <1>6, <3>1, <3>2 DEF Unused
      <3>5. \A u \in Slots : Subject(u)' # j
        BY <1>7, <1>8, <3>2, <3>4 DEF Unused
      <3>6. ASSUME NEW u \in Slots, task'[u].op = "load", task'[u].phase = "answered"
            PROVE  RowsOf(task'[u].answer, j) = {}
        <4>1. u # s
          BY <1>2, <3>6 DEF Edits, Commands
        <4> QED
          BY <1>3, <3>2, <3>6, <4>1 DEF Unused
      <3> QED
        BY <3>3, <3>5, <3>6 DEF Unused, RowsOf
    <2>3. ASSUME NEW u \in Slots, task'[u].op = "add", task'[u].phase = "sent"
          PROVE  RowsOf(resources', u[2]) = {}
      <3>1. CASE u = s
        BY <1>2, <1>10, <3>1 DEF Unused
      <3>2. CASE u # s
        <4>1. task'[u] = task[u]
          BY <1>3, <2>3, <3>2
        <4> QED
          BY <1>2, <2>3, <4>1 DEF Fresh
      <3> QED
        BY <3>1, <3>2
    <2> QED
      BY <2>1, <2>2, <2>3 DEF Fresh, RowsOf
  <1>12. CleanLoads'
    <2>1. ASSUME NEW u \in Slots, task'[u].op = "load", task'[u].clean
          PROVE  ~Editing' /\ (task'[u].phase = "answered" => task'[u].answer = resources')
      <3>1. u # s
        BY <1>2, <2>1 DEF Edits, Commands
      <3>2. task[u].op = "load" /\ task[u].clean /\ op \notin Edits
        BY <1>3, <2>1, <3>1
      <3>3. ~Editing /\ (task[u].phase = "answered" => task[u].answer = resources)
        BY <3>2 DEF CleanLoads
      <3>4. ~Editing'
        <4>1. \A v \in Slots : task[v].op \notin Edits
          BY <3>3, TaskForm DEF Editing, Edits
        <4>2. \A v \in Slots : task'[v].op \notin Edits
          BY <1>2, <1>3, <3>2, <4>1
        <4> QED
          BY <4>2 DEF Editing
      <3> QED
        BY <1>2, <1>3, <3>1, <3>2, <3>3, <3>4
    <2> QED
      BY <2>1 DEF CleanLoads
  <1>14. ASSUME ~inDoubt'
         PROVE  Sync'
    <2>1. /\ ~inDoubt
          /\ op \in {"update", "delete"} => \A u \in Slots : task[u].op \in Edits => task[u].id # dialog.id
      BY <1>1, <1>14, ClickTaken
    <2>2. Sync
      BY <1>2, <2>1
    <2>3. DistinctIds(shown)' /\ DistinctIds(shown)
      BY <2>2 DEF Sync, DistinctIds
    <2>4. \A u \in Slots : task[u].op = "add" => EditState(u) /\ Subject(u) = u[2] /\ dialog.id # u[2]
      <3>1. \A u \in Slots : task[u].op = "add" => EditState(u) /\ Subject(u) = u[2]
        BY <2>2, SubjectForm DEF Sync, Edits
      <3> QED
        BY <3>1 DEF EditState
    <2>5. ASSUME NEW u \in Slots, u # s, i # None
          PROVE  Subject(u) # i
      <3>1. CASE op = "add"
        BY <1>6, <1>10, <3>1 DEF Unused
      <3>2. CASE op # "add"
        <4>1. i = dialog.id /\ op \in Edits /\ i \in Ids
          BY <1>6, <1>7, <2>5, <3>2
        <4>2. CASE task[u].op = "add"
          BY <2>4, <4>1, <4>2
        <4>3. CASE task[u].op \in {"update", "delete"}
          BY <2>1, <4>1, <4>3, SubjectForm DEF Edits
        <4>4. CASE task[u].op \notin Edits
          BY <2>5, <4>4, SubjectForm
        <4> QED
          BY <4>2, <4>3, <4>4 DEF Edits
      <3> QED
        BY <3>1, <3>2
    <2>6. \A j \in Ids : j # i => RowsOf(resources', j) = RowsOf(resources, j) /\ RowsOf(shown', j) = RowsOf(shown, j)
      <3>1. CASE op = "update"
        BY <1>2, <1>6, <2>3, <3>1 DEF Edits
      <3>2. CASE op # "update"
        BY <1>2, <3>2
      <3> QED
        BY <3>1, <3>2
    <2>7. ASSUME op \in Edits
          PROVE  EditState(s)'
      <3>1. RowsOf(shown, Subject(s))' = RowsOf(shown', i) /\ RowsOf(resources, Subject(s))' = RowsOf(resources, i) /\ i \in Ids
        BY <1>2, <1>7, <2>7 DEF RowsOf
      <3>2. CASE op = "add"
        <4>1. dialog.id # i /\ RowsOf(shown, i) = {} /\ shown' = shown
          BY <1>6, <1>10, <3>2 DEF Unused
        <4> QED
          BY <1>2, <1>7, <3>1, <3>2, <4>1 DEF EditState
      <3>3. CASE op # "add"
        <4>1. RowsOf(shown, i) = RowsOf(resources, i) /\ i = dialog.id
          <5>1. \A u \in Slots : Subject(u) # i
            BY <1>7, <1>8, <2>5, <2>7
          <5> QED
            BY <1>6, <2>2, <2>7, <3>1, <3>3, <5>1 DEF Sync
        <4>2. CASE op = "update"
          <5>1. RowsOf(shown', i) = IF RowsOf(resources, i) = {} THEN {} ELSE {[id |-> i, def |-> d]}
            BY <2>3, <3>1, <4>1, <4>2
          <5> QED
            BY <1>2, <1>7, <3>1, <4>2, <5>1 DEF EditState
        <4>3. CASE op = "delete"
          BY <1>2, <1>7, <3>1, <4>1, <4>3 DEF EditState
        <4> QED
          BY <2>7, <3>3, <4>2, <4>3 DEF Edits
      <3> QED
        BY <3>2, <3>3
    <2>8. \A u \in Slots : u # s => task'[u].op = task[u].op /\ (task[u].op \in Edits => task'[u] = task[u])
      BY <1>3 DEF Edits
    <2>9. \A u \in Slots : u # s /\ task[u].op = "add" => dialog'.id # u[2]
      BY <1>2, <2>4
    <2>10. task'[s].op \in Edits => EditState(s)'
      BY <1>2, <2>7
    <2>11. Subject(s) \in {i, None} /\ Subject(s)' \in {i, None} /\ (i # None /\ Subject(s)' = None => RowsOf(shown', i) = RowsOf(resources', i))
      BY <1>7, <1>8
    <2>12. Shapes
      OBVIOUS
    <2>13. \A u \in Slots : u # s /\ i # None => Subject(u) # i
      BY <2>5
    <2> QED
      BY <1>2, <1>7, <1>9, <2>2, <2>3, <2>6, <2>8, <2>9, <2>10, <2>11, <2>12, <2>13, SyncOne
  <1> QED
    BY <1>9, <1>11, <1>12, <1>14

LEMMA EditsKeepList ==
    ASSUME ListInv, CommandInv', Add \/ Save \/ \E op \in Commands : Command(op)
    PROVE  ListInv'
  <1> USE DEF ListInv
  <1>1. shown \in Seq(Resources) /\ dialog \in Dialogs /\ clicks \in 0..Ops
    BY DEF Shapes
  <1>5. ASSUME NEW op, Submit(op)
        PROVE  /\ Click(op, dialog.form) /\ dialog.form \in Manifests
               /\ dialog' \in Dialogs /\ dialog'.open = dialog.open /\ dialog'.id = dialog.id
    <2>1. /\ Click(op, dialog.form) /\ dialog.form # None
          /\ dialog' = [dialog EXCEPT !.isSubmitting = TRUE, !.own = @ \cup {clicks + 1}]
      BY <1>5 DEF Submit
    <2>2. clicks + 1 \in 1..Ops
      BY <1>1, <2>1, Bounds DEF Click
    <2> QED
      BY <1>1, <2>1, <2>2 DEF Dialogs
  <1>2. CASE Add
    <2>1. Submit("add")
      BY <1>2 DEF Add
    <2>2. dialog.id = None /\ shown' = shown
      BY <1>2 DEF Add
    <2>3. "add" \in Edits \cup Commands
      BY DEF Edits
    <2> QED
      BY <1>1, <1>5, <2>1, <2>2, <2>3, ClickKeepsList
  <1>3. ASSUME NEW op \in Commands, Command(op)
        PROVE  ListInv'
    <2>1. dialog.id # None /\ shown' = shown /\ dialog' = dialog /\ Click(op, None)
      BY <1>3 DEF Command
    <2>2. op \in Edits \cup Commands /\ op \notin {"add", "update"}
      BY DEF Commands
    <2> QED
      BY <1>1, <2>1, <2>2, ClickKeepsList
  <1>4. CASE Save
    <2>8. Submit("update")
      BY <1>4 DEF Save
    <2>9. dialog' \in Dialogs /\ dialog'.open = dialog.open /\ dialog'.id = dialog.id
      BY <1>5, <2>8
    <2>1. PICK d \in Manifests :
             /\ Click("update", d)
             /\ shown' = IF HasRow(shown, dialog.id)
                         THEN [shown EXCEPT ![FindRow(shown, dialog.id)].def = d] ELSE shown
      BY <1>4, <1>5, <2>8 DEF Save
    <2>2. dialog.id # None
      BY <1>4 DEF Save
    <2>3. "update" \in Edits \cup Commands /\ "update" \notin {"add"}
      BY DEF Edits
    <2>4. PICK x : x = dialog.id
      OBVIOUS
    <2>5. HasRow(shown, x) <=> RowsOf(shown, x) # {}
      BY <1>1, InRowsOf
    <2>6. CASE ~HasRow(shown, x)
      <3>1. shown' = shown
        BY <2>1, <2>4, <2>6
      <3>2. \A i \in Ids : RowsOf(shown', i) =
               IF i = dialog.id /\ RowsOf(shown, i) # {} THEN {[id |-> i, def |-> d]} ELSE RowsOf(shown, i)
        BY <2>4, <2>5, <2>6, <3>1
      <3> QED
        BY <1>1, <2>1, <2>2, <2>3, <2>9, <3>1, <3>2, ClickKeepsList
    <2>7. CASE HasRow(shown, x)
      <3>1. shown' = WithDef(shown, x, d)
        BY <2>1, <2>4, <2>7 DEF WithDef
      <3>2. /\ WithDef(shown, x, d) \in Seq(Resources)
            /\ \A i : HasRow(WithDef(shown, x, d), i) <=> HasRow(shown, i)
            /\ DistinctIds(shown) => DistinctIds(WithDef(shown, x, d))
            /\ DistinctIds(shown) =>
                  \A i : RowsOf(WithDef(shown, x, d), i) = IF i = x THEN {[id |-> x, def |-> d]} ELSE RowsOf(shown, i)
        BY <1>1, <2>7, ManifestReplaced
      <3>3. /\ shown' \in Seq(Resources)
            /\ \A i : HasRow(shown', i) <=> HasRow(shown, i)
            /\ DistinctIds(shown) => DistinctIds(shown')
        BY <3>1, <3>2
      <3>4. \A i \in Ids : RowsOf(shown, i) = {} => RowsOf(shown', i) = {}
        BY <1>1, <3>3, InRowsOf
      <3>5. DistinctIds(shown) =>
               \A i \in Ids : RowsOf(shown', i) =
                  IF i = dialog.id /\ RowsOf(shown, i) # {} THEN {[id |-> i, def |-> d]} ELSE RowsOf(shown, i)
        <4>1. ASSUME DistinctIds(shown), NEW i \in Ids
              PROVE  RowsOf(shown', i) =
                        IF i = dialog.id /\ RowsOf(shown, i) # {} THEN {[id |-> i, def |-> d]} ELSE RowsOf(shown, i)
          <5>1. RowsOf(shown', i) = IF i = x THEN {[id |-> x, def |-> d]} ELSE RowsOf(shown, i)
            BY <3>1, <3>2, <4>1
          <5> QED
            BY <2>4, <2>5, <2>7, <5>1
        <4> QED
          BY <4>1
      <3> QED
        BY <2>1, <2>2, <2>3, <2>9, <3>3, <3>4, <3>5, ClickKeepsList
    <2> QED
      BY <2>6, <2>7
  <1> QED
    BY <1>2, <1>3, <1>4

LEMMA ListStep == ListInv /\ [Next]_vars => ListInv'
  <1> SUFFICES ASSUME ListInv, [Next]_vars
               PROVE  ListInv'
    OBVIOUS
  <1>1. CommandInv'
    BY CommandStep DEF ListInv, Shapes
  <1>2. CASE UNCHANGED vars
    <2>1. UNCHANGED <<resources, loaded, shown, indicator, visit, mounted, dialog, clicks, task, fails, inDoubt>>
      BY <1>2 DEF vars, pageVars
    <2>2. dialog' \in Dialogs /\ mounted' \in BOOLEAN /\ (dialog'.open => mounted' /\ loaded)
      BY <2>1 DEF ListInv, Shapes
    <2> QED
      BY <1>1, <2>1, <2>2, DialogMoves
  <1>3. CASE Open
    BY <1>1, <1>3, OpenKeeps
  <1>4. CASE Leave \/ AddWorkload \/ SelectWorkload \/ Type \/ Close
    BY <1>1, <1>4, DialogKeeps
  <1>5. CASE Add \/ Save \/ \E op \in Commands : Command(op)
    BY <1>1, <1>5, EditsKeepList
  <1>6. ASSUME NEW t \in Slots, Serve(t)
        PROVE  ListInv'
    BY <1>1, <1>6, ServeKeepsList
  <1>7. ASSUME NEW t \in Slots, Answer(t)
        PROVE  ListInv'
    BY <1>1, <1>7, AnswerKeepsList
  <1>8. ASSUME NEW t \in Slots, Reject(t)
        PROVE  ListInv'
    BY <1>1, <1>8, RejectKeepsList
  <1> QED
    BY <1>2, <1>3, <1>4, <1>5, <1>6, <1>7, <1>8 DEF Next

LEMMA ListInit == Init => ListInv
  <1> SUFFICES ASSUME Init
               PROVE  ListInv
    OBVIOUS
  <1>1. CommandInv
    BY CommandInit
  <1>2. \A t \in Slots : task[t] = Idle
    BY DEF Init
  <1>3. \A t \in Slots : task[t].op = "idle"
    BY <1>2 DEF Idle
  <1>4. [id |-> 0, def |-> First] \in Resources
    BY Bounds, WorkloadsAssumption DEF Resources
  <1>5. resources \in Seq(Resources) /\ shown \in Seq(Resources)
    BY <1>4 DEF Init
  <1>6. DistinctIds(resources) /\ DistinctIds(shown)
    BY DEF Init, DistinctIds
  <1>7. NoDialog \in Dialogs /\ NoDialog.open = FALSE /\ NoDialog.id = None
    BY DEF NoDialog, Dialogs
  <1>8. Shapes
    <2>1. \A t \in Slots : TaskOK(t)
      BY <1>2 DEF TaskOK
    <2> QED
      <3>1. /\ loaded = FALSE /\ mounted = FALSE /\ inDoubt = FALSE /\ dialog = NoDialog
            /\ shown = <<>> /\ visit = 0 /\ clicks = 0 /\ fails = 0
        BY DEF Init
      <3>2. visit \in 0..Visits /\ clicks \in 0..Ops /\ fails \in 0..Fails
        BY <3>1, Bounds
      <3> QED
        BY <1>1, <1>5, <1>6, <1>7, <2>1, <3>1, <3>2 DEF Shapes
  <1>9. \A t \in Slots : Subject(t) = None
    BY <1>3 DEF Subject, Edits
  <1>10. Fresh
    <2>1. ASSUME NEW i \in Ids, i > clicks
          PROVE  Unused(i)
      <3>1. i # 0 /\ i # None
        BY <2>1, Bounds DEF Init
      <3>2. resources = <<[id |-> 0, def |-> First]>> /\ shown = <<>> /\ dialog = NoDialog
        BY DEF Init
      <3>3. RowsOf(resources, i) = {} /\ RowsOf(shown, i) = {}
        BY <3>1, <3>2 DEF RowsOf, RowsIn
      <3> QED
        BY <1>3, <1>7, <1>9, <3>1, <3>2, <3>3 DEF Unused
    <2>2. \A n \in 1..Ops : task[<<"click", n>>] = Idle
      <3>1. \A n \in 1..Ops : <<"click", n>> \in Slots
        BY DEF Slots
      <3> QED
        BY <1>2, <3>1
    <2> QED
      BY <1>3, <2>1, <2>2 DEF Fresh
  <1>11. CleanLoads
    BY <1>3 DEF CleanLoads
  <1>12. ~loaded
    BY DEF Init
  <1> QED
    BY <1>8, <1>10, <1>11, <1>12 DEF ListInv

(* The form and a command of one visit exclude each other, and so do two    *)
(* submissions, unless Enter has gone past the buttons in this visit: the   *)
(* call of the form is one that the dialog on the screen waits for.         *)
Submits(t) == task[t].op \in {"add", "update"}
OfVisit(t) == Submits(t) /\ task[t].by = visit

FormAlone ==
    /\ \A t, u \in Slots : InCommand(t) /\ Submits(u) => ~OfVisit(u)
    /\ \A u \in Slots : OfVisit(u) /\ mounted => u[2] \in dialog.own /\ dialog.isSubmitting
    /\ \A t, u \in Slots : OfVisit(t) /\ OfVisit(u) => t = u

FormInv ==
    /\ pressed \subseteq 1..visit
    /\ dialog.own # {} => dialog.open
    /\ \A n \in dialog.own : n <= clicks /\ OfVisit(<<"click", n>>)
    /\ visit \notin pressed => FormAlone

(* Steps that begin nothing, and take from the dialog only what has ended.  *)
LEMMA FormQuiet ==
    ASSUME ListInv, FormInv, UNCHANGED <<visit, pressed, clicks>>, mounted' => mounted,
           \A u \in Slots : /\ InCommand(u)' => InCommand(u)
                            /\ Submits(u)' => Submits(u) /\ task'[u].by = task[u].by,
           \A n \in dialog'.own : n \in dialog.own /\ Submits(<<"click", n>>)',
           dialog'.own # {} => dialog'.open,
           \A u \in Slots : OfVisit(u) /\ Submits(u)' /\ mounted' /\ FormAlone
                            /\ u[2] \in dialog.own /\ dialog.isSubmitting =>
                               u[2] \in dialog'.own /\ dialog'.isSubmitting
    PROVE  FormInv'
  <1>1. \A u \in Slots : OfVisit(u)' => OfVisit(u) /\ Submits(u)'
    BY DEF OfVisit
  <1>2. ASSUME NEW n \in dialog'.own
        PROVE  n <= clicks' /\ OfVisit(<<"click", n>>)'
    <2>1. n \in dialog.own /\ n \in 1..Ops /\ Submits(<<"click", n>>)'
      BY DEF ListInv, Shapes, Dialogs
    <2>2. <<"click", n>> \in Slots /\ OfVisit(<<"click", n>>) /\ n <= clicks
      BY <2>1 DEF FormInv, Slots
    <2> QED
      BY <2>1, <2>2 DEF OfVisit
  <1>3. ASSUME visit' \notin pressed'
        PROVE  FormAlone'
    <2>1. FormAlone
      BY <1>3 DEF FormInv
    <2>2. \A t, u \in Slots : InCommand(t)' /\ Submits(u)' => ~OfVisit(u)'
      BY <1>1, <2>1 DEF FormAlone
    <2>3. \A u \in Slots : OfVisit(u)' /\ mounted' => u[2] \in dialog'.own /\ dialog'.isSubmitting
      BY <1>1, <2>1 DEF FormAlone
    <2>4. \A t, u \in Slots : OfVisit(t)' /\ OfVisit(u)' => t = u
      BY <1>1, <2>1 DEF FormAlone
    <2> QED
      BY <2>2, <2>3, <2>4 DEF FormAlone
  <1> QED
    BY <1>2, <1>3 DEF FormInv

LEMMA FormOnScreen ==
    ASSUME ListInv, FormInv, Leave \/ AddWorkload \/ SelectWorkload \/ Type \/ Close
    PROVE  FormInv'
  <1>1. UNCHANGED <<visit, pressed, clicks, task>>
    BY DEF Leave, AddWorkload, SelectWorkload, Type, Close, SetDialog
  <1>2. /\ \A u \in Slots : /\ InCommand(u)' <=> InCommand(u)
                            /\ Submits(u)' <=> Submits(u)
                            /\ task'[u].by = task[u].by
        /\ \A n \in dialog.own : Submits(<<"click", n>>)'
    BY <1>1 DEF InCommand, Submits, FormInv, OfVisit
  <1>3. NoDialog \in Dialogs /\ NoDialog.own = {} /\ dialog \in Dialogs
    BY DEF NoDialog, Dialogs, ListInv, Shapes
  <1>4. CASE Leave
    <2>1. mounted' = FALSE /\ dialog'.own = {}
      BY <1>3, <1>4 DEF Leave
    <2> QED
      BY <1>1, <1>2, <2>1, FormQuiet
  <1>5. CASE AddWorkload \/ SelectWorkload
    <2>1. /\ mounted' = mounted /\ ~dialog.open
          /\ \/ dialog' = [NoDialog EXCEPT !.open = TRUE]
             \/ \E id, def : dialog' = Reinitialized([NoDialog EXCEPT !.open = TRUE], id, def)
      BY <1>5 DEF AddWorkload, SelectWorkload, SetDialog
    <2>2. dialog'.own = {}
      BY <1>3, <2>1 DEF Reinitialized, Dialogs
    <2>3. dialog.own = {}
      BY <2>1 DEF FormInv
    <2> QED
      BY <1>1, <1>2, <2>1, <2>2, <2>3, FormQuiet
  <1>6. CASE Type
    <2>1. /\ mounted' = mounted /\ dialog'.own = dialog.own /\ dialog'.open = dialog.open
          /\ dialog'.isSubmitting = dialog.isSubmitting
      BY <1>3, <1>6 DEF Type, SetDialog, Dialogs
    <2> QED
      BY <1>1, <1>2, <2>1, FormQuiet DEF FormInv
  <1>7. CASE Close
    <2>1. mounted' = mounted /\ dialog' = NoDialog /\ ~dialog.isSubmitting
      BY <1>7 DEF Close, SetDialog, anyOperationInProgress
    <2> QED
      BY <1>1, <1>2, <1>3, <2>1, FormQuiet
  <1> QED
    BY <1>4, <1>5, <1>6, <1>7

LEMMA FormOpened ==
    ASSUME ListInv, FormInv, Open
    PROVE  FormInv'
  <1>1. /\ visit' = visit + 1 /\ ~mounted /\ UNCHANGED <<dialog, clicks, pressed>>
        /\ visit \in 0..Visits
    BY DEF Open, ListInv, Shapes
  <1>2. dialog'.own = {}
    BY <1>1 DEF FormInv, ListInv, Shapes
  <1>3. ASSUME NEW u \in Slots
        PROVE  ~OfVisit(u)'
    <2>1. CASE u = <<"load", visit + 1>>
      <3>1. task'[u].op = "load"
        BY <2>1 DEF Open, ListInv, Shapes, CommandInv, TaskShape
      <3> QED
        BY <3>1 DEF OfVisit, Submits
    <2>2. CASE u # <<"load", visit + 1>>
      <3>1. task'[u] = task[u]
        BY <2>2 DEF Open, ListInv, Shapes, CommandInv, TaskShape
      <3>2. Submits(u) => task[u].by \in 1..visit
        BY TaskForm DEF ListInv, Submits, ClickTask
      <3> QED
        BY <1>1, <3>1, <3>2, Bounds DEF OfVisit, Submits
    <2> QED
      BY <2>1, <2>2
  <1>4. FormAlone'
    BY <1>3 DEF FormAlone
  <1>5. pressed' \subseteq 1..visit'
    <2>1. 1..visit \subseteq 1..visit'
      BY <1>1, Bounds
    <2> QED
      BY <1>1, <2>1 DEF FormInv
  <1> QED
    BY <1>2, <1>4, <1>5 DEF FormInv

(* While nothing is in progress on the page, no submission of this visit is *)
(* under way, unless Enter has been pressed.                                *)
LEMMA NothingInProgress ==
    ASSUME ListInv, FormInv, dialog.open, ~anyOperationInProgress, visit \notin pressed
    PROVE  \A u \in Slots : ~InCommand(u) /\ ~OfVisit(u)
  <1>1. \A u \in Slots : ~InCommand(u)
    BY NoCommand DEF ListInv, Shapes
  <1>2. ~dialog.isSubmitting /\ mounted
    BY DEF anyOperationInProgress, ListInv, Shapes
  <1> QED
    BY <1>1, <1>2 DEF FormInv, FormAlone

LEMMA FormSubmitted ==
    ASSUME ListInv, FormInv, Add \/ Save
    PROVE  FormInv'
  <1>1. PICK s : s = <<"click", clicks + 1>>
    OBVIOUS
  <1>2. /\ dialog \in Dialogs /\ clicks \in 0..Ops /\ visit \in 0..Visits /\ mounted \in BOOLEAN
        /\ (dialog.open => mounted) /\ (mounted => visit # 0)
    BY DEF ListInv, Shapes
  <1>3. PICK op \in {"add", "update"} :
           /\ Submit(op) /\ (op = "add" => dialog.id = None) /\ (op # "add" => dialog.id # None)
    BY DEF Add, Save
  <1>4. /\ Click(op, dialog.form) /\ dialog.form \in Manifests /\ dialog.open
        /\ dialog' = [dialog EXCEPT !.isSubmitting = TRUE, !.own = @ \cup {clicks + 1}]
        /\ pressed' = IF anyOperationInProgress THEN pressed \cup {visit} ELSE pressed
    BY <1>2, <1>3 DEF Submit, Click, Dialogs
  <1>5. op \in Edits \cup Commands /\ op \notin Commands
    BY <1>3 DEF Edits, Commands
  <1>6. /\ s \in Slots /\ clicks' = clicks + 1 /\ UNCHANGED <<visit, mounted>>
        /\ task'[s].op = op /\ task'[s].by = visit
        /\ \A u \in Slots : u # s => /\ task'[u].op = task[u].op
                                     /\ task[u].op # "load" => task'[u] = task[u]
    BY <1>1, <1>3, <1>4, <1>5, ClickTaken
  <1>7. /\ OfVisit(s)' /\ ~InCommand(s)'
        /\ \A u \in Slots : u # s => (OfVisit(u)' <=> OfVisit(u)) /\ (InCommand(u)' <=> InCommand(u))
    BY <1>3, <1>5, <1>6 DEF OfVisit, Submits, InCommand
  <1>8. dialog'.own = dialog.own \cup {s[2]} /\ dialog'.open /\ dialog'.isSubmitting
    BY <1>1, <1>2, <1>4 DEF Dialogs
  <1>9. pressed' \subseteq 1..visit'
    BY <1>2, <1>4, <1>6 DEF FormInv
  <1>10. ASSUME NEW n \in dialog'.own
         PROVE  n <= clicks' /\ OfVisit(<<"click", n>>)'
    <2>1. CASE n = s[2]
      BY <1>1, <1>2, <1>6, <1>7, <2>1
    <2>2. CASE n # s[2]
      <3>1. n \in dialog.own /\ n \in 1..Ops
        BY <1>2, <1>8, <2>2 DEF Dialogs
      <3>2. n <= clicks /\ OfVisit(<<"click", n>>) /\ <<"click", n>> \in Slots /\ <<"click", n>> # s
        BY <1>1, <2>2, <3>1 DEF FormInv, Slots
      <3> QED
        BY <1>2, <1>6, <1>7, <3>1, <3>2
    <2> QED
      BY <2>1, <2>2
  <1>11. ASSUME visit' \notin pressed'
         PROVE  FormAlone'
    <2>1. ~anyOperationInProgress /\ visit \notin pressed
      BY <1>4, <1>6, <1>11
    <2>2. \A u \in Slots : ~InCommand(u) /\ ~OfVisit(u)
      BY <1>4, <2>1, NothingInProgress
    <2>3. \A u \in Slots : ~InCommand(u)' /\ (OfVisit(u)' => u = s)
      BY <1>7, <2>2
    <2> QED
      BY <1>8, <2>3 DEF FormAlone
  <1> QED
    BY <1>8, <1>9, <1>10, <1>11 DEF FormInv

LEMMA FormBesideCommand ==
    ASSUME ListInv, FormInv, NEW op \in Commands, Command(op)
    PROVE  FormInv'
  <1>1. PICK s : s = <<"click", clicks + 1>>
    OBVIOUS
  <1>2. /\ Click(op, None) /\ dialog.id # None /\ ~anyOperationInProgress /\ dialog.open
        /\ UNCHANGED <<dialog, pressed>>
    BY DEF Command, Click
  <1>3. op \in Edits \cup Commands /\ op \notin {"add", "update"}
    BY DEF Commands
  <1>4. /\ s \in Slots /\ clicks' = clicks + 1 /\ UNCHANGED <<visit, mounted>> /\ task'[s].op = op
        /\ \A u \in Slots : u # s => /\ task'[u].op = task[u].op
                                     /\ task[u].op # "load" => task'[u] = task[u]
    BY <1>1, <1>2, <1>3, ClickTaken
  <1>5. ~OfVisit(s)' /\ \A u \in Slots : u # s => (OfVisit(u)' <=> OfVisit(u))
    BY <1>3, <1>4 DEF OfVisit, Submits
  <1>6. clicks \in 0..Ops /\ dialog \in Dialogs
    BY DEF ListInv, Shapes
  <1>7. ASSUME NEW n \in dialog'.own
        PROVE  n <= clicks' /\ OfVisit(<<"click", n>>)'
    <2>1. n \in dialog.own /\ n \in 1..Ops
      BY <1>2, <1>6 DEF Dialogs
    <2>2. n <= clicks /\ OfVisit(<<"click", n>>) /\ <<"click", n>> \in Slots
      BY <2>1 DEF FormInv, Slots
    <2>3. <<"click", n>> # s
      BY <1>1, <1>6, <2>1, <2>2, Bounds
    <2> QED
      BY <1>4, <1>5, <1>6, <2>1, <2>2, <2>3, Bounds
  <1>8. ASSUME visit' \notin pressed'
        PROVE  FormAlone'
    <2>1. \A u \in Slots : ~OfVisit(u)
      BY <1>2, <1>4, <1>8, NothingInProgress
    <2>2. \A u \in Slots : ~OfVisit(u)'
      BY <1>5, <2>1
    <2> QED
      BY <2>2 DEF FormAlone
  <1>9. pressed' \subseteq 1..visit' /\ (dialog'.own # {} => dialog'.open)
    BY <1>2, <1>4 DEF FormInv
  <1> QED
    BY <1>7, <1>8, <1>9 DEF FormInv

LEMMA FormServed ==
    ASSUME ListInv, FormInv, NEW t \in Slots, Serve(t)
    PROVE  FormInv'
  <1>1. UNCHANGED <<visit, mounted, dialog, clicks, pressed>>
    BY DEF Serve, pageVars
  <1>2. /\ task'[t].op = task[t].op /\ (task[t].op # "load" => task'[t].by = task[t].by)
        /\ \A u \in Slots : u # t => task'[u] = task[u]
    BY ServeTask
  <1>3. \A u \in Slots : /\ InCommand(u)' <=> InCommand(u)
                         /\ Submits(u)' <=> Submits(u)
                         /\ Submits(u) => task'[u].by = task[u].by
    BY <1>2 DEF InCommand, Submits
  <1>4. \A n \in dialog.own : <<"click", n>> \in Slots /\ Submits(<<"click", n>>)
    BY DEF FormInv, OfVisit, ListInv, Shapes, Dialogs, Slots
  <1> QED
    BY <1>1, <1>3, <1>4, FormQuiet DEF FormInv

(* The end of a call: of the dialog's own, or it leaves what that waits for.*)
LEMMA FormEnds ==
    ASSUME ListInv, FormInv, NEW t \in Slots, Answer(t) \/ Reject(t)
    PROVE  FormInv'
  <1> DEFINE n == t[2]
  <1>1. /\ Running(t) /\ task' = [task EXCEPT ![t] = Idle] /\ UNCHANGED <<visit, clicks, pressed>>
        /\ mounted' => mounted
    BY DEF Answer, Reject
  <1>2. task'[t] = Idle /\ \A u \in Slots : u # t => task'[u] = task[u]
    BY <1>1 DEF ListInv, Shapes, CommandInv, TaskShape
  <1>3. Idle.op = "idle" /\ "idle" \notin Commands
    BY DEF Idle, Commands
  <1>4. \A u \in Slots : /\ InCommand(u)' => InCommand(u)
                         /\ Submits(u)' => u # t /\ Submits(u) /\ task'[u].by = task[u].by
    BY <1>2, <1>3 DEF InCommand, Submits
  <1>5. dialog \in Dialogs /\ NoDialog \in Dialogs /\ NoDialog.own = {}
    BY DEF ListInv, Shapes, NoDialog, Dialogs
  <1>6. /\ Ended(n) \in Dialogs /\ Ended(n).open = dialog.open /\ Ended(n).own = dialog.own \ {n}
        /\ n \notin dialog.own => Ended(n) = dialog
    BY <1>5, EndedFields
  <1>7. \A m \in dialog.own : <<"click", m>> \in Slots /\ OfVisit(<<"click", m>>) /\ Submits(<<"click", m>>)
    BY <1>5 DEF FormInv, OfVisit, Dialogs, Slots
  <1>8. t = <<"click", n>> \/ (t = <<"load", n>> /\ ~Submits(t) /\ task[t].op = "load")
    BY <1>1, SlotForm, TaskForm DEF ListInv, Submits, Running, Idle
  <1>9. PICK ended : ended = Ended(n)
    OBVIOUS
  <1>10. \/ dialog' = dialog /\ (t = <<"click", n>> => n \notin dialog.own)
         \/ dialog' = NoDialog /\ (mounted' => InCommand(t) /\ task[t].by = visit)
         \/ dialog' = ended
         \/ /\ OfVisit(t) /\ dialog.open
            /\ \E id, def : dialog' = Reinitialized(ended, id, def)
    <2>1. CASE Reject(t)
      BY <1>3, <1>5, <1>9, <2>1 DEF Reject
    <2>2. ASSUME Answer(t), task[t].op \in {"add", "update"}
          PROVE  \/ dialog' = dialog /\ n \notin dialog.own
                 \/ dialog' = ended
                 \/ /\ OfVisit(t) /\ dialog.open
                    /\ \E id, def : dialog' = Reinitialized(ended, id, def)
      <3>1. dialog' = ended \/ \E id, def : GoOn(t, id, def)
        BY <1>9, <2>2 DEF Answer, addK8sResources, updateK8sResources
      <3>2. t = <<"click", n>>
        BY <1>8, <2>2
      <3>3. n \in dialog.own => task[t].by = visit /\ dialog.open
        BY <1>7, <3>2 DEF OfVisit, FormInv
      <3> QED
        BY <1>9, <2>2, <3>1, <3>3 DEF GoOn, OfVisit, Submits
    <2>3. ASSUME Answer(t), task[t].op \notin {"add", "update"}
          PROVE  \/ dialog' = dialog /\ (t = <<"click", n>> => n \notin dialog.own)
                 \/ dialog' = NoDialog /\ InCommand(t) /\ task[t].by = visit
      <3>1. t = <<"click", n>> => n \notin dialog.own
        BY <1>7, <2>3 DEF Submits
      <3>2. dialog' = dialog \/ (task[t].op = "delete" /\ task[t].by = visit /\ dialog' = NoDialog)
        BY <2>3 DEF Answer, loadProject, deleteK8sResources
      <3> QED
        BY <3>1, <3>2 DEF InCommand, Commands
    <2> QED
      BY <2>1, <2>2, <2>3
  <1>11. /\ dialog'.own \subseteq dialog.own
         /\ t = <<"click", n>> => n \notin dialog'.own
         /\ dialog'.own # {} => dialog'.open
    <2>1. ASSUME NEW id, NEW def
          PROVE  /\ Reinitialized(ended, id, def).own = ended.own
                 /\ Reinitialized(ended, id, def).open = ended.open
      BY <1>6, <1>9 DEF Reinitialized, Dialogs
    <2> QED
      BY <1>5, <1>6, <1>9, <1>10, <2>1 DEF FormInv
  <1>12. \A m \in dialog'.own : m \in dialog.own /\ Submits(<<"click", m>>)'
    <2>1. \A m \in dialog'.own : m \in dialog.own /\ <<"click", m>> # t
      BY <1>8, <1>11
    <2> QED
      BY <1>2, <1>7, <2>1 DEF Submits
  <1>13. ASSUME NEW u \in Slots, OfVisit(u), Submits(u)', mounted', FormAlone,
                u[2] \in dialog.own, dialog.isSubmitting
         PROVE  u[2] \in dialog'.own /\ dialog'.isSubmitting
    <2>1. u # t
      BY <1>4, <1>13
    <2>2. ~OfVisit(t)
      BY <1>13, <2>1 DEF FormAlone
    <2>3. t = <<"click", n>> => n \notin dialog.own
      BY <1>7, <2>2
    <2>4. ~(InCommand(t) /\ task[t].by = visit)
      BY <1>13 DEF FormAlone, OfVisit
    <2>5. CASE t = <<"click", n>>
      BY <1>6, <1>9, <1>10, <1>13, <2>2, <2>3, <2>4, <2>5
    <2>6. CASE t # <<"click", n>>
      <3>1. dialog' = dialog
        BY <1>8, <1>13, <2>6 DEF Answer, Reject, loadProject
      <3> QED
        BY <1>13, <3>1
    <2> QED
      BY <2>5, <2>6
  <1> QED
    BY <1>1, <1>4, <1>11, <1>12, <1>13, FormQuiet

LEMMA FormStep == ListInv /\ FormInv /\ [Next]_vars => FormInv'
  <1> SUFFICES ASSUME ListInv, FormInv, [Next]_vars
               PROVE  FormInv'
    OBVIOUS
  <1>1. CASE UNCHANGED vars
    <2>1. UNCHANGED <<visit, mounted, dialog, clicks, pressed, task>>
      BY <1>1 DEF vars, pageVars
    <2> QED
      BY <2>1 DEF FormInv, FormAlone, OfVisit, Submits, InCommand
  <1>2. CASE Leave \/ AddWorkload \/ SelectWorkload \/ Type \/ Close
    BY <1>2, FormOnScreen
  <1>3. CASE Open
    BY <1>3, FormOpened
  <1>4. CASE Add \/ Save
    BY <1>4, FormSubmitted
  <1>5. ASSUME NEW op \in Commands, Command(op)
        PROVE  FormInv'
    BY <1>5, FormBesideCommand
  <1>6. ASSUME NEW t \in Slots, Serve(t)
        PROVE  FormInv'
    BY <1>6, FormServed
  <1>7. ASSUME NEW t \in Slots, Answer(t) \/ Reject(t)
        PROVE  FormInv'
    BY <1>7, FormEnds
  <1> QED
    BY <1>1, <1>2, <1>3, <1>4, <1>5, <1>6, <1>7 DEF Next

LEMMA FormInit == Init => FormInv
  <1> SUFFICES ASSUME Init
               PROVE  FormInv
    OBVIOUS
  <1>1. pressed = {} /\ dialog.own = {} /\ \A t \in Slots : task[t].op = "idle"
    BY DEF Init, NoDialog, Idle
  <1> QED
    BY <1>1 DEF FormInv, FormAlone, OfVisit, Submits

LEMMA ListMeans == ListInv /\ FormInv => WorkloadsInv
  <1> SUFFICES ASSUME ListInv, FormInv
               PROVE  WorkloadsInv
    OBVIOUS
  <1> USE DEF ListInv
  <1>1. resources \in Seq(Resources) /\ shown \in Seq(Resources) /\ DistinctIds(resources)
    BY DEF Shapes
  <1>2. TypeOK
    <2>1. IsInjective([i \in DOMAIN resources |-> resources[i].id])
      BY <1>1 DEF IsInjective, DistinctIds
    <2>2. indicator \in [Commands -> BOOLEAN]
      BY DEF Shapes, CommandInv
    <2>3. ASSUME NEW t \in Slots, Running(t)
          PROVE  task[t].phase \in {"sent", "answered", "failed"}
      BY <2>3 DEF Shapes, TaskOK, LoadTask, ClickTask, Running
    <2>4. /\ (dialog.open => mounted) /\ dialog.id \in Ids \cup {None}
          /\ dialog.form \in Manifests \cup {None} /\ dialog.isSubmitting \in BOOLEAN
      BY DEF Shapes, Dialogs
    <2>5. dialog.own \subseteq 1..clicks /\ pressed \subseteq 1..visit
      <3>1. dialog.own \subseteq 1..Ops /\ clicks \in 0..Ops /\ Ops \in Nat
        BY Bounds DEF Shapes, Dialogs
      <3>2. ASSUME NEW n \in dialog.own
            PROVE  n \in 1..clicks
        <4>1. n <= clicks /\ n \in 1..Ops
          BY <3>1 DEF FormInv
        <4> QED
          BY <3>1, <4>1
      <3> QED
        BY <3>2 DEF FormInv
    <2> QED
      BY <1>1, <2>1, <2>2, <2>3, <2>4, <2>5 DEF Shapes, TypeOK
  <1>3. ListIsCurrent
    <2> SUFFICES ASSUME loaded, ~Editing, ~inDoubt
                 PROVE  Len(shown) = Len(resources) /\ ToSet(shown) = ToSet(resources)
      BY DEF ListIsCurrent
    <2>1. Sync
      OBVIOUS
    <2>2. \A t \in Slots : Subject(t) = None
      BY TaskForm, SubjectForm DEF Editing, Edits
    <2>3. \A i \in Ids : RowsOf(shown, i) = RowsOf(resources, i)
      BY <2>1, <2>2, Bounds DEF Sync
    <2>4. DistinctIds(shown)
      BY <2>1 DEF Sync
    <2>5. PICK R : R = Resources
      OBVIOUS
    <2>6. Len(shown) = Len(resources) /\ RowsIn(shown) = RowsIn(resources)
      <3>1. ASSUME NEW i, i \notin Ids, NEW list \in Seq(Resources)
            PROVE  RowsOf(list, i) = {}
        BY <3>1, ResourceIds, InRowsOf
      <3>2. shown \in Seq(R) /\ resources \in Seq(R) /\ DistinctIds(shown) /\ DistinctIds(resources)
        BY <1>1, <2>4, <2>5
      <3>3. \A i : RowsOf(shown, i) = RowsOf(resources, i)
        BY <1>1, <2>3, <3>1
      <3> QED
        BY ONLY <3>2, <3>3, SameRows
    <2> QED
      BY <2>6, RowSets
  <1> QED
    BY <1>2, <1>3 DEF WorkloadsInv

(* Whatever is clicked in however many visits, and however the answers are  *)
(* ordered and lost: when no edit is under way and none is in doubt, the    *)
(* list in the store has the manifests of the record, and none twice.       *)
THEOREM WorkloadsListed == Spec => []WorkloadsInv
  <1>1. QED
    BY ListInit, ListStep, FormInit, FormStep, ListMeans, PTL DEF Spec

(* A command is answered by the server only.                                *)
LEMMA InstalledByServe ==
    ASSUME ListInv, Next, NEW t \in Slots, task[t].op = "install", task[t].phase = "sent",
           task'[t].op = "install", task'[t].phase = "answered"
    PROVE  Serve(t)
  <1> USE DEF ListInv
  <1>1. DOMAIN task = Slots /\ task[t] # Idle /\ t[1] = "click"
    BY TaskForm, SlotForm DEF Shapes, CommandInv, TaskShape
  <1>2. task'[t] # task[t]
    OBVIOUS
  <1>3. CASE Open
    <2>1. t # <<"load", visit + 1>>
      BY <1>1
    <2> QED
      BY <1>1, <1>2, <1>3, <2>1 DEF Open
  <1>4. CASE Leave \/ AddWorkload \/ SelectWorkload \/ Type \/ Close
    BY <1>2, <1>4 DEF Leave, AddWorkload, SelectWorkload, Type, Close, SetDialog
  <1>5. CASE Add \/ Save \/ \E op \in Commands : Command(op)
    <2>1. PICK op, d : Click(op, d)
      BY <1>5 DEF Add, Save, Submit, Command
    <2>2. CASE t = <<"click", clicks + 1>>
      <3>1. clicks + 1 \in 1..Ops /\ clicks + 1 > clicks
        BY <2>1, Bounds DEF Click, Shapes
      <3>2. task[<<"click", clicks + 1>>] = Idle
        BY <3>1 DEF Fresh
      <3> QED
        BY <1>1, <2>2, <3>2
    <2>3. CASE t # <<"click", clicks + 1>>
      BY <1>2, <2>1, <2>3 DEF Click
    <2> QED
      BY <2>2, <2>3
  <1>6. ASSUME NEW u \in Slots, Serve(u), u # t
        PROVE  FALSE
    BY <1>2, <1>6, ServeTask
  <1>7. ASSUME NEW u \in Slots, Answer(u) \/ Reject(u)
        PROVE  FALSE
    <2>1. task' = [task EXCEPT ![u] = Idle]
      BY <1>7 DEF Answer, Reject
    <2>2. task'[t] = task[t] \/ task'[t] = Idle
      BY <1>1, <2>1
    <2> QED
      BY <1>2, <2>2 DEF Idle
  <1> QED
    BY <1>3, <1>4, <1>5, <1>6, <1>7 DEF Next

(* What is installed then is what is shown.                                 *)
LEMMA InstallShown ==
    ASSUME ListInv, FormInv, NEW t \in Slots, Serve(t), task[t].op = "install",
           task'[t].phase = "answered", ~inDoubt, ~Underway(task[t].id), HasRow(shown, task[t].id)
    PROVE  resources[FindRow(resources, task[t].id)].def = shown[FindRow(shown, task[t].id)].def
  <1> USE DEF ListInv
  <1>1. PICK i : i = task[t].id
    OBVIOUS
  <1>2. i \in Ids /\ t = <<"click", t[2]>> /\ t[2] \in 1..Ops /\ task[t] # Idle
    BY <1>1, TaskForm DEF ClickTask
  <1>3. /\ resources \in Seq(Resources) /\ shown \in Seq(Resources)
        /\ DistinctIds(resources) /\ clicks \in 0..Ops
    BY DEF Shapes
  <1>4. clicks # 0
    <2>1. ~(t[2] > clicks)
      BY <1>2 DEF Fresh
    <2> QED
      BY <1>2, <1>3, <2>1, Bounds
  <1>5. Sync
    BY <1>4 DEF Shapes
  <1>6. HasRow(resources, i)
    <2>1. IF HasRow(resources, i) THEN task'[t].phase = "answered" ELSE task'[t].phase = "failed"
      BY <1>1, ServeTask
    <2> QED
      BY <2>1
  <1>7. ASSUME NEW u \in Slots, Subject(u) = i
        PROVE  FALSE
    <2>1. task[u].op \in Edits
      BY <1>2, <1>7, Bounds, SubjectForm
    <2>2. InCommand(t)
      BY DEF InCommand, Commands
    <2>3. CASE task[u].op = "add"
      <3>1. RowsOf(shown, i) = {}
        BY <1>5, <1>7, <2>1, <2>3 DEF Sync, EditState
      <3> QED
        BY <1>1, <1>3, <3>1, InRowsOf
    <2>4. CASE task[u].op = "update"
      <3>1. (task[u].by # visit \/ visit \in pressed) /\ task[u].id = i
        BY <1>7, <2>2, <2>4, SubjectForm DEF FormInv, FormAlone, OfVisit, Submits
      <3>2. u = <<"click", u[2]>> /\ u[2] \in 1..Ops /\ task[u] # Idle
        BY <2>4, TaskForm
      <3> QED
        BY <1>1, <2>4, <3>1, <3>2 DEF Underway
    <2>5. CASE task[u].op = "delete"
      <3>1. InCommand(u) /\ u # t
        BY <2>5 DEF InCommand, Commands
      <3> QED
        BY <2>2, <3>1 DEF Shapes, CommandInv, OneCommand
    <2> QED
      BY <2>1, <2>3, <2>4, <2>5 DEF Edits
  <1>8. RowsOf(shown, i) = RowsOf(resources, i)
    BY <1>2, <1>5, <1>7 DEF Sync
  <1>9. PICK a, b : a = FindRow(shown, i) /\ b = FindRow(resources, i)
    OBVIOUS
  <1>10. a \in DOMAIN shown /\ shown[a].id = i
    BY <1>1, <1>3, <1>9, RowFound
  <1>11. b \in DOMAIN resources /\ resources[b].id = i
    BY <1>3, <1>6, <1>9, RowFound
  <1>12. shown[a] \in RowsOf(resources, i)
    BY <1>3, <1>8, <1>10, InRowsOf
  <1>13. PICK c \in DOMAIN resources : resources[c] = shown[a]
    BY <1>3, <1>12, InRowsOf
  <1>14. c = b
    BY <1>3, <1>10, <1>11, <1>13 DEF DistinctIds
  <1> QED
    BY <1>1, <1>9, <1>13, <1>14

(* What kubectl applies is the manifest that the page shows, unless an edit *)
(* is in doubt, or an update of the manifest is under way that another      *)
(* visit made, or this one, in which Enter went past the buttons.           *)
THEOREM WorkloadsInstall == Spec => InstallsWhatIsShown
  <1> DEFINE Shown(n) ==
               LET t == <<"click", n>>
               IN  task[t].op = "install" /\ task[t].phase = "sent" /\ task'[t].op = "install"
                       /\ task'[t].phase = "answered" =>
                   \/ inDoubt \/ Underway(task[t].id) \/ ~HasRow(shown, task[t].id)
                   \/ resources[FindRow(resources, task[t].id)].def = shown[FindRow(shown, task[t].id)].def
  <1>1. ListInv /\ FormInv /\ [Next]_vars => [\A n \in 1..Ops : Shown(n)]_vars
    <2> SUFFICES ASSUME ListInv, FormInv, Next, NEW n \in 1..Ops
                 PROVE  Shown(n)
      OBVIOUS
    <2>1. PICK t : t = <<"click", n>>
      OBVIOUS
    <2>2. t \in Slots
      BY <2>1 DEF Slots
    <2> SUFFICES ASSUME task[t].op = "install", task[t].phase = "sent",
                        task'[t].op = "install", task'[t].phase = "answered",
                        ~inDoubt, ~Underway(task[t].id), HasRow(shown, task[t].id)
                 PROVE  resources[FindRow(resources, task[t].id)].def = shown[FindRow(shown, task[t].id)].def
      BY <2>1
    <2>3. Serve(t)
      BY <2>2, InstalledByServe
    <2> QED
      BY <2>2, <2>3, InstallShown
  <1>2. QED
    BY <1>1, ListInit, ListStep, FormInit, FormStep, PTL DEF Spec, InstallsWhatIsShown

=============================================================================
