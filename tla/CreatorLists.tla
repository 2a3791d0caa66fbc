----------------------------- MODULE CreatorLists ------------------------------
(***************************************************************************)
(* The Helm apps and the workloads of the cluster that a wizard is about   *)
(* to ask for: two lists in ClusterCreatorStore, each with a dialog that   *)
(* adds, edits and deletes.  Rows are found by what the user called them   *)
(* (the release name, the name), which the user may change and may use     *)
(* twice; their field id is empty until the server has the cluster.  The   *)
(* proposal of the server may replace the store while a dialog is open.    *)
(*                                                                         *)
(* One step of the wizard is shown at a time, so there is one dialog.  The *)
(* fields besides the name are one value.                                  *)
(***************************************************************************)
EXTENDS Naturals, Sequences, FiniteSets, Positions

CONSTANTS Keys,     \* release names, names
          Bodies,   \* what else is in the form
          Rows,     \* bound: rows of a list
          Made,     \* bound: rows made in all
          None      \* an empty field, no row

VARIABLES lists,      \* cluster.helmApps and cluster.clusterResources
          shown,      \* the list whose dialog is open, or None
          selected,   \* selectedAppId, selectedWorkloadId
          form,
          generating  \* the proposal is under way

VARIABLES made,       \* history: number of rows made; their numbers are in the rows
          target      \* history: the number of the row that was clicked

vars == <<lists, shown, selected, form, generating, made, target>>

Kinds == {"helmApps", "clusterResources"}
Forms == [name : Keys \cup {None}, body : Bodies \cup {None}]
Blank == [name |-> None, body |-> None]
Row(n, f) == [no |-> n, name |-> f.name, body |-> f.body]

Numbers(l) == {l[i].no : i \in DOMAIN l}

TypeOK ==
    /\ \A k \in Kinds : /\ Len(lists[k]) <= Rows
                        /\ \A i \in DOMAIN lists[k] : /\ lists[k][i].no \in 1..made
                                                      /\ lists[k][i].name \in Keys
                                                      /\ lists[k][i].body \in Bodies
                        /\ Cardinality(Numbers(lists[k])) = Len(lists[k])
    /\ shown \in Kinds \cup {None} /\ form \in Forms
    /\ generating \in BOOLEAN
    /\ made \in 0..Made /\ target \in 0..made
    /\ selected \in Keys \cup {None}
    /\ selected # None => shown # None /\ target # 0

Init ==
    /\ lists = [k \in Kinds |-> <<>>]
    /\ shown = None /\ selected = None /\ form = Blank
    /\ generating = TRUE
    /\ made = 0 /\ target = 0
-----------------------------------------------------------------------------
(* The store                                                                *)
Named(l, key) == {i \in DOMAIN l : l[i].name = key}
First(l, key) == Nth(Named(l, key), 1)

addHelmApp(l, row) == Append(l, row)

\* By the name it had; an index of -1 changes nothing that is ever read.
updateHelmApp_ByNewName(l, key, f) ==                     \* mutant: looks for what was typed
    IF Named(l, f.name) = {} THEN l
    ELSE [l EXCEPT ![First(l, f.name)] = Row(@.no, f)]
updateHelmApp(l, key, f) ==
    IF Named(l, key) = {} THEN l
    ELSE [l EXCEPT ![First(l, key)] = Row(@.no, f)]

deleteHelmApp_Others(l, key) == Kept(l, Named(l, key))                \* mutant: keeps it
deleteHelmApp(l, key) == Kept(l, DOMAIN l \ Named(l, key))

\* Once, when the wizard was opened: a cluster without apps and resources
generateDefaultCluster ==
    /\ generating
    /\ generating' = FALSE
    /\ lists' = [k \in Kinds |-> <<>>]
    /\ UNCHANGED <<shown, selected, form, made, target>>
-----------------------------------------------------------------------------
(* The tables and their dialogs                                             *)
OpenNew(k) ==
    /\ shown = None
    /\ shown' = k /\ selected' = None /\ form' = Blank /\ target' = 0
    /\ UNCHANGED <<lists, generating, made>>

OpenRow(k) ==
    /\ shown = None
    /\ \E i \in DOMAIN lists[k] :
          LET row == lists[k][First(lists[k], lists[k][i].name)]
          IN /\ selected' = row.name
             /\ form' = [name |-> row.name, body |-> row.body]
             /\ target' = lists[k][i].no
    /\ shown' = k
    /\ UNCHANGED <<lists, generating, made>>

Type ==
    /\ shown # None
    /\ form' \in Forms
    /\ UNCHANGED <<lists, shown, selected, generating, made, target>>

Closed == shown' = None /\ selected' = None /\ form' = Blank /\ target' = 0

Close ==
    /\ shown # None
    /\ Closed
    /\ UNCHANGED <<lists, generating, made>>

\* "Save" is there when the required fields are.
Valid(f) == f.name # None /\ f.body # None

Save(k) ==
    /\ shown = k /\ Valid(form)
    /\ IF selected # None
       THEN lists' = [lists EXCEPT ![k] = updateHelmApp(@, selected, form)] /\ UNCHANGED made
       ELSE /\ Len(lists[k]) < Rows /\ made < Made
            /\ lists' = [lists EXCEPT ![k] = addHelmApp(@, Row(made + 1, form))]
            /\ made' = made + 1
    /\ Closed
    /\ UNCHANGED generating

onDelete(k) ==
    /\ shown = k /\ selected # None
    /\ lists' = [lists EXCEPT ![k] = deleteHelmApp(@, selected)]
    /\ Closed
    /\ UNCHANGED <<generating, made>>

SaveApp        == Save("helmApps")
SaveWorkload   == Save("clusterResources")
DeleteApp      == onDelete("helmApps")
DeleteWorkload == onDelete("clusterResources")

Next ==
    \/ generateDefaultCluster
    \/ OpenNew("helmApps") \/ OpenRow("helmApps")
    \/ OpenNew("clusterResources") \/ OpenRow("clusterResources")
    \/ Type \/ Close
    \/ SaveApp \/ SaveWorkload \/ DeleteApp \/ DeleteWorkload

Spec == Init /\ [][Next]_vars
-----------------------------------------------------------------------------
Changed(l, m, n) == {i \in DOMAIN l : l[i].no = n} # {}
                    /\ \A i \in DOMAIN l, j \in DOMAIN m : l[i].no = n => m[j] # l[i]

Ambiguous(l) == \E i, j \in DOMAIN l : i # j /\ l[i].name = l[j].name

(* Saving and deleting touch the row that the user clicked and no other, as *)
(* long as no two rows of the list have one name.                           *)
OnlyTheClicked ==
    [][\A k \in Kinds : ~Ambiguous(lists[k]) =>
         \A n \in Numbers(lists[k]) :
            Changed(lists[k], lists'[k], n) => n = target \/ (generating /\ ~generating')]_vars

(* What the user saved is in the list, unless the proposal has replaced the *)
(* list in which the row was clicked.                                       *)
SavedIsThere ==
    [][\A k \in Kinds : (SaveApp \/ SaveWorkload) /\ shown = k =>
            \/ \E i \in DOMAIN lists'[k] : /\ lists'[k][i].name = form.name
                                           /\ lists'[k][i].body = form.body
            \/ selected # None /\ target \notin Numbers(lists[k])]_vars

(* A name that is deleted is gone, with every row that has it.              *)
DeletedIsGone ==
    [][\A k \in Kinds : (DeleteApp \/ DeleteWorkload) /\ shown = k =>
            target \notin Numbers(lists'[k])]_vars
=============================================================================
