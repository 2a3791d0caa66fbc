-------------------------- MODULE MCClusterCreator --------------------------
(* The store of the wizard.  Its nodes: ids at both ends of a slot and just *)
(* behind it, and more nodes than fit.  Its lists: two names, so that a row *)
(* can be given its own, another or a new one.  The two parts of the store  *)
(* share nothing, so that a behaviour edits one of them only.               *)
EXTENDS ClusterCreator

CONSTANTS Keys, Bodies, Rows, Made, None

VARIABLES lists, shown, selected, form, generating, rows, target

VARIABLE edited   \* what is edited in this behaviour

listVars == <<lists, shown, selected, form, generating, rows, target>>

Lists == INSTANCE CreatorLists WITH made <- rows

ASSUME ListsAssumption ==
    /\ Rows \in Nat /\ Made \in Nat
    /\ None \notin Keys \cup Bodies \cup Lists!Kinds

StoreInit == Init /\ Lists!Init /\ edited \in {"nodes", "lists"}

StoreNext ==
    /\ \/ edited = "nodes" /\ Next /\ UNCHANGED listVars
       \/ edited = "lists" /\ Lists!Next /\ UNCHANGED vars
    /\ UNCHANGED edited

StoreSpec == StoreInit /\ [][StoreNext]_<<vars, listVars, edited>>

(* Ids and names are distinct until a sixth master is made, the rows of both *)
(* lists have the fields of a form, and a closed dialog remembers no row.    *)
StoreInv == TypeOK /\ Lists!TypeOK /\ DistinctPlan

(* A form that is saved is found in the list, in the row that was clicked.   *)
SavesTheClicked == Lists!OnlyTheClicked /\ Lists!SavedIsThere

(* See CreatorLists. *)
DeletedIsGone == Lists!DeletedIsGone
=============================================================================
