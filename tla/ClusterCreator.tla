---------------------------- MODULE ClusterCreator ----------------------------
(***************************************************************************)
(* The VM ids and names that makoon proposes for a new cluster.  The server *)
(* looks for a slot of ids that no machine uses (generator.rs) and gives   *)
(* its first id to the first master; the browser derives every further     *)
(* node from those in the list (nodes.ts), as the user adds and deletes    *)
(* nodes (cluster-creator-store.ts).  Nothing checks the list as a whole.  *)
(*                                                                         *)
(* A node is its id, its type and the number at the end of its name; the   *)
(* last octet of its address moves with the id.  What a user types over    *)
(* what is proposed is left out, and so is a search that finds no slot.    *)
(***************************************************************************)
EXTENDS Integers, FiniteSets

CONSTANTS LastSlot,  \* the slots are 100, 110, ..., 100 + 10 * LastSlot
          Ids,       \* the ids that other machines may have
          MaxMade    \* bound: how many nodes of a type are ever added

ASSUME ParameterAssumption == LastSlot \in Nat /\ Ids \subseteq Nat /\ MaxMade \in Nat

VARIABLES open,      \* whether the creator shows a proposal
          taken,     \* the ids in use when the slot was looked for
          default,   \* the default master node
          nodes      \* the nodes of the cluster to be created

VARIABLES made,      \* history: how many nodes of a type were in the list so far
          intact     \* history: no master has been deleted

vars == <<open, taken, default, nodes, made, intact>>

Types == {"master", "worker"}
Node  == [id : Int, type : Types, number : Int]
-----------------------------------------------------------------------------
Slots == {100 + 10 * k : k \in 0..LastSlot}

IsUsed_UpToTheNext(used, x) == \E i \in used : x <= i /\ i < x + 10    \* mutant
IsUsed(used, x) == \E i \in used : x <= i /\ i <= x + 10

\* The lowest slot that is not used, if there is one.
EmptySlot(used) ==
    {x \in Slots : /\ ~IsUsed(used, x)
                   /\ \A y \in Slots : y < x => IsUsed(used, y)}

Highest(ns) == {n \in ns : \A m \in ns : m.id <= n.id}
Lowest(ns)  == {n \in ns : \A m \in ns : n.id <= m.id}
OfType(t)   == {n \in nodes : n.type = t}

NextNode(n) == [id |-> n.id + 1, type |-> n.type, number |-> n.number + 1]

\* The first node of a type, from the lowest node of the other one.
FirstNode_Four(t, n) ==                                                    \* mutant
    [id     |-> n.id + IF t = "master" THEN -5
                       ELSE IF Cardinality(nodes) > 4 THEN Cardinality(nodes) ELSE 4,
     type   |-> t,
     number |-> 1]
FirstNode(t, n) ==
    [id     |-> n.id + IF t = "master" THEN -5
                       ELSE IF Cardinality(nodes) > 5 THEN Cardinality(nodes) ELSE 5,
     type   |-> t,
     number |-> 1]

generateNode(t) ==
    IF OfType(t) # {} THEN {NextNode(n) : n \in Highest(OfType(t))}
    ELSE IF nodes # {} THEN {FirstNode(t, n) : n \in Lowest(nodes)}
    ELSE {default}
-----------------------------------------------------------------------------
TypeOK ==
    /\ open \in BOOLEAN /\ intact \in BOOLEAN
    /\ taken \subseteq Ids
    /\ default \in Node
    /\ nodes \subseteq Node /\ IsFiniteSet(nodes)
    /\ made \in [Types -> Nat]

NoDefault == [id |-> 0, type |-> "master", number |-> 0]

Init ==
    /\ open = FALSE
    /\ taken = {}
    /\ default = NoDefault
    /\ nodes = {}
    /\ made = [t \in Types |-> 0]
    /\ intact = TRUE

\* mutant: what is proposed is counted as used

(* The dialog is opened and asks the server for a default cluster. *)
generateDefaultCluster ==
    /\ ~open
    /\ \E used \in SUBSET Ids : \E x \in EmptySlot(used) :
          /\ taken' = used
          /\ default' = [id |-> x, type |-> "master", number |-> 1]
    /\ open' = TRUE
    /\ nodes' = {default'}
    /\ made' = [made EXCEPT !["master"] = 1]
    /\ UNCHANGED intact

addNode(t) ==
    /\ open
    /\ made[t] < MaxMade
    /\ \E n \in generateNode(t) : nodes' = nodes \cup {n}
    /\ made' = [made EXCEPT ![t] = @ + 1]
    /\ UNCHANGED <<open, taken, default, intact>>

canBeDeleted(n) == n.type = "master" => OfType("master") # {n}

deleteNode(n) ==
    /\ open
    /\ canBeDeleted(n)
    /\ nodes' = {m \in nodes : m.id # n.id}
    /\ intact' = (intact /\ n.type # "master")
    /\ UNCHANGED <<open, taken, default, made>>

\* The dialog is left, with or without a request to create the cluster.
Close ==
    /\ open
    /\ open' = FALSE
    /\ taken' = {}
    /\ default' = NoDefault
    /\ nodes' = {}
    /\ made' = [t \in Types |-> 0]
    /\ intact' = TRUE

Next ==
    \/ generateDefaultCluster
    \/ \E t \in Types : addNode(t)
    \/ \E n \in nodes : deleteNode(n)
    \/ Close

Spec == Init /\ [][Next]_vars
-----------------------------------------------------------------------------
(* Two nodes never get one id or one name, as long as no more than five     *)
(* masters were made: the sixth one walks into the ids of the workers.      *)
DistinctPlan ==
    made["master"] <= 5 =>
        \A a, b \in nodes : a # b =>
            a.id # b.id /\ ~(a.type = b.type /\ a.number = b.number)

(* No node gets an id that was in use, for up to five masters and six        *)
(* workers: they just fit into the slot, both of whose ends are looked at.   *)
PlanIsFree ==
    intact /\ made["master"] <= 5 /\ made["worker"] <= 6 =>
        \A n \in nodes : n.id \notin taken
=============================================================================
