------------------------ MODULE ClusterCreatorProofs ------------------------
(* Proofs about ClusterCreator, for any slots, ids in use and bounds. *)
EXTENDS MCClusterCreator, PositionsProofs, SequenceTheorems

masters == OfType("master")
workers == OfType("worker")

(* Within a type, names are numbered in the order of the ids.               *)
Numbered ==
    \A a, b \in nodes : a.type = b.type =>
        /\ a.id < b.id => a.number < b.number
        /\ a.id = b.id => a = b

(* Masters grow upwards from the default id, workers stay five above it.    *)
Apart ==
    /\ \A n \in masters : default.id <= n.id /\ n.id < default.id + made["master"]
    /\ \A n \in workers : default.id + 5 <= n.id

(* The number of masters bounds the step to the first worker.  There always *)
(* is one: a master is only deleted alone when it has its id for itself.    *)
MastersCounted ==
    /\ Cardinality(masters) <= made["master"]
    /\ open => masters # {}

(* With the default master in the list workers fill the slot from its middle. *)
WorkersFit ==
    intact =>
        /\ open => default \in nodes
        /\ \A n \in workers : n.id < default.id + 5 + made["worker"]

SlotFree == open => ~IsUsed(taken, default.id)

(* The inductive invariant of the list. *)
PlanInv ==
    /\ TypeOK
    /\ default.type = "master" /\ default.id \in Nat
    /\ ~open => nodes = {} /\ made = [t \in Types |-> 0] /\ intact
    /\ Numbered /\ SlotFree
    /\ made["master"] <= 5 => Apart /\ MastersCounted /\ WorkersFit

LEMMA NoDefaultType == NoDefault \in Node /\ NoDefault.type = "master" /\ NoDefault.id = 0
BY DEF NoDefault, Node, Types

LEMMA InitPlan == ASSUME Init PROVE PlanInv
<1>1. masters = {} /\ workers = {}
  BY DEF Init, OfType, masters, workers
<1>2. Cardinality(masters) = 0 /\ IsFiniteSet(nodes)
  BY <1>1, FS_EmptySet DEF Init
<1>3. TypeOK
  BY <1>2, NoDefaultType DEF Init, TypeOK
<1> QED
  BY <1>1, <1>2, <1>3, NoDefaultType DEF Init, PlanInv, Apart, MastersCounted, Numbered, WorkersFit, SlotFree,
     Types

LEMMA ClosePlan == ASSUME Close PROVE PlanInv'
<1>1. masters' = {} /\ workers' = {}
  BY DEF Close, OfType, masters, workers
<1>2. Cardinality(masters') = 0 /\ IsFiniteSet(nodes')
  BY <1>1, FS_EmptySet DEF Close
<1>3. TypeOK'
  BY <1>2, NoDefaultType DEF Close, TypeOK
<1> QED
  BY <1>1, <1>2, <1>3, NoDefaultType DEF Close, PlanInv, Apart, MastersCounted, Numbered, WorkersFit, SlotFree,
     Types

LEMMA OpenPlan == ASSUME PlanInv, generateDefaultCluster PROVE PlanInv'
<1>1. PICK used \in SUBSET Ids : \E x \in EmptySlot(used) :
          taken' = used /\ default' = [id |-> x, type |-> "master", number |-> 1]
  BY DEF generateDefaultCluster
<1>2. PICK x \in EmptySlot(used) :
          taken' = used /\ default' = [id |-> x, type |-> "master", number |-> 1]
  BY <1>1
<1>3. x \in Nat /\ ~IsUsed(taken', x)
  BY <1>2, ParameterAssumption DEF EmptySlot, Slots
<1>4. nodes' = {default'} /\ masters' = {default'} /\ workers' = {}
  BY <1>2 DEF generateDefaultCluster, OfType, masters, workers
<1>5. Cardinality(masters') = 1 /\ IsFiniteSet(nodes')
  BY <1>4, FS_Singleton
<1>6. made' \in [Types -> Nat] /\ made'["master"] = 1
  BY DEF generateDefaultCluster, PlanInv, TypeOK, Types
<1>7. TypeOK'
  BY <1>2, <1>3, <1>4, <1>5, <1>6 DEF generateDefaultCluster, PlanInv, TypeOK, Node, Types
<1>8. default'.id = x /\ default'.type = "master" /\ open' = TRUE
  BY <1>2 DEF generateDefaultCluster
<1>9. Apart' /\ WorkersFit'
  BY <1>3, <1>4, <1>6, <1>8 DEF Apart, WorkersFit
<1>10. Numbered' /\ MastersCounted' /\ SlotFree'
  BY <1>3, <1>4, <1>5, <1>6, <1>8 DEF Numbered, MastersCounted, SlotFree, IsUsed
<1> QED
  BY <1>3, <1>7, <1>8, <1>9, <1>10 DEF PlanInv

(* What generateNode makes: a node above the others of its type, which, as   *)
(* long as masters are few, lies in the part of the slot for its type.       *)
LEMMA Generated ==
    ASSUME PlanInv, open, NEW t \in Types, NEW n \in generateNode(t)
    PROVE  /\ n \in Node
           /\ \A m \in nodes : m.type = n.type => m.id < n.id /\ m.number < n.number
<1>1. CASE OfType(t) # {}
  <2>1. PICK h \in Highest(OfType(t)) : n = NextNode(h)
    BY <1>1 DEF generateNode
  <2>2. h \in Node /\ h.type = t
    BY <2>1 DEF Highest, OfType, PlanInv, TypeOK
  <2>3. n \in Node /\ n.type = t /\ n.id = h.id + 1 /\ n.number = h.number + 1
    BY <2>1, <2>2 DEF NextNode, Node
  <2>4. ASSUME NEW m \in nodes, m.type = t
        PROVE  m.id < n.id /\ m.number < n.number
    <3>1. h \in nodes /\ m \in Node /\ m.id <= h.id
      BY <2>1, <2>4 DEF Highest, OfType, PlanInv, TypeOK
    <3>2. m.number <= h.number
      BY <3>1, <2>2, <2>4 DEF PlanInv, Numbered, Node
    <3> QED BY <2>2, <2>3, <3>1, <3>2 DEF Node
  <2> QED BY <2>3, <2>4
<1>2. CASE OfType(t) = {} /\ nodes # {}
  <2>1. PICK l \in nodes : n = FirstNode(t, l)
    BY <1>2 DEF generateNode, Lowest
  <2>2. Cardinality(nodes) \in Nat
    BY FS_CardinalityType DEF PlanInv, TypeOK
  <2>3. n \in Node /\ n.type = t
    BY <2>1, <2>2 DEF FirstNode, PlanInv, TypeOK, Node
  <2> QED BY <1>2, <2>3 DEF OfType
<1>3. CASE OfType(t) = {} /\ nodes = {}
  BY <1>3 DEF generateNode, PlanInv, TypeOK
<1> QED BY <1>1, <1>2, <1>3

LEMMA GeneratedFew ==
    ASSUME PlanInv, open, NEW t \in Types, NEW n \in generateNode(t),
           made["master"] <= 5
    PROVE  /\ n.type = t
           /\ t = "master" => default.id <= n.id /\ n.id <= default.id + made["master"]
           /\ t = "worker" => default.id + 5 <= n.id
           /\ t = "worker" /\ intact => n.id <= default.id + 5 + made["worker"]
<1> USE DEF masters, workers, Types
<1>1. CASE OfType(t) # {}
  <2>1. PICK h \in Highest(OfType(t)) : n = NextNode(h)
    BY <1>1 DEF generateNode
  <2>2. h \in Node /\ h.type = t /\ h \in OfType(t)
    BY <2>1 DEF Highest, OfType, PlanInv, TypeOK
  <2>3. n.type = t /\ n.id = h.id + 1
    BY <2>1, <2>2 DEF NextNode, Node
  <2> QED
    BY <2>2, <2>3 DEF PlanInv, Apart, WorkersFit, TypeOK, Node
<1>2. CASE OfType(t) = {}
  <2>1. t = "worker" /\ nodes # {}
    BY <1>2 DEF PlanInv, MastersCounted, OfType
  <2>2. PICK l \in Lowest(nodes) : n = FirstNode(t, l)
    BY <1>2, <2>1 DEF generateNode
  <2>3. nodes = masters
    BY <1>2, <2>1 DEF OfType, PlanInv, TypeOK, Node
  <2>4. Cardinality(nodes) \in Nat /\ Cardinality(nodes) <= 5
    BY <2>3, FS_CardinalityType DEF PlanInv, TypeOK, MastersCounted
  <2>5. n.type = t /\ n.id = l.id + 5
    BY <2>1, <2>2, <2>4 DEF FirstNode
  <2>6. l \in masters /\ l.id \in Int /\ default.id <= l.id
    BY <2>2, <2>3 DEF Lowest, PlanInv, TypeOK, Node, Apart
  <2>7. intact => l.id <= default.id
    BY <2>2 DEF Lowest, PlanInv, WorkersFit
  <2> QED
    BY <2>1, <2>5, <2>6, <2>7 DEF PlanInv, TypeOK, Node
<1> QED BY <1>1, <1>2

LEMMA AddPlan == ASSUME PlanInv, NEW t \in Types, addNode(t) PROVE PlanInv'
<1> USE DEF masters, workers
<1>1. PICK n \in generateNode(t) : nodes' = nodes \cup {n}
  BY DEF addNode
<1>2. open /\ open' = open /\ taken' = taken /\ default' = default /\ intact' = intact
  BY DEF addNode
<1>3. /\ made \in [Types -> Nat] /\ made' \in [Types -> Nat]
      /\ made'[t] = made[t] + 1
      /\ \A u \in Types \ {t} : made'[u] = made[u]
  BY DEF addNode, PlanInv, TypeOK
<1>4. /\ n \in Node
      /\ \A m \in nodes : m.type = n.type => m.id < n.id /\ m.number < n.number
  BY <1>1, <1>2, Generated
<1>5. TypeOK'
  BY <1>1, <1>2, <1>3, <1>4, FS_AddElement DEF PlanInv, TypeOK
<1>6. Numbered'
  <2> SUFFICES ASSUME NEW a \in nodes', NEW b \in nodes', a.type = b.type
               PROVE  (a.id < b.id => a.number < b.number) /\ (a.id = b.id => a = b)
    BY DEF Numbered
  <2>1. a \in Node /\ b \in Node
    BY <1>1, <1>4 DEF PlanInv, TypeOK
  <2> QED BY <1>1, <1>4, <2>1 DEF PlanInv, Numbered, Node
<1>7. SlotFree'
  BY <1>2 DEF PlanInv, SlotFree, IsUsed
<1>8. ASSUME made'["master"] <= 5
      PROVE  Apart' /\ MastersCounted' /\ WorkersFit'
  <2>1. made["master"] <= made'["master"] /\ made["master"] <= 5 /\ made["master"] \in Nat
    BY <1>3, <1>8 DEF Types
  <2>2. Apart /\ MastersCounted /\ WorkersFit
    BY <2>1 DEF PlanInv
  <2>3. /\ n.type = t
        /\ t = "master" => default.id <= n.id /\ n.id <= default.id + made["master"]
        /\ t = "worker" => default.id + 5 <= n.id
        /\ t = "worker" /\ intact => n.id <= default.id + 5 + made["worker"]
    BY <1>1, <1>2, <2>1, GeneratedFew
  <2>4. CASE t = "master"
    <3>1. masters' = masters \cup {n} /\ workers' = workers
      BY <1>1, <2>3, <2>4 DEF OfType
    <3>2. made'["master"] = made["master"] + 1 /\ made'["worker"] = made["worker"]
      BY <1>3, <2>4 DEF Types
    <3>3. Apart'
      <4>1. /\ default.id \in Nat /\ n.id \in Int
            /\ \A m \in masters : m.id \in Int
        BY <1>4 DEF PlanInv, TypeOK, Node, OfType
      <4> HIDE DEF masters, workers
      <4>2. \A m \in masters' : default.id <= m.id /\ m.id < default.id + made'["master"]
        BY <2>1, <2>2, <2>3, <2>4, <3>1, <3>2, <4>1 DEF Apart
      <4> QED BY <1>2, <2>2, <3>1, <4>2 DEF Apart
    <3>4. IsFiniteSet(masters)
      BY FS_Subset DEF PlanInv, TypeOK, OfType
    <3>5. MastersCounted'
      <4> HIDE DEF masters, workers
      <4>1. Cardinality(masters) \in Nat
        BY <3>4, FS_CardinalityType
      <4>2. \/ Cardinality(masters') = Cardinality(masters)
            \/ Cardinality(masters') = Cardinality(masters) + 1
        BY <3>1, <3>4, FS_AddElement
      <4> QED BY <4>1, <4>2, <2>1, <2>2, <3>1, <3>2 DEF MastersCounted
    <3>6. WorkersFit'
      BY <1>1, <1>2, <2>2, <3>1, <3>2 DEF WorkersFit
    <3> QED BY <3>3, <3>5, <3>6
  <2>5. CASE t = "worker"
    <3>1. masters' = masters /\ workers' = workers \cup {n}
      BY <1>1, <2>3, <2>5 DEF OfType
    <3>2. made'["worker"] = made["worker"] + 1 /\ made'["master"] = made["master"]
      BY <1>3, <2>5 DEF Types
    <3>3. Apart'
      BY <1>2, <2>2, <2>3, <2>5, <3>1, <3>2 DEF Apart
    <3>4. MastersCounted'
      BY <1>2, <2>2, <3>1, <3>2 DEF MastersCounted
    <3>5. made["worker"] \in Nat /\ default.id \in Nat /\ n.id \in Int
          /\ \A m \in workers : m.id \in Int
      BY <1>3, <1>4 DEF PlanInv, TypeOK, Node, Types, OfType
    <3>6. WorkersFit'
      BY <1>1, <1>2, <2>2, <2>3, <2>5, <3>1, <3>2, <3>5 DEF WorkersFit
    <3> QED BY <3>3, <3>4, <3>6
  <2> QED BY <2>4, <2>5 DEF Types
<1> QED BY <1>2, <1>5, <1>6, <1>7, <1>8 DEF PlanInv

LEMMA DeletePlan == ASSUME PlanInv, NEW n \in nodes, deleteNode(n) PROVE PlanInv'
<1> USE DEF masters, workers
<1>1. /\ open /\ open' = open /\ taken' = taken /\ default' = default /\ made' = made
      /\ nodes' = {m \in nodes : m.id # n.id}
      /\ intact' = (intact /\ n.type # "master")
  BY DEF deleteNode
<1>2. nodes' \subseteq nodes /\ masters' \subseteq masters /\ workers' \subseteq workers
  BY <1>1 DEF OfType
<1>3. IsFiniteSet(nodes') /\ IsFiniteSet(masters)
  BY <1>2, FS_Subset DEF PlanInv, TypeOK, OfType
<1>4. TypeOK'
  BY <1>1, <1>2, <1>3 DEF PlanInv, TypeOK
<1>5. Numbered' /\ SlotFree'
  BY <1>1, <1>2 DEF PlanInv, Numbered, SlotFree, IsUsed
<1>6. ASSUME made["master"] <= 5
      PROVE  Apart' /\ MastersCounted' /\ WorkersFit'
  <2>1. Apart /\ MastersCounted /\ WorkersFit
    BY <1>6 DEF PlanInv
  <2>2. Apart'
    BY <1>1, <1>2, <2>1 DEF Apart
  <2>3. \A m \in nodes : m.type = n.type /\ m.id = n.id => m = n
    BY DEF PlanInv, Numbered
  <2>4. made["master"] \in Nat /\ default.id \in Nat /\ nodes \subseteq Node
    BY DEF PlanInv, TypeOK, Types
  <2>5. \A a \in masters, b \in workers : a.id # b.id
    BY <1>6, <2>1, <2>4 DEF Apart, Node, OfType
  <2>6. masters' # {}
    <3>1. CASE n.type = "master"
      <4>1. masters # {n}
        BY <3>1 DEF deleteNode, canBeDeleted
      <4>2. PICK m \in masters : m # n
        BY <4>1, <1>1, <2>1 DEF MastersCounted
      <4> QED BY <1>1, <2>3, <3>1, <4>2 DEF OfType
    <3>2. CASE n.type = "worker"
      BY <1>1, <2>1, <2>5, <3>2 DEF MastersCounted, OfType
    <3> QED BY <3>1, <3>2, <2>4 DEF Node, Types
  <2>7. MastersCounted'
    <3>1. Cardinality(masters') <= Cardinality(masters)
      BY <1>2, <1>3, FS_Subset
    <3>2. Cardinality(masters') \in Nat /\ Cardinality(masters) \in Nat
      BY <1>2, <1>3, FS_Subset, FS_CardinalityType
    <3> QED BY <1>1, <2>1, <2>4, <2>6, <3>1, <3>2 DEF MastersCounted
  <2>8. WorkersFit'
    <3>1. ASSUME intact' PROVE default \in nodes'
      <4>1. n \in workers /\ default \in masters
        BY <1>1, <2>1, <2>4, <3>1 DEF WorkersFit, OfType, Node, Types, PlanInv
      <4> QED BY <1>1, <2>1, <2>5, <3>1, <4>1 DEF WorkersFit
    <3> QED BY <1>1, <1>2, <2>1, <3>1 DEF WorkersFit
  <2> QED BY <2>2, <2>7, <2>8
<1> QED BY <1>1, <1>4, <1>5, <1>6 DEF PlanInv

LEMMA PlanStep == PlanInv /\ [Next]_vars => PlanInv'
<1> SUFFICES ASSUME PlanInv, [Next]_vars PROVE PlanInv'
  OBVIOUS
<1>1. CASE UNCHANGED vars
  BY <1>1 DEF vars, PlanInv, TypeOK, Numbered, SlotFree, Apart, MastersCounted, WorkersFit,
     OfType, IsUsed, masters, workers
<1> QED
  BY <1>1, OpenPlan, AddPlan, DeletePlan, ClosePlan DEF Next

(* PlanInv holds however nodes are added and deleted. *)
THEOREM PlanInvariant == Spec => []PlanInv
BY PlanStep, InitPlan, PTL DEF Spec

LEMMA PlanDistinct == PlanInv => DistinctPlan
<1> SUFFICES ASSUME PlanInv, made["master"] <= 5,
                    NEW a \in nodes, NEW b \in nodes, a # b
             PROVE  a.id # b.id /\ ~(a.type = b.type /\ a.number = b.number)
  BY DEF DistinctPlan
<1>1. a \in Node /\ b \in Node /\ default.id \in Nat /\ made["master"] \in Nat
  BY DEF PlanInv, TypeOK, Types
<1>2. CASE a.type = b.type
  BY <1>1, <1>2 DEF PlanInv, Numbered, Node
<1>3. CASE a.type # b.type
  BY <1>1, <1>3 DEF PlanInv, Apart, OfType, masters, workers, Node, Types
<1> QED BY <1>2, <1>3

(* Two nodes never get one id or one name while no more than five masters    *)
(* were made, whatever was deleted in between.                               *)
THEOREM PlanIsDistinct == Spec => []DistinctPlan
BY PlanDistinct, PlanInvariant, PTL

(* No node gets an id that was in use when the slot was looked for, as long   *)
(* as the list has its default master, five masters and six workers at most. *)
THEOREM PlanStaysFree == Spec => []PlanIsFree
<1>1. PlanInv => PlanIsFree
  <2> SUFFICES ASSUME PlanInv, intact, made["master"] <= 5, made["worker"] <= 6,
                      NEW n \in nodes, n.id \in taken
               PROVE  FALSE
    BY DEF PlanIsFree
  <2>1. n \in Node /\ default.id \in Nat /\ made["master"] \in Nat /\ made["worker"] \in Nat
    BY DEF PlanInv, TypeOK, Types
  <2>2. open
    BY DEF PlanInv
  <2>3. default.id <= n.id /\ n.id <= default.id + 10
    BY <2>1 DEF PlanInv, Apart, WorkersFit, OfType, masters, workers, Node, Types
  <2> QED BY <2>2, <2>3 DEF PlanInv, SlotFree, IsUsed
<1> QED BY <1>1, PlanInvariant, PTL


-----------------------------------------------------------------------------
(* The lists of apps and workloads, for any names and bounds.               *)
RowSet == [no : Nat, name : Keys, body : Bodies]

NumbersDiffer(l) == \A i, j \in DOMAIN l : l[i].no = l[j].no => i = j

(* The row that was clicked, if its list was not replaced, has the name it  *)
(* had when the dialog was opened.                                          *)
Clicked(l) == l = <<>> \/ \E i \in DOMAIN l : l[i].no = target /\ l[i].name = selected

ListsInv ==
    /\ lists \in [Lists!Kinds -> Seq(RowSet)]
    /\ \A k \in Lists!Kinds : /\ Len(lists[k]) <= Rows
                              /\ \A i \in DOMAIN lists[k] : lists[k][i].no \in 1..rows
                              /\ NumbersDiffer(lists[k])
    /\ shown \in Lists!Kinds \cup {None} /\ form \in Lists!Forms
    /\ generating \in BOOLEAN
    /\ rows \in 0..Made /\ target \in 0..rows
    /\ selected \in Keys \cup {None}
    /\ selected # None => shown # None /\ target # 0 /\ Clicked(lists[shown])

(* The lists' own operators on positions are those of Positions.            *)
LEMMA SamePositions ==
    ASSUME NEW l, NEW S
    PROVE  Lists!Kept(l, S) = Kept(l, S) /\ \A n : Lists!Nth(S, n) = Nth(S, n)
  BY DEF Lists!Kept, Lists!Nth, Lists!Cardinality, Kept, Nth, Cardinality

LEMMA SameCardinality ==
    ASSUME NEW S
    PROVE  Lists!Cardinality(S) = Cardinality(S)
  BY DEF Lists!Cardinality, Cardinality

LEMMA InList ==
    ASSUME NEW l \in Seq(RowSet)
    PROVE  /\ DOMAIN l = 1..Len(l) /\ Len(l) \in Nat
           /\ \A i \in DOMAIN l : /\ l[i] \in RowSet /\ l[i].no \in Nat /\ l[i].name \in Keys
                                  /\ l[i].body \in Bodies
                                  /\ l[i] = [no |-> l[i].no, name |-> l[i].name, body |-> l[i].body]
  <1>1. DOMAIN l = 1..Len(l) /\ Len(l) \in Nat /\ \A i \in DOMAIN l : l[i] \in RowSet
    OBVIOUS
  <1>2. \A r \in RowSet : /\ r.no \in Nat /\ r.name \in Keys /\ r.body \in Bodies
                          /\ r = [no |-> r.no, name |-> r.name, body |-> r.body]
    BY DEF RowSet
  <1> QED
    BY <1>1, <1>2

LEMMA FirstFinds ==
    ASSUME NEW l \in Seq(RowSet), NEW key, Lists!Named(l, key) # {}
    PROVE  Lists!First(l, key) \in DOMAIN l /\ l[Lists!First(l, key)].name = key
  <1>1. Lists!Named(l, key) \in SUBSET (1..Len(l)) /\ Len(l) \in Nat
    BY InList DEF Lists!Named
  <1>2. Lists!First(l, key) \in Lists!Named(l, key)
    BY <1>1, FirstOf, SamePositions DEF Lists!First
  <1> QED
    BY <1>2 DEF Lists!Named

(* updateHelmApp gives the row it finds another content, but not another    *)
(* number.                                                                  *)
LEMMA UpdateIs ==
    ASSUME NEW l \in Seq(RowSet), NEW key, NEW f, f.name \in Keys, f.body \in Bodies
    PROVE  /\ Lists!updateHelmApp(l, key, f) \in Seq(RowSet)
           /\ Len(Lists!updateHelmApp(l, key, f)) = Len(l)
           /\ \A i \in DOMAIN l : Lists!updateHelmApp(l, key, f)[i].no = l[i].no
           /\ \A i \in DOMAIN l :
                 Lists!updateHelmApp(l, key, f)[i] =
                     IF Lists!Named(l, key) # {} /\ i = Lists!First(l, key) THEN Lists!Row(l[i].no, f) ELSE l[i]
  <1>1. CASE Lists!Named(l, key) = {}
    BY <1>1 DEF Lists!updateHelmApp
  <1>2. CASE Lists!Named(l, key) # {}
    <2> DEFINE p == Lists!First(l, key)
               r == Lists!Row(l[p].no, f)
               m == Lists!updateHelmApp(l, key, f)
    <2>1. DOMAIN l = 1..Len(l) /\ Len(l) \in Nat /\ p \in 1..Len(l)
      BY <1>2, InList, FirstFinds
    <2>2. r \in RowSet /\ r.no = l[p].no
      BY <2>1, InList DEF Lists!Row, RowSet
    <2>3. m = [l EXCEPT ![p] = r]
      BY <1>2, <2>1 DEF Lists!updateHelmApp
    <2> HIDE DEF m, r, p
    <2>4. m \in Seq(RowSet) /\ Len(m) = Len(l) /\ \A i \in 1..Len(l) : m[i] = IF i = p THEN r ELSE l[i]
      BY <2>1, <2>2, <2>3, ExceptSeq
    <2>5. \A i \in DOMAIN l : m[i].no = l[i].no
      BY <2>1, <2>2, <2>4
    <2>6. \A i \in DOMAIN l : m[i] = IF Lists!Named(l, key) # {} /\ i = p THEN Lists!Row(l[i].no, f) ELSE l[i]
      BY <1>2, <2>1, <2>4 DEF r
    <2> QED
      BY <2>4, <2>5, <2>6 DEF m, p
  <1> QED
    BY <1>1, <1>2

(* deleteHelmApp keeps every row that is called otherwise, and no other one. *)
LEMMA DeleteIs ==
    ASSUME NEW l \in Seq(RowSet), NEW key
    PROVE  /\ Lists!deleteHelmApp(l, key) \in Seq(RowSet)
           /\ Len(Lists!deleteHelmApp(l, key)) <= Len(l)
           /\ \A j \in DOMAIN Lists!deleteHelmApp(l, key) :
                 \E i \in DOMAIN l : l[i] = Lists!deleteHelmApp(l, key)[j] /\ l[i].name # key
           /\ \A i \in DOMAIN l : l[i].name # key =>
                 \E j \in DOMAIN Lists!deleteHelmApp(l, key) : Lists!deleteHelmApp(l, key)[j] = l[i]
           /\ NumbersDiffer(l) => NumbersDiffer(Lists!deleteHelmApp(l, key))
  <1> DEFINE S == DOMAIN l \ Lists!Named(l, key)
             m == Kept(l, S)
  <1>1. S \in SUBSET DOMAIN l /\ \A i : i \in S <=> i \in DOMAIN l /\ l[i].name # key
    BY DEF Lists!Named
  <1>2. Lists!deleteHelmApp(l, key) = m
    BY SamePositions DEF Lists!deleteHelmApp
  <1> HIDE DEF S
  <1>3. /\ m \in Seq(RowSet) /\ Len(m) <= Len(l)
        /\ \A n \in DOMAIN m : Nth(S, n) \in S /\ m[n] = l[Nth(S, n)]
        /\ \A a, b \in DOMAIN m : Nth(S, a) = Nth(S, b) => a = b
        /\ \A i \in S : \E n \in DOMAIN m : Nth(S, n) = i
    BY <1>1, KeptIs
  <1> HIDE DEF m
  <1>4. \A j \in DOMAIN m : \E i \in DOMAIN l : l[i] = m[j] /\ l[i].name # key
    BY <1>1, <1>3
  <1>5. \A i \in DOMAIN l : l[i].name # key => \E j \in DOMAIN m : m[j] = l[i]
    BY <1>1, <1>3
  <1>6. NumbersDiffer(l) => NumbersDiffer(m)
    BY <1>1, <1>3 DEF NumbersDiffer
  <1> QED
    BY <1>2, <1>3, <1>4, <1>5, <1>6

LEMMA AddIs ==
    ASSUME NEW l \in Seq(RowSet), NEW r \in RowSet
    PROVE  /\ Lists!addHelmApp(l, r) \in Seq(RowSet) /\ Len(Lists!addHelmApp(l, r)) = Len(l) + 1
           /\ \A i \in DOMAIN l : i \in DOMAIN Lists!addHelmApp(l, r) /\ Lists!addHelmApp(l, r)[i] = l[i]
           /\ Lists!addHelmApp(l, r)[Len(l) + 1] = r
           /\ \A j \in DOMAIN Lists!addHelmApp(l, r) : j \in DOMAIN l \/ j = Len(l) + 1
  <1> DEFINE m == Append(l, r)
  <1>1. /\ m \in Seq(RowSet) /\ Len(m) = Len(l) + 1 /\ DOMAIN m = 1..(Len(l) + 1)
        /\ DOMAIN l = 1..Len(l) /\ Len(l) \in Nat
        /\ \A i \in 1..Len(l) : m[i] = l[i]
        /\ m[Len(l) + 1] = r
    OBVIOUS
  <1>2. Lists!addHelmApp(l, r) = m
    BY DEF Lists!addHelmApp
  <1> HIDE DEF m
  <1> QED
    BY <1>1, <1>2
-----------------------------------------------------------------------------
LEMMA ListsInit == Lists!Init => ListsInv
  <1> SUFFICES ASSUME Lists!Init PROVE ListsInv
    OBVIOUS
  <1>1. <<>> \in Seq(RowSet) /\ Len(<<>>) = 0 /\ DOMAIN <<>> = {}
    OBVIOUS
  <1>2. lists = [k \in Lists!Kinds |-> <<>>] /\ shown = None /\ selected = None /\ form = Lists!Blank
        /\ generating = TRUE /\ rows = 0 /\ target = 0
    BY DEF Lists!Init
  <1>3. Lists!Blank \in Lists!Forms
    BY DEF Lists!Blank, Lists!Forms
  <1>4. \A k \in Lists!Kinds : lists[k] = <<>>
    BY <1>2
  <1>5. lists \in [Lists!Kinds -> Seq(RowSet)]
    BY <1>1, <1>2
  <1>6. \A k \in Lists!Kinds : Len(lists[k]) <= Rows /\ DOMAIN lists[k] = {}
    BY <1>1, <1>4, ListsAssumption
  <1> QED
    BY <1>2, <1>3, <1>5, <1>6, ListsAssumption DEF ListsInv, NumbersDiffer

(* A list of a kind is replaced and the dialog closed.                      *)
LEMMA ListReplaced ==
    ASSUME ListsInv, NEW k \in Lists!Kinds, NEW m \in Seq(RowSet), lists' = [lists EXCEPT ![k] = m],
           Len(m) <= Rows, NumbersDiffer(m), \A i \in DOMAIN m : m[i].no \in 1..rows',
           rows' \in rows..Made, Lists!Closed, UNCHANGED generating
    PROVE  ListsInv'
  <1>1. rows \in Nat /\ rows' \in Nat /\ rows <= rows'
    BY ListsAssumption DEF ListsInv
  <1>2. /\ shown' \in Lists!Kinds \cup {None} /\ form' \in Lists!Forms /\ generating' \in BOOLEAN
        /\ rows' \in 0..Made /\ target' \in 0..rows' /\ selected' \in Keys \cup {None} /\ selected' = None
    BY <1>1, ListsAssumption DEF Lists!Closed, Lists!Blank, Lists!Forms, ListsInv
  <1>3. \A x \in Lists!Kinds : lists'[x] = IF x = k THEN m ELSE lists[x]
    BY DEF ListsInv
  <1>4. lists' \in [Lists!Kinds -> Seq(RowSet)]
    BY DEF ListsInv
  <1>5. ASSUME NEW x \in Lists!Kinds
        PROVE  /\ Len(lists'[x]) <= Rows
               /\ \A i \in DOMAIN lists'[x] : lists'[x][i].no \in 1..rows'
               /\ NumbersDiffer(lists'[x])
    <2>1. CASE x = k
      BY <1>3, <2>1
    <2>2. CASE x # k
      <3>1. \A n \in 1..rows : n \in 1..rows'
        BY <1>1
      <3> QED
        BY <1>3, <2>2, <3>1 DEF ListsInv
    <2> QED
      BY <2>1, <2>2
  <1> QED
    BY <1>2, <1>4, <1>5 DEF ListsInv, NumbersDiffer

LEMMA SaveKeeps ==
    ASSUME ListsInv, NEW k \in Lists!Kinds, Lists!Save(k)
    PROVE  ListsInv'
  <1> DEFINE l == lists[k]
  <1>1. /\ l \in Seq(RowSet) /\ Len(l) <= Rows /\ NumbersDiffer(l) /\ rows \in Nat /\ rows <= Made
        /\ \A i \in DOMAIN l : l[i].no \in 1..rows
    BY ListsAssumption DEF ListsInv
  <1>2. form.name \in Keys /\ form.body \in Bodies /\ Lists!Closed /\ generating' = generating
    BY DEF Lists!Save, Lists!Valid, ListsInv, Lists!Forms
  <1>3. CASE selected # None
    <2> DEFINE m == Lists!updateHelmApp(l, selected, form)
    <2>1. lists' = [lists EXCEPT ![k] = m] /\ rows' = rows
      BY <1>3 DEF Lists!Save, ListsInv
    <2>2. m \in Seq(RowSet) /\ Len(m) = Len(l) /\ \A i \in DOMAIN l : m[i].no = l[i].no
      BY <1>1, <1>2, UpdateIs
    <2> HIDE DEF m
    <2>3. DOMAIN m = DOMAIN l
      BY <1>1, <2>2, InList
    <2>4. NumbersDiffer(m) /\ \A i \in DOMAIN m : m[i].no \in 1..rows'
      BY <1>1, <2>1, <2>2, <2>3 DEF NumbersDiffer
    <2>5. rows' \in rows..Made /\ Len(m) <= Rows
      BY <1>1, <2>1, <2>2, ListsAssumption
    <2> QED
      BY <1>2, <2>1, <2>2, <2>4, <2>5, ListReplaced
  <1>4. CASE selected = None
    <2> DEFINE r == Lists!Row(rows + 1, form)
               m == Lists!addHelmApp(l, r)
    <2>1. lists' = [lists EXCEPT ![k] = m] /\ rows' = rows + 1 /\ Len(l) < Rows /\ rows < Made
      BY <1>4 DEF Lists!Save, ListsInv
    <2>2. r \in RowSet /\ r.no = rows + 1
      BY <1>1, <1>2 DEF Lists!Row, RowSet
    <2> HIDE DEF r
    <2>3. /\ m \in Seq(RowSet) /\ Len(m) = Len(l) + 1 /\ \A i \in DOMAIN l : m[i] = l[i]
          /\ m[Len(l) + 1] = r
          /\ \A j \in DOMAIN m : j \in DOMAIN l \/ j = Len(l) + 1
      BY <1>1, <2>2, AddIs
    <2> HIDE DEF m
    <2>4. \A i \in DOMAIN l : m[i].no # rows + 1
      BY <1>1, <2>3
    <2>5. NumbersDiffer(m)
      BY <1>1, <2>2, <2>3, <2>4 DEF NumbersDiffer
    <2>6. \A i \in DOMAIN m : m[i].no \in 1..rows'
      BY <1>1, <2>1, <2>2, <2>3
    <2>7. rows' \in rows..Made /\ Len(m) <= Rows
      BY <1>1, <2>1, <2>3, ListsAssumption, InList
    <2> QED
      BY <1>2, <2>1, <2>3, <2>5, <2>6, <2>7, ListReplaced
  <1> QED
    BY <1>3, <1>4

LEMMA DeleteKeeps ==
    ASSUME ListsInv, NEW k \in Lists!Kinds, Lists!onDelete(k)
    PROVE  ListsInv'
  <1> DEFINE l == lists[k]
             m == Lists!deleteHelmApp(l, selected)
  <1>1. /\ l \in Seq(RowSet) /\ Len(l) <= Rows /\ NumbersDiffer(l) /\ rows \in Nat /\ rows <= Made
        /\ \A i \in DOMAIN l : l[i].no \in 1..rows
    BY ListsAssumption DEF ListsInv
  <1>2. lists' = [lists EXCEPT ![k] = m] /\ rows' = rows /\ Lists!Closed /\ generating' = generating
    BY DEF Lists!onDelete, ListsInv
  <1>3. /\ m \in Seq(RowSet) /\ Len(m) <= Len(l) /\ NumbersDiffer(m)
        /\ \A j \in DOMAIN m : \E i \in DOMAIN l : l[i] = m[j]
    BY <1>1, DeleteIs
  <1> HIDE DEF m
  <1>4. \A i \in DOMAIN m : m[i].no \in 1..rows'
    BY <1>1, <1>2, <1>3
  <1>5. rows' \in rows..Made /\ Len(m) <= Rows
    BY <1>1, <1>2, <1>3, ListsAssumption, InList
  <1> QED
    BY <1>2, <1>3, <1>4, <1>5, ListReplaced

LEMMA OpenRowKeeps ==
    ASSUME ListsInv, NEW k \in Lists!Kinds, Lists!OpenRow(k)
    PROVE  ListsInv'
  <1>1. PICK i \in DOMAIN lists[k] :
           LET row == lists[k][Lists!First(lists[k], lists[k][i].name)]
           IN /\ selected' = row.name
              /\ form' = [name |-> row.name, body |-> row.body]
              /\ target' = lists[k][i].no
    BY DEF Lists!OpenRow
  <1> DEFINE row == lists[k][Lists!First(lists[k], lists[k][i].name)]
  <1>2. lists[k] \in Seq(RowSet) /\ shown' = k /\ UNCHANGED <<lists, generating, rows>>
    BY DEF Lists!OpenRow, ListsInv
  <1>3. lists[k][i].name \in Keys /\ i \in Lists!Named(lists[k], lists[k][i].name)
    BY <1>2, InList DEF Lists!Named
  <1>4. row.name = lists[k][i].name /\ row.body \in Bodies
    BY <1>2, <1>3, InList, FirstFinds
  <1>5. /\ selected' = lists[k][i].name /\ selected' \in Keys /\ form' \in Lists!Forms
        /\ target' = lists[k][i].no /\ target' \in 1..rows
    BY <1>1, <1>3, <1>4 DEF ListsInv, Lists!Forms
  <1>6. shown' # None /\ target' # 0 /\ target' \in 0..rows'
    BY <1>2, <1>5, ListsAssumption DEF ListsInv
  <1>7. Clicked(lists[shown])'
    BY <1>2, <1>5 DEF Clicked
  <1> QED
    BY <1>2, <1>5, <1>6, <1>7 DEF ListsInv

LEMMA ListsStep == ListsInv /\ [Lists!Next]_(Lists!vars) => ListsInv'
  <1> SUFFICES ASSUME ListsInv, [Lists!Next]_(Lists!vars) PROVE ListsInv'
    OBVIOUS
  <1>1. CASE Lists!generateDefaultCluster
    <2>1. <<>> \in Seq(RowSet) /\ Len(<<>>) = 0 /\ DOMAIN <<>> = {}
      OBVIOUS
    <2>2. lists' = [k \in Lists!Kinds |-> <<>>] /\ generating' = FALSE
          /\ UNCHANGED <<shown, selected, form, rows, target>>
      BY <1>1 DEF Lists!generateDefaultCluster
    <2>3. \A k \in Lists!Kinds : lists'[k] = <<>> /\ Len(lists'[k]) <= Rows /\ DOMAIN lists'[k] = {}
      BY <2>1, <2>2, ListsAssumption
    <2>4. lists' \in [Lists!Kinds -> Seq(RowSet)]
      BY <2>1, <2>2
    <2>5. selected' # None => shown' # None /\ target' # 0 /\ Clicked(lists[shown])'
      BY <2>2, <2>3 DEF ListsInv, Clicked
    <2> QED
      BY <2>2, <2>3, <2>4, <2>5 DEF ListsInv, NumbersDiffer
  <1>2. ASSUME NEW k \in Lists!Kinds, Lists!OpenNew(k) PROVE ListsInv'
    BY <1>2 DEF Lists!OpenNew, ListsInv, Lists!Blank, Lists!Forms, NumbersDiffer
  <1>3. CASE Lists!Type
    BY <1>3 DEF Lists!Type, ListsInv, NumbersDiffer, Clicked
  <1>4. CASE Lists!Close
    BY <1>4 DEF Lists!Close, Lists!Closed, ListsInv, Lists!Blank, Lists!Forms, NumbersDiffer
  <1>5. CASE UNCHANGED Lists!vars
    BY <1>5 DEF Lists!vars, ListsInv, NumbersDiffer, Clicked
  <1>6. "helmApps" \in Lists!Kinds /\ "clusterResources" \in Lists!Kinds
    BY DEF Lists!Kinds
  <1> QED
    BY <1>1, <1>2, <1>3, <1>4, <1>5, <1>6, OpenRowKeeps, SaveKeeps, DeleteKeeps
    DEF Lists!Next, Lists!SaveApp, Lists!SaveWorkload, Lists!DeleteApp, Lists!DeleteWorkload

LEMMA NumbersSize ==
    ASSUME NEW l \in Seq(RowSet), NumbersDiffer(l)
    PROVE  Lists!Cardinality(Lists!Numbers(l)) = Len(l)
  <1>1. DOMAIN l = 1..Len(l) /\ Len(l) \in Nat
    BY InList
  <1>2. PICK f \in [1..Len(l) -> Nat] : \A i \in 1..Len(l) : f[i] = l[i].no
    <2> DEFINE g == [i \in 1..Len(l) |-> l[i].no]
    <2>1. g \in [1..Len(l) -> Nat] /\ \A i \in 1..Len(l) : g[i] = l[i].no
      BY <1>1, InList
    <2> HIDE DEF g
    <2> QED
      BY <2>1
  <1>3. \A x : x \in Lists!Numbers(l) <=> \E i \in 1..Len(l) : f[i] = x
    BY <1>1, <1>2 DEF Lists!Numbers
  <1>4. \A i, j \in 1..Len(l) : f[i] = f[j] => i = j
    BY <1>1, <1>2 DEF NumbersDiffer
  <1>5. Len(l) \in Nat
    BY <1>1
  <1> QED
    BY <1>2, <1>3, <1>4, <1>5, DistinctSize, SameCardinality

LEMMA ListsType == ListsInv => Lists!TypeOK
  <1> SUFFICES ASSUME ListsInv PROVE Lists!TypeOK
    OBVIOUS
  <1>1. ASSUME NEW k \in Lists!Kinds
        PROVE  /\ Len(lists[k]) <= Rows
               /\ \A i \in DOMAIN lists[k] : /\ lists[k][i].no \in 1..rows
                                             /\ lists[k][i].name \in Keys
                                             /\ lists[k][i].body \in Bodies
               /\ Lists!Cardinality(Lists!Numbers(lists[k])) = Len(lists[k])
    <2>1. lists[k] \in Seq(RowSet) /\ NumbersDiffer(lists[k])
      BY DEF ListsInv
    <2> QED
      BY <2>1, InList, NumbersSize DEF ListsInv
  <1> QED
    BY <1>1 DEF ListsInv, Lists!TypeOK

(* A row is changed or deleted only if it was clicked, when names are unique. *)
LEMMA TouchesClicked ==
    ASSUME ListsInv, NEW k \in Lists!Kinds, Lists!Save(k) \/ Lists!onDelete(k), NEW x \in Lists!Kinds, ~Lists!Ambiguous(lists[x]),
           NEW n, Lists!Changed(lists[x], lists'[x], n)
    PROVE  n = target
  <1> DEFINE l == lists[x]
             m == lists'[x]
  <1>1. l \in Seq(RowSet) /\ NumbersDiffer(l)
    BY DEF ListsInv
  <1>2. PICK i \in DOMAIN l : l[i].no = n /\ \A j \in DOMAIN m : m[j] # l[i]
    <2>1. \E i \in DOMAIN l : l[i].no = n
      BY DEF Lists!Changed
    <2> QED
      BY <2>1 DEF Lists!Changed
  <1>3. x = k
    <2>1. CASE x # k
      <3>1. m = l
        BY <2>1 DEF Lists!Save, Lists!onDelete, ListsInv
      <3> QED
        BY <1>2, <3>1
    <2> QED
      BY <2>1
  <1>4. shown = k
    BY DEF Lists!Save, Lists!onDelete
  <1>5. \A a, b \in DOMAIN l : l[a].name = l[b].name => a = b
    BY DEF Lists!Ambiguous
  <1>6. selected # None => \E c \in DOMAIN l : l[c].no = target /\ l[c].name = selected
    <2>1. l # <<>>
      BY <1>2
    <2> QED
      BY <1>3, <1>4, <2>1 DEF ListsInv, Clicked
  <1>7. ASSUME selected # None, l[i].name = selected
        PROVE  n = target
    BY <1>2, <1>5, <1>6, <1>7
  <1>8. CASE Lists!Save(k) /\ selected # None
    <2> DEFINE u == Lists!updateHelmApp(l, selected, form)
    <2>1. m = u
      BY <1>3, <1>8 DEF Lists!Save, ListsInv
    <2>2. form.name \in Keys /\ form.body \in Bodies
      BY <1>8 DEF Lists!Save, Lists!Valid, ListsInv, Lists!Forms
    <2>3. /\ u \in Seq(RowSet) /\ Len(u) = Len(l)
          /\ u[i] = IF Lists!Named(l, selected) # {} /\ i = Lists!First(l, selected) THEN Lists!Row(l[i].no, form) ELSE l[i]
      BY <1>1, <2>2, UpdateIs
    <2>4. i \in DOMAIN u
      BY <1>1, <2>3, InList
    <2> HIDE DEF u
    <2>5. Lists!Named(l, selected) # {} /\ i = Lists!First(l, selected)
      BY <1>2, <2>1, <2>3, <2>4
    <2>6. l[i].name = selected
      BY <1>1, <2>5, FirstFinds
    <2> QED
      BY <1>7, <1>8, <2>6
  <1>9. CASE Lists!Save(k) /\ selected = None
    <2> DEFINE r == Lists!Row(rows + 1, form)
               a == Lists!addHelmApp(l, r)
    <2>1. m = a
      BY <1>3, <1>9 DEF Lists!Save, ListsInv
    <2>2. r \in RowSet
      BY <1>9, ListsAssumption DEF Lists!Save, Lists!Valid, ListsInv, Lists!Forms, Lists!Row, RowSet
    <2>3. i \in DOMAIN a /\ a[i] = l[i]
      <3> HIDE DEF r
      <3> QED
        BY <1>1, <2>2, AddIs
    <2> QED
      BY <1>2, <2>1, <2>3
  <1>10. CASE Lists!onDelete(k)
    <2> DEFINE d == Lists!deleteHelmApp(l, selected)
    <2>1. m = d /\ selected # None
      BY <1>3, <1>10 DEF Lists!onDelete, ListsInv
    <2>2. \A p \in DOMAIN l : l[p].name # selected => \E j \in DOMAIN d : d[j] = l[p]
      <3> HIDE DEF l
      <3> QED
        BY <1>1, DeleteIs
    <2> HIDE DEF d
    <2> QED
      BY <1>2, <1>7, <2>1, <2>2
  <1> QED
    BY <1>8, <1>9, <1>10

LEMMA OnlyTheClickedStep ==
    ASSUME ListsInv, Lists!Next, NEW k \in Lists!Kinds, ~Lists!Ambiguous(lists[k]), NEW n,
           Lists!Changed(lists[k], lists'[k], n)
    PROVE  n = target \/ (generating /\ ~generating')
  <1>1. CASE Lists!generateDefaultCluster
    BY <1>1 DEF Lists!generateDefaultCluster
  <1>2. CASE lists' = lists
    BY <1>2 DEF Lists!Changed
  <1>3. "helmApps" \in Lists!Kinds /\ "clusterResources" \in Lists!Kinds
    BY DEF Lists!Kinds
  <1>4. CASE Lists!SaveApp \/ Lists!SaveWorkload \/ Lists!DeleteApp \/ Lists!DeleteWorkload
    BY <1>3, <1>4, TouchesClicked DEF Lists!SaveApp, Lists!SaveWorkload, Lists!DeleteApp, Lists!DeleteWorkload
  <1> QED
    BY <1>1, <1>2, <1>4 DEF Lists!Next, Lists!OpenNew, Lists!OpenRow, Lists!Type, Lists!Close

LEMMA SavedStep ==
    ASSUME ListsInv, NEW k \in Lists!Kinds, Lists!Save(k)
    PROVE  \/ \E i \in DOMAIN lists'[k] : lists'[k][i].name = form.name /\ lists'[k][i].body = form.body
           \/ selected # None /\ target \notin Lists!Numbers(lists[k])
  <1> DEFINE l == lists[k]
             m == lists'[k]
  <1>1. l \in Seq(RowSet) /\ NumbersDiffer(l) /\ shown = k
    BY DEF ListsInv, Lists!Save
  <1>2. form.name \in Keys /\ form.body \in Bodies
    BY DEF Lists!Save, Lists!Valid, ListsInv, Lists!Forms
  <1>3. \A n : Lists!Row(n, form).name = form.name /\ Lists!Row(n, form).body = form.body
    BY DEF Lists!Row
  <1>4. CASE selected # None
    <2> DEFINE u == Lists!updateHelmApp(l, selected, form)
               p == Lists!First(l, selected)
    <2>1. m = u
      BY <1>4 DEF Lists!Save, ListsInv
    <2>2. /\ u \in Seq(RowSet) /\ Len(u) = Len(l)
          /\ \A i \in DOMAIN l :
                u[i] = IF Lists!Named(l, selected) # {} /\ i = p THEN Lists!Row(l[i].no, form) ELSE l[i]
      BY <1>1, <1>2, UpdateIs
    <2>3. CASE Lists!Named(l, selected) # {}
      <3>1. p \in DOMAIN l
        BY <1>1, <2>3, FirstFinds
      <3>2. p \in DOMAIN u
        BY <1>1, <2>2, <3>1, InList
      <3> HIDE DEF u, p
      <3> QED
        BY <1>3, <2>1, <2>2, <2>3, <3>1, <3>2
    <2>4. CASE Lists!Named(l, selected) = {}
      <3>1. \A i \in DOMAIN l : l[i].name # selected
        BY <2>4 DEF Lists!Named
      <3>2. l = <<>>
        BY <1>1, <1>4, <3>1 DEF ListsInv, Clicked
      <3>3. Lists!Numbers(l) = {}
        BY <3>2 DEF Lists!Numbers
      <3> QED
        BY <1>4, <3>3
    <2> QED
      BY <2>3, <2>4
  <1>5. CASE selected = None
    <2> DEFINE r == Lists!Row(rows + 1, form)
               a == Lists!addHelmApp(l, r)
    <2>1. m = a
      BY <1>5 DEF Lists!Save, ListsInv
    <2>2. r \in RowSet
      BY <1>2, ListsAssumption DEF ListsInv, Lists!Row, RowSet
    <2>3. a \in Seq(RowSet) /\ Len(a) = Len(l) + 1 /\ a[Len(l) + 1] = r
      <3> HIDE DEF r
      <3> QED
        BY <1>1, <2>2, AddIs
    <2> HIDE DEF a
    <2>4. Len(l) + 1 \in DOMAIN a
      BY <1>1, <2>3, InList
    <2> QED
      BY <1>3, <2>1, <2>3, <2>4
  <1> QED
    BY <1>4, <1>5

LEMMA DeletedStep ==
    ASSUME ListsInv, NEW k \in Lists!Kinds, Lists!onDelete(k)
    PROVE  target \notin Lists!Numbers(lists'[k])
  <1> DEFINE l == lists[k]
             d == Lists!deleteHelmApp(l, selected)
  <1>1. l \in Seq(RowSet) /\ NumbersDiffer(l) /\ shown = k /\ lists'[k] = d /\ selected # None
    BY DEF ListsInv, Lists!onDelete
  <1>2. l # <<>> => \E c \in DOMAIN l : l[c].no = target /\ l[c].name = selected
    BY <1>1 DEF ListsInv, Clicked
  <1>3. \A j \in DOMAIN d : \E i \in DOMAIN l : l[i] = d[j] /\ l[i].name # selected
    BY <1>1, DeleteIs
  <1> HIDE DEF d
  <1>4. ASSUME NEW j \in DOMAIN d, d[j].no = target
        PROVE  FALSE
    <2>1. PICK i \in DOMAIN l : l[i] = d[j] /\ l[i].name # selected
      BY <1>3
    <2>2. l # <<>>
      BY <2>1
    <2> QED
      BY <1>1, <1>2, <1>4, <2>1, <2>2 DEF NumbersDiffer
  <1> QED
    BY <1>1, <1>4 DEF Lists!Numbers
-----------------------------------------------------------------------------
(* Store *)

StoreIInv == PlanInv /\ ListsInv

(* The two parts of the store share nothing.                                *)
LEMMA StoreStep == StoreIInv /\ [StoreNext]_<<vars, listVars, edited>> => StoreIInv'
  <1> SUFFICES ASSUME StoreIInv, [StoreNext]_<<vars, listVars, edited>> PROVE StoreIInv'
    OBVIOUS
  <1>1. [Next]_vars
    BY DEF StoreNext
  <1>2. [Lists!Next]_(Lists!vars)
    BY DEF StoreNext, listVars, Lists!vars
  <1> QED
    BY <1>1, <1>2, PlanStep, ListsStep DEF StoreIInv

LEMMA StoreInvariant == StoreSpec => []StoreIInv
  <1>1. StoreInit => StoreIInv
    BY InitPlan, ListsInit DEF StoreInit, StoreIInv
  <1> QED
    BY <1>1, StoreStep, PTL DEF StoreSpec

(* Whatever is added, edited and deleted in the wizard, with as many nodes,  *)
(* apps and workloads as one likes: the ids and names of nodes are distinct  *)
(* until a sixth master is made, the rows of the two lists have the fields   *)
(* of a form and numbers of their own, and a closed dialog remembers no row. *)
THEOREM StoreIsSound == StoreSpec => []StoreInv
  <1>1. StoreIInv => StoreInv
    BY PlanDistinct, ListsType DEF StoreIInv, StoreInv, PlanInv
  <1> QED
    BY <1>1, StoreInvariant, PTL

(* Saving and deleting touch the row that was clicked and no other, as long  *)
(* as no two rows of the list have one name, and what is saved is in the     *)
(* list, unless the proposal of the server has replaced it.                  *)
THEOREM StoreSavesTheClicked == StoreSpec => SavesTheClicked
  <1> DEFINE Only == \A k \in Lists!Kinds : ~Lists!Ambiguous(lists[k]) =>
                        \A n \in Lists!Numbers(lists[k]) :
                           Lists!Changed(lists[k], lists'[k], n) =>
                               n = target \/ (generating /\ ~generating')
             There == \A k \in Lists!Kinds : (Lists!SaveApp \/ Lists!SaveWorkload) /\ shown = k =>
                         \/ \E i \in DOMAIN lists'[k] : /\ lists'[k][i].name = form.name
                                                        /\ lists'[k][i].body = form.body
                         \/ selected # None /\ target \notin Lists!Numbers(lists[k])
  <1>1. StoreIInv /\ [StoreNext]_<<vars, listVars, edited>> => [Only]_(Lists!vars)
    <2> SUFFICES ASSUME StoreIInv, [StoreNext]_<<vars, listVars, edited>>, ~UNCHANGED Lists!vars
                 PROVE  Only
      OBVIOUS
    <2>1. Lists!Next
      BY DEF StoreNext, listVars, Lists!vars
    <2> QED
      BY <2>1, OnlyTheClickedStep DEF StoreIInv
  <1>2. StoreIInv /\ [StoreNext]_<<vars, listVars, edited>> => [There]_(Lists!vars)
    <2> SUFFICES ASSUME StoreIInv, NEW k \in Lists!Kinds, Lists!SaveApp \/ Lists!SaveWorkload, shown = k
                 PROVE  \/ \E i \in DOMAIN lists'[k] : /\ lists'[k][i].name = form.name
                                                       /\ lists'[k][i].body = form.body
                        \/ selected # None /\ target \notin Lists!Numbers(lists[k])
      OBVIOUS
    <2>1. Lists!Save(k)
      BY DEF Lists!SaveApp, Lists!SaveWorkload, Lists!Save
    <2> QED
      BY <2>1, SavedStep DEF StoreIInv
  <1>3. [][Only]_(Lists!vars) /\ [][There]_(Lists!vars) => SavesTheClicked
    BY DEF SavesTheClicked, Lists!OnlyTheClicked, Lists!SavedIsThere
  <1> HIDE DEF Only, There
  <1> QED
    BY <1>1, <1>2, <1>3, StoreInvariant, PTL DEF StoreSpec

(* A row that is deleted is gone, also when another row has its name.        *)
THEOREM StoreDeletes == StoreSpec => DeletedIsGone
  <1> DEFINE Gone == \A k \in Lists!Kinds : (Lists!DeleteApp \/ Lists!DeleteWorkload) /\ shown = k =>
                        target \notin Lists!Numbers(lists'[k])
  <1>1. StoreIInv /\ [StoreNext]_<<vars, listVars, edited>> => [Gone]_(Lists!vars)
    <2> SUFFICES ASSUME StoreIInv, NEW k \in Lists!Kinds, Lists!DeleteApp \/ Lists!DeleteWorkload, shown = k
                 PROVE  target \notin Lists!Numbers(lists'[k])
      OBVIOUS
    <2>1. Lists!onDelete(k)
      BY DEF Lists!DeleteApp, Lists!DeleteWorkload, Lists!onDelete
    <2> QED
      BY <2>1, DeletedStep DEF StoreIInv
  <1>2. [][Gone]_(Lists!vars) => DeletedIsGone
    BY DEF DeletedIsGone, Lists!DeletedIsGone
  <1> HIDE DEF Gone
  <1> QED
    BY <1>1, <1>2, StoreInvariant, PTL DEF StoreSpec
=============================================================================
