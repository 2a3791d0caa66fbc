------------------------- MODULE ProvisioningProofs -------------------------
(***************************************************************************)
(* What the worker leaves behind, for any nodes, clusters and requests and *)
(* any number of kills.  The invariants look at what is left of the        *)
(* program that runs: a record is erased, or a node taken out of it, only  *)
(* behind the requests that delete the VMs (GoneInv); behind a join nothing*)
(* is left to be told to the nodes that are joined (HostsInv).             *)
(***************************************************************************)
EXTENDS Provisioning, SequenceTheorems, FiniteSetTheorems, TLAPS

Finds == {"findAll", "findPeers", "findNode", "findAgain", "findRest"}

Verbs == Finds \cup Requests \cup
    {"usedIds", "unused", "unlocked", "up", "reboot", "setHosts", "install", "ready", "join", "ssh",
     "drain", "remove", "unhost", "down", "again", "halt", "halted", "drop", "erase"}

Instruction == [do : Verbs, node : Nodes]
About(ds, ns) == [do : ds, node : ns]

Workers == [kind : Kinds, node : Nodes, copy : Seq(Nodes), used : SUBSET Nodes,
            todo : Seq(Instruction)]

Statuses == {"Pending", "Creating", "Sync", "Error", "Destroying"}
Events   == [kind : Kinds, node : Nodes]

TypeInv ==
    /\ vm \in [Nodes -> VM \cup {NoVM}]
    /\ members \subseteq Nodes
    /\ record = NoRecord \/ (record \in Seq(Nodes) /\ IsInjective(record))
    /\ status \in Statuses
    /\ queue \in Seq(Events)
    /\ worker = Idle \/ worker \in Workers
    /\ calls \in 0..Calls /\ crashes \in 0..Crashes
    /\ overlooked \subseteq Nodes /\ strangers \subseteq Nodes
    /\ demolished \in BOOLEAN /\ failed \in BOOLEAN

Busy == worker \in Workers

\* The instruction is still to come.
Ahead(p, d, n) == \E k \in 1..Len(p) : p[k] = Instr(d, n)
Lacks(p, ds)   == \A k \in 1..Len(p) : p[k].do \notin ds
-----------------------------------------------------------------------------
(* Which use case has which instructions, and about which nodes *)
Scope(w, i) ==
    /\ i.do \in {"create", "setHosts", "ready", "join"} =>
          w.kind \in {"create", "add"} /\ i.node \in ToSet(w.copy)
    /\ i.do \in {"create", "ready", "join"} /\ w.kind = "add" => i.node = w.node
    /\ i.do = "delete" => w.kind = "delete" \/ (w.kind = "deleteNode" /\ i.node = w.node)
    /\ i.do \in {"findAll", "erase"} => w.kind = "delete"
    /\ i.do \in {"findPeers"} => w.kind = "add" /\ i.node = w.node
    /\ i.do \in {"findNode", "findAgain", "findRest", "drop"} =>
          w.kind = "deleteNode" /\ i.node = w.node
    /\ i.do \in {"remove", "unhost"} => w.kind = "deleteNode"

\* A search and the erasure come last, no address is made known behind a join,
\* and no VM is deleted behind the removal of its node from the record.
Ordered(p) ==
    /\ \A k \in 1..Len(p) : p[k].do \in Finds \cup {"erase"} => k = Len(p)
    /\ \A j, k \in 1..Len(p) :
          j < k => /\ p[j].do \in {"ready", "join"} => p[k].do # "setHosts"
                   /\ p[j].do = "drop" => p[k].do # "delete"

Scoped(w) == {i \in Instruction : Scope(w, i)}

Shaped(w) ==
    /\ w.todo \in Seq(Scoped(w)) /\ Ordered(w.todo)
    /\ w.kind = "create" => HasMaster(w.copy, Foreign)
    /\ w.kind = "add" => w.node \in ToSet(w.copy)
    /\ w.kind = "deleteNode" /\ w.todo # <<>> => HasMaster(w.copy, w.node)

ShapeInv == Busy => Shaped(worker)

VmInv ==
    \A n \in Nodes :
        vm[n] # NoVM => /\ vm[n].state \in {"accepted", "locked"} => vm[n].task = "none"
                        /\ vm[n].task = "delete" => vm[n].state = "stopped"

RecordInv ==
    /\ KeepsMaster
    /\ Busy /\ worker.kind \in {"create", "add", "deleteNode"} => record # NoRecord
    /\ Busy /\ worker.kind \in {"create", "add"} => ToSet(worker.copy) \subseteq ToSet(record)
    /\ Busy /\ worker.kind = "deleteNode" /\ worker.todo # <<>> => HasMaster(record, worker.node)

BaseInv == TypeInv /\ ShapeInv /\ VmInv /\ RecordInv
-----------------------------------------------------------------------------
\* A VM that nobody has asked to be deleted, and that a deletion can see
Left(n) == Own(n) /\ vm[n].task # "delete" /\ n \notin overlooked

GoneInv ==
    /\ \A n \in Nodes : Left(n) => record # NoRecord /\ n \in ToSet(record)
    /\ Busy /\ worker.kind = "delete" /\ worker.todo # <<>> =>
          \A n \in Nodes : Left(n) => \/ Ahead(worker.todo, "delete", n)
                                      \/ ~Lacks(worker.todo, {"findAll"}) /\ n \in ToSet(worker.copy)
    /\ Busy /\ ~Lacks(worker.todo, {"drop"}) /\ Left(worker.node) =>
          Ahead(worker.todo, "delete", worker.node)

\* A VM that is there to stay
Settled(n) == Own(n) /\ vm[n].state \in {"stopped", "running"} /\ vm[n].task # "delete"

MemberInv ==
    ~demolished =>
        /\ \A n \in members : Settled(n)
        /\ Busy => worker.kind # "delete"
        /\ members # {} => record # NoRecord /\ members \subseteq ToSet(record)
        /\ Busy /\ worker.kind \in {"create", "add"} => members \subseteq ToSet(worker.copy)
        /\ Busy /\ worker.kind = "deleteNode" /\ worker.todo # <<>>
              /\ Lacks(worker.todo, {"findNode", "remove"}) => worker.node \notin members
        /\ Busy /\ worker.kind = "deleteNode" /\ ~Lacks(worker.todo, {"drop", "unhost", "delete"}) =>
              worker.node \notin members

\* It has the addresses of all nodes of the copy, or will get them.
Informed(n) ==
    \/ Settled(n) /\ ToSet(worker.copy) \subseteq vm[n].hosts
    \/ Ahead(worker.todo, "setHosts", n)

HostsInv ==
    ~demolished =>
        /\ MembersResolve
        /\ Busy /\ worker.kind = "create" => \A n \in ToSet(worker.copy) : Informed(n)
        /\ Busy /\ worker.kind = "add" /\ ~Lacks(worker.todo, {"join"}) =>
              \A n \in members \cup {worker.node} : Informed(n)

\* Nothing is asked of a stranger but behind a creation, which is refused.
Touches == (Requests \ {"create"}) \cup {"down", "halt", "again", "halted"}

Guarded(p, ns) ==
    \A k \in 1..Len(p) :
        p[k].do \in Touches /\ p[k].node \in ns => \E j \in 1..(k - 1) : p[j] = Instr("create", p[k].node)

StrangerInv ==
    /\ \A n \in strangers : vm[n] # NoVM /\ vm[n].owner = Foreign
    /\ Busy /\ worker.kind # "change" => Guarded(worker.todo, strangers)
-----------------------------------------------------------------------------
(* Sequences *)

(* Induction over the naturals, of a set: if some m were missing from T,   *)
(* stepping down would map what is missing up to m into less of it.        *)
LEMMA SetInduction ==
    ASSUME NEW T, 0 \in T, \A n \in Nat : n \in T => n + 1 \in T
    PROVE  Nat \subseteq T
  <1> SUFFICES ASSUME NEW m \in Nat, m \notin T
               PROVE  FALSE
    OBVIOUS
  <1> DEFINE U == (0..m) \ T
             f == [u \in U |-> u - 1]
  <1>1. \A u \in U : u - 1 \in U /\ u - 1 # m
    <2> SUFFICES ASSUME NEW u \in U
                 PROVE  u - 1 \in U /\ u - 1 # m
      OBVIOUS
    <2>1. u # 0 /\ u - 1 \in Nat
      OBVIOUS
    <2>2. u - 1 \notin T
      BY <2>1
    <2>3. QED
      BY <2>1, <2>2
  <1>2. f \in [U -> U \ {m}]
    BY <1>1
  <1>3. IsFiniteSet(U)
    <2>1. IsFiniteSet(0..m)
      BY FS_Interval
    <2> QED
      BY <2>1, FS_Difference
  <1>4. IsFiniteSet(U \ {m}) /\ Cardinality(U \ {m}) = Cardinality(U) - 1
    BY <1>3, FS_RemoveElement
  <1>5. Cardinality(U) \in Nat
    BY <1>3, FS_CardinalityType
  <1>6. \E x, y \in U : x # y /\ f[x] = f[y]
    <2> HIDE DEF f, U
    <2>1. Cardinality(U \ {m}) < Cardinality(U)
      BY <1>4, <1>5
    <2> QED
      BY <1>2, <1>3, <1>4, <2>1, FS_PigeonHole
  <1>7. QED
    BY <1>6

LEMMA OnlyIs ==
    ASSUME NEW A, NEW ns \in Seq(A), NEW S
    PROVE  \E f : /\ f = [k \in 0..Len(ns) |->
                            IF k = 0 THEN <<>>
                            ELSE IF ns[k] \in S THEN Append(f[k - 1], ns[k]) ELSE f[k - 1]]
                  /\ Only(ns, S) = f[Len(ns)]
  <1> DEFINE Def(g, k) == IF k = 0 THEN <<>>
                          ELSE IF ns[k] \in S THEN Append(g[k - 1], ns[k]) ELSE g[k - 1]
             T == {n \in Nat : \E g : g = [k \in 0..n |-> Def(g, k)]}
  <1>1. 0 \in T
    <2> DEFINE g == [k \in 0..0 |-> <<>>]
    <2>1. g = [k \in 0..0 |-> Def(g, k)]
      OBVIOUS
    <2>2. \E h : h = [k \in 0..0 |-> Def(h, k)]
      BY <2>1
    <2> QED
      BY <2>2
  <1>2. ASSUME NEW n \in Nat, n \in T PROVE n + 1 \in T
    <2>0. PICK g : g = [k \in 0..n |-> Def(g, k)]
      BY <1>2
    <2> DEFINE h == [k \in 0..(n + 1) |-> IF k = n + 1 THEN Def(g, k) ELSE g[k]]
    <2>1. \A k \in 0..n : h[k] = g[k]
      BY <2>0
    <2>2. \A k \in 0..(n + 1) : Def(h, k) = Def(g, k)
      <3> SUFFICES ASSUME NEW k \in 0..(n + 1) PROVE Def(h, k) = Def(g, k)
        OBVIOUS
      <3>1. CASE k = 0
        BY <3>1
      <3>2. CASE k # 0
        <4>1. k - 1 \in 0..n
          BY <3>2
        <4>2. h[k - 1] = g[k - 1]
          BY <4>1, <2>1
        <4> HIDE DEF h
        <4> QED
          BY <4>2
      <3> QED
        BY <3>1, <3>2
    <2>3. \A k \in 0..(n + 1) : h[k] = Def(g, k)
      <3> SUFFICES ASSUME NEW k \in 0..(n + 1) PROVE h[k] = Def(g, k)
        OBVIOUS
      <3>1. CASE k = n + 1
        BY <3>1
      <3>2. CASE k # n + 1
        <4>1. k \in 0..n
          BY <3>2
        <4>2. g[k] = Def(g, k)
          BY <4>1, <2>0
        <4> QED
          BY <4>1, <4>2, <2>1
      <3> QED
        BY <3>1, <3>2
    <2>4. DOMAIN h = 0..(n + 1) /\ h = [k \in 0..(n + 1) |-> h[k]]
      OBVIOUS
    <2>5. h = [k \in 0..(n + 1) |-> Def(h, k)]
      <3> HIDE DEF h, Def
      <3> QED
        BY <2>2, <2>3, <2>4
    <2>6. \E i : i = [k \in 0..(n + 1) |-> Def(i, k)]
      <3> HIDE DEF h, Def
      <3> QED
        BY <2>5
    <2> QED
      BY <2>6
  <1>3. Len(ns) \in T
    <2>1. 0 \in T /\ \A n \in Nat : n \in T => n + 1 \in T
      BY <1>1, <1>2
    <2> HIDE DEF T
    <2>2. Nat \subseteq T
      BY <2>1, SetInduction
    <2> QED
      BY <2>2
  <1>4. \E f : f = [k \in 0..Len(ns) |-> Def(f, k)]
    BY <1>3
  <1> DEFINE f == CHOOSE f : f = [k \in 0..Len(ns) |-> Def(f, k)]
  <1>5. f = [k \in 0..Len(ns) |-> Def(f, k)]
    BY <1>4
  <1>6. Only(ns, S) = f[Len(ns)]
    BY DEF Only
  <1> HIDE DEF f
  <1> QED
    BY <1>5, <1>6
LEMMA InToSet ==
    ASSUME NEW A, NEW s \in Seq(A)
    PROVE  /\ \A x : x \in ToSet(s) <=> \E i \in 1..Len(s) : s[i] = x
           /\ ToSet(s) \subseteq A
  BY DEF ToSet

LEMMA OnlyProperties ==
    ASSUME NEW A, NEW ns \in Seq(A), NEW S
    PROVE  /\ Only(ns, S) \in Seq(A)
           /\ ToSet(Only(ns, S)) = ToSet(ns) \cap S
           /\ IsInjective(ns) => IsInjective(Only(ns, S))
  <1>1. PICK f : /\ f = [k \in 0..Len(ns) |->
                            IF k = 0 THEN <<>>
                            ELSE IF ns[k] \in S THEN Append(f[k - 1], ns[k]) ELSE f[k - 1]]
                 /\ Only(ns, S) = f[Len(ns)]
    BY OnlyIs
  <1> DEFINE Good(k) ==
               /\ f[k] \in Seq(A)
               /\ \A i \in 1..Len(f[k]) : \E j \in 1..k : f[k][i] = ns[j] /\ ns[j] \in S
               /\ \A j \in 1..k : ns[j] \in S => \E i \in 1..Len(f[k]) : f[k][i] = ns[j]
               /\ IsInjective(ns) => IsInjective(f[k])
             T == {k \in Nat : k <= Len(ns) => Good(k)}
  <1>2. f[0] = <<>>
    BY <1>1
  <1>3. \A k \in 0..Len(ns) : k # 0 => f[k] = IF ns[k] \in S THEN Append(f[k - 1], ns[k]) ELSE f[k - 1]
    BY <1>1
  <1>4. 0 \in T
    <2>1. <<>> \in Seq(A) /\ Len(<<>>) = 0 /\ DOMAIN <<>> = {}
      OBVIOUS
    <2>2. IsInjective(f[0])
      BY <1>2, <2>1 DEF IsInjective
    <2>3. \A i \in 1..Len(f[0]) : FALSE
      BY <1>2
    <2>4. f[0] \in Seq(A)
      BY <1>2
    <2> QED
      BY <2>2, <2>3, <2>4
  <1>5. ASSUME NEW n \in Nat, n \in T PROVE n + 1 \in T
    <2> SUFFICES ASSUME n + 1 <= Len(ns) PROVE Good(n + 1)
      OBVIOUS
    <2>1. Good(n)
      BY <1>5
    <2>2. n + 1 \in 1..Len(ns) /\ (n + 1) - 1 = n
      OBVIOUS
    <2>3. f[n + 1] = IF ns[n + 1] \in S THEN Append(f[n], ns[n + 1]) ELSE f[n]
      BY <1>3, <2>2
    <2> DEFINE s == f[n]
               t == f[n + 1]
               x == ns[n + 1]
    <2>4. x \in A /\ \A j \in 1..n : ns[j] \in A
      BY <2>2
    <2>5. s \in Seq(A) /\ Len(s) \in Nat
      BY <2>1
    <2>6. CASE x \notin S
      <3>1. t = s
        BY <2>3, <2>6
      <3>2. \A j \in 1..(n + 1) : ns[j] \in S => j \in 1..n
        BY <2>6
      <3>3. ASSUME NEW i \in 1..Len(t)
            PROVE  \E j \in 1..(n + 1) : t[i] = ns[j] /\ ns[j] \in S
        <4>1. PICK j \in 1..n : s[i] = ns[j] /\ ns[j] \in S
          BY <2>1, <3>1
        <4>2. t[i] = s[i] /\ j \in 1..(n + 1)
          BY <3>1
        <4> HIDE DEF s, t
        <4> QED
          BY <4>1, <4>2
      <3> QED
        BY <2>1, <3>1, <3>2, <3>3
    <2>7. CASE x \in S
      <3>1. t = Append(s, x)
        BY <2>3, <2>7
      <3>2. /\ t \in Seq(A) /\ Len(t) = Len(s) + 1
            /\ \A i \in 1..Len(s) : t[i] = s[i]
            /\ t[Len(s) + 1] = x
        BY <3>1, <2>4, <2>5
      <3>a. /\ \A i \in 1..Len(s) : \E j \in 1..n : s[i] = ns[j] /\ ns[j] \in S
            /\ \A j \in 1..n : ns[j] \in S => \E i \in 1..Len(s) : s[i] = ns[j]
            /\ IsInjective(ns) => IsInjective(s)
            /\ x = ns[n + 1]
        BY <2>1
      <3> HIDE DEF Good, T, s, t, x
      <3>3. \A i \in 1..Len(t) : \E j \in 1..(n + 1) : t[i] = ns[j] /\ ns[j] \in S
        <4> SUFFICES ASSUME NEW i \in 1..Len(t)
                     PROVE  \E j \in 1..(n + 1) : t[i] = ns[j] /\ ns[j] \in S
          OBVIOUS
        <4>1. CASE i = Len(s) + 1
          BY <4>1, <3>2, <3>a, <2>7
        <4>2. CASE i \in 1..Len(s)
          <5>1. PICK j \in 1..n : s[i] = ns[j] /\ ns[j] \in S
            BY <4>2, <3>a
          <5>2. t[i] = s[i]
            BY <3>2, <4>2
          <5> QED
            BY <5>1, <5>2
        <4> QED
          BY <4>1, <4>2, <3>2, <2>5
      <3>4. \A j \in 1..(n + 1) : ns[j] \in S => \E i \in 1..Len(t) : t[i] = ns[j]
        <4> SUFFICES ASSUME NEW j \in 1..(n + 1), ns[j] \in S
                     PROVE  \E i \in 1..Len(t) : t[i] = ns[j]
          OBVIOUS
        <4>1. CASE j = n + 1
          BY <4>1, <3>2, <3>a, <2>5
        <4>2. CASE j \in 1..n
          <5>1. PICK i \in 1..Len(s) : s[i] = ns[j]
            BY <4>2, <3>a
          <5> QED
            BY <5>1, <3>2, <2>5
        <4> QED
          BY <4>1, <4>2
      <3>5. IsInjective(ns) => IsInjective(t)
        <4> SUFFICES ASSUME IsInjective(ns), NEW a \in 1..Len(t), NEW b \in 1..Len(t), a < b
                     PROVE  t[a] # t[b]
          BY <3>2 DEF IsInjective
        <4>1. a \in 1..Len(s)
          BY <3>2, <2>5
        <4>2. CASE b = Len(s) + 1
          <5>1. PICK j \in 1..n : s[a] = ns[j]
            BY <4>1, <3>a
          <5>2. ns[j] # ns[n + 1]
            BY <2>2 DEF IsInjective
          <5> QED
            BY <5>1, <5>2, <3>2, <3>a, <4>1, <4>2
        <4>3. CASE b \in 1..Len(s)
          <5>1. IsInjective(s) /\ DOMAIN s = 1..Len(s)
            BY <3>a, <2>5
          <5>2. t[a] = s[a] /\ t[b] = s[b] /\ a # b
            BY <4>1, <4>3, <3>2
          <5> QED
            BY <5>1, <5>2, <4>1, <4>3 DEF IsInjective
        <4> QED
          BY <4>2, <4>3, <3>2, <2>5
      <3> QED
        BY <3>2, <3>3, <3>4, <3>5 DEF t, Good
    <2> QED
      BY <2>6, <2>7
  <1>6. Good(Len(ns))
    <2>1. 0 \in T /\ \A n \in Nat : n \in T => n + 1 \in T
      BY <1>4, <1>5
    <2>2. Len(ns) \in T
      <3> HIDE DEF T
      <3> QED
        BY <2>1, SetInduction
    <2> QED
      BY <2>2
  <1>7. ToSet(Only(ns, S)) = ToSet(ns) \cap S
    <2>1. Only(ns, S) \in Seq(A)
      BY <1>1, <1>6
    <2> DEFINE o == Only(ns, S)
    <2>2. /\ \A i \in 1..Len(o) : \E j \in 1..Len(ns) : o[i] = ns[j] /\ ns[j] \in S
          /\ \A j \in 1..Len(ns) : ns[j] \in S => \E i \in 1..Len(o) : o[i] = ns[j]
      <3>1. o = f[Len(ns)]
        BY <1>1
      <3> HIDE DEF o
      <3> QED
        BY <3>1, <1>6
    <2> HIDE DEF o
    <2>3. /\ \A y : y \in ToSet(o) <=> \E i \in 1..Len(o) : o[i] = y
          /\ \A y : y \in ToSet(ns) <=> \E i \in 1..Len(ns) : ns[i] = y
      BY <2>1, InToSet DEF o
    <2>4. ASSUME NEW y \in ToSet(o) PROVE y \in ToSet(ns) \cap S
      <3>1. PICK i \in 1..Len(o) : o[i] = y
        BY <2>3
      <3>2. PICK j \in 1..Len(ns) : o[i] = ns[j] /\ ns[j] \in S
        BY <2>2
      <3> QED
        BY <2>3, <3>1, <3>2
    <2>5. ASSUME NEW y \in ToSet(ns) \cap S PROVE y \in ToSet(o)
      <3>1. PICK j \in 1..Len(ns) : ns[j] = y
        BY <2>3
      <3>2. PICK i \in 1..Len(o) : o[i] = ns[j]
        BY <2>2, <3>1
      <3> QED
        BY <2>3, <3>1, <3>2
    <2>6. ToSet(o) = ToSet(ns) \cap S
      BY <2>4, <2>5
    <2> QED
      BY <2>6 DEF o
  <1> QED
    BY <1>1, <1>6, <1>7

(* The first master of a sequence that has one                              *)
LEMMA MasterIsNode ==
    ASSUME NEW ns \in Seq(Nodes), NEW n
    PROVE  /\ HasMaster(ns, n) <=> \E x \in ToSet(ns) : x \in Masters \ {n}
           /\ HasMaster(ns, n) => Master(ns, n) \in ToSet(ns) /\ Master(ns, n) \in Masters \ {n}
  <1>1. \A x : x \in ToSet(ns) <=> \E i \in 1..Len(ns) : ns[i] = x
    BY InToSet
  <1>2. HasMaster(ns, n) <=> \E x \in ToSet(ns) : x \in Masters \ {n}
    BY <1>1 DEF HasMaster
  <1>3. ASSUME HasMaster(ns, n)
        PROVE  Master(ns, n) \in ToSet(ns) /\ Master(ns, n) \in Masters \ {n}
    <2> DEFINE o == Only(ns, Masters \ {n})
    <2>1. o \in Seq(Nodes) /\ ToSet(o) = ToSet(ns) \cap (Masters \ {n})
      BY OnlyProperties
    <2>2. PICK x : x \in ToSet(o)
      BY <1>2, <1>3, <2>1
    <2> HIDE DEF o
    <2>3. \A y : y \in ToSet(o) <=> \E i \in 1..Len(o) : o[i] = y
      BY <2>1, InToSet
    <2>4. 1 \in 1..Len(o)
      BY <2>1, <2>2, <2>3
    <2>5. o[1] \in ToSet(o)
      BY <2>3, <2>4
    <2> QED
      BY <2>1, <2>5 DEF Master, o
  <1> QED
    BY <1>2, <1>3

LEMMA OthersAre ==
    ASSUME NEW ns \in Seq(Nodes), NEW n
    PROVE  /\ Others(ns, n) \in Seq(Nodes)
           /\ ToSet(Others(ns, n)) = ToSet(ns) \ {n}
           /\ IsInjective(ns) => IsInjective(Others(ns, n))
  <1>1. ToSet(ns) \subseteq Nodes
    BY InToSet
  <1> QED
    BY <1>1, OnlyProperties DEF Others

LEMMA InstrIs ==
    ASSUME NEW ds, NEW d \in ds, NEW A, NEW n \in A
    PROVE  Instr(d, n) \in About(ds, A) /\ Instr(d, n).do = d /\ Instr(d, n).node = n
  BY DEF Instr, About

LEMMA AboutMore ==
    ASSUME NEW ds, NEW es, ds \subseteq es, NEW A, NEW B, A \subseteq B, NEW p \in Seq(About(ds, A))
    PROVE  p \in Seq(About(es, B))
  <1>1. About(ds, A) \subseteq About(es, B)
    BY DEF About
  <1> QED
    BY <1>1, SeqMonotonic

LEMMA EachIs ==
    ASSUME NEW ds, NEW d \in ds, NEW A, NEW ns \in Seq(A)
    PROVE  /\ Each(d, ns) \in Seq(About(ds, A)) /\ Len(Each(d, ns)) = Len(ns)
           /\ \A k \in 1..Len(ns) : Each(d, ns)[k] = Instr(d, ns[k])
           /\ \A n : Ahead(Each(d, ns), d, n) <=> n \in ToSet(ns)
  <1> DEFINE e == [k \in 1..Len(ns) |-> Instr(d, ns[k])]
  <1>1. \A k \in 1..Len(ns) : ns[k] \in A /\ Instr(d, ns[k]) \in About(ds, A)
    BY InstrIs
  <1>2. e \in Seq(About(ds, A)) /\ Len(e) = Len(ns) /\ \A k \in 1..Len(ns) : e[k] = Instr(d, ns[k])
    <2>1. e \in [1..Len(ns) -> About(ds, A)]
      BY <1>1
    <2>2. Len(ns) \in Nat
      OBVIOUS
    <2> HIDE DEF e
    <2>3. e \in Seq(About(ds, A)) /\ Len(e) = Len(ns)
      BY <2>1, <2>2
    <2> QED
      BY <2>3 DEF e
  <1>3. Each(d, ns) = e
    BY DEF Each
  <1> HIDE DEF e
  <1>4. \A n : Ahead(e, d, n) <=> n \in ToSet(ns)
    <2>1. \A x : x \in ToSet(ns) <=> \E i \in 1..Len(ns) : ns[i] = x
      BY InToSet
    <2>2. \A n : Ahead(e, d, n) <=> \E k \in 1..Len(ns) : Instr(d, ns[k]) = Instr(d, n)
      BY <1>2 DEF Ahead
    <2>3. \A x, n : Instr(d, x) = Instr(d, n) => x = n
      BY DEF Instr
    <2> QED
      BY <2>1, <2>2, <2>3
  <1> QED
    BY <1>2, <1>3, <1>4

LEMMA TailIs ==
    ASSUME NEW A, NEW p \in Seq(A), p # <<>>
    PROVE  /\ Tail(p) \in Seq(A) /\ Len(Tail(p)) = Len(p) - 1 /\ Head(p) = p[1] /\ Head(p) \in A
           /\ Len(p) \in Nat \ {0}
           /\ \A k \in 1..Len(Tail(p)) : k + 1 \in 1..Len(p) /\ Tail(p)[k] = p[k + 1]
  OBVIOUS

LEMMA ConcatIs ==
    ASSUME NEW A, NEW p \in Seq(A), NEW q \in Seq(A)
    PROVE  /\ p \o q \in Seq(A) /\ Len(p \o q) = Len(p) + Len(q) /\ Len(p) \in Nat /\ Len(q) \in Nat
           /\ \A k \in 1..Len(p) : (p \o q)[k] = p[k]
           /\ \A k \in 1..Len(q) : (p \o q)[k + Len(p)] = q[k]
           /\ \A k \in 1..Len(p \o q) : k \in 1..Len(p) \/ k - Len(p) \in 1..Len(q)
           /\ \A k \in 1..Len(p \o q) : k - Len(p) \in 1..Len(q) => (p \o q)[k] = q[k - Len(p)]
  OBVIOUS

LEMMA AheadConcat ==
    ASSUME NEW A, NEW p \in Seq(A), NEW q \in Seq(A), NEW d, NEW n
    PROVE  Ahead(p \o q, d, n) <=> Ahead(p, d, n) \/ Ahead(q, d, n)
  <1> DEFINE r == p \o q
  <1>1. /\ \A k \in 1..Len(p) : r[k] = p[k] /\ k \in 1..Len(r)
        /\ \A k \in 1..Len(q) : r[k + Len(p)] = q[k] /\ k + Len(p) \in 1..Len(r)
        /\ \A k \in 1..Len(r) : \/ k \in 1..Len(p) /\ r[k] = p[k]
                                \/ k - Len(p) \in 1..Len(q) /\ r[k] = q[k - Len(p)]
    BY ConcatIs
  <1> HIDE DEF r
  <1> QED
    BY <1>1 DEF Ahead, r

LEMMA LacksConcat ==
    ASSUME NEW A, NEW p \in Seq(A), NEW q \in Seq(A), NEW ds
    PROVE  Lacks(p \o q, ds) <=> Lacks(p, ds) /\ Lacks(q, ds)
  <1> DEFINE r == p \o q
  <1>1. /\ \A k \in 1..Len(p) : r[k] = p[k] /\ k \in 1..Len(r)
        /\ \A k \in 1..Len(q) : r[k + Len(p)] = q[k] /\ k + Len(p) \in 1..Len(r)
        /\ \A k \in 1..Len(r) : \/ k \in 1..Len(p) /\ r[k] = p[k]
                                \/ k - Len(p) \in 1..Len(q) /\ r[k] = q[k - Len(p)]
    BY ConcatIs
  <1> HIDE DEF r
  <1> QED
    BY <1>1 DEF Lacks, r

LEMMA AheadTail ==
    ASSUME NEW A, NEW p \in Seq(A), p # <<>>, NEW d, NEW n
    PROVE  Ahead(p, d, n) <=> Head(p) = Instr(d, n) \/ Ahead(Tail(p), d, n)
  <1> DEFINE t == Tail(p)
  <1>1. /\ Head(p) = p[1] /\ 1 \in 1..Len(p)
        /\ \A k \in 1..Len(t) : k + 1 \in 1..Len(p) /\ t[k] = p[k + 1]
        /\ \A k \in 1..Len(p) : k = 1 \/ (k - 1 \in 1..Len(t) /\ p[k] = t[k - 1])
    BY TailIs
  <1> HIDE DEF t
  <1> QED
    BY <1>1 DEF Ahead, t

LEMMA LacksTail ==
    ASSUME NEW A, NEW p \in Seq(A), p # <<>>, NEW ds
    PROVE  Lacks(p, ds) <=> Head(p).do \notin ds /\ Lacks(Tail(p), ds)
  <1> DEFINE t == Tail(p)
  <1>1. /\ Head(p) = p[1] /\ 1 \in 1..Len(p)
        /\ \A k \in 1..Len(t) : k + 1 \in 1..Len(p) /\ t[k] = p[k + 1]
        /\ \A k \in 1..Len(p) : k = 1 \/ (k - 1 \in 1..Len(t) /\ p[k] = t[k - 1])
    BY TailIs
  <1> HIDE DEF t
  <1> QED
    BY <1>1 DEF Lacks, t

LEMMA LacksOthers ==
    ASSUME NEW ds, NEW A, NEW p \in Seq(About(ds, A)), NEW es, ds \cap es = {}
    PROVE  Lacks(p, es) /\ \A d \in es : \A n : ~Ahead(p, d, n)
  <1>1. \A k \in 1..Len(p) : p[k] \in About(ds, A)
    OBVIOUS
  <1>2. \A k \in 1..Len(p) : p[k].do \in ds
    BY <1>1 DEF About
  <1> QED
    BY <1>2 DEF Lacks, Ahead, Instr

LEMMA OrderedTail ==
    ASSUME NEW A, NEW p \in Seq(A), p # <<>>, Ordered(p)
    PROVE  /\ Ordered(Tail(p))
           /\ Head(p).do \in {"ready", "join"} => Lacks(Tail(p), {"setHosts"})
           /\ Head(p).do = "drop" => Lacks(Tail(p), {"delete"})
           /\ Head(p).do \in Finds \cup {"erase"} => Tail(p) = <<>>
  <1> DEFINE t == Tail(p)
  <1>1. /\ Head(p) = p[1] /\ 1 \in 1..Len(p) /\ Len(t) = Len(p) - 1 /\ Len(t) \in Nat
        /\ \A k \in 1..Len(t) : k + 1 \in 1..Len(p) /\ t[k] = p[k + 1] /\ 1 < k + 1
    BY TailIs
  <1>2. Len(p) = 1 => t = <<>>
    <2>1. t \in Seq(A)
      BY TailIs
    <2> HIDE DEF t
    <2> QED
      BY <1>1, <2>1, EmptySeq
  <1> HIDE DEF t
  <1>3. Ordered(t)
    <2>1. ASSUME NEW k \in 1..Len(t), t[k].do \in Finds \cup {"erase"}
          PROVE  k = Len(t)
      <3>1. k + 1 = Len(p)
        BY <1>1, <2>1 DEF Ordered
      <3> QED
        BY <1>1, <3>1
    <2>2. ASSUME NEW j \in 1..Len(t), NEW k \in 1..Len(t), j < k
          PROVE  /\ t[j].do \in {"ready", "join"} => t[k].do # "setHosts"
                 /\ t[j].do = "drop" => t[k].do # "delete"
      <3>1. j + 1 < k + 1 /\ j + 1 \in 1..Len(p) /\ k + 1 \in 1..Len(p)
        BY <1>1, <2>2
      <3> QED
        BY <1>1, <3>1 DEF Ordered
    <2> QED
      BY <2>1, <2>2 DEF Ordered
  <1>4. /\ Head(p).do \in {"ready", "join"} => Lacks(t, {"setHosts"})
        /\ Head(p).do = "drop" => Lacks(t, {"delete"})
    BY <1>1 DEF Ordered, Lacks
  <1>5. Head(p).do \in Finds \cup {"erase"} => t = <<>>
    BY <1>1, <1>2 DEF Ordered
  <1> QED
    BY <1>3, <1>4, <1>5 DEF t

LEMMA OrderedConcat ==
    ASSUME NEW A, NEW p \in Seq(A), NEW q \in Seq(A), Ordered(p), Ordered(q),
           Lacks(p, Finds \cup {"erase"}),
           Lacks(p, {"ready", "join"}) \/ Lacks(q, {"setHosts"}),
           Lacks(p, {"drop"}) \/ Lacks(q, {"delete"})
    PROVE  Ordered(p \o q)
  <1> DEFINE r == p \o q
  <1>1. /\ Len(r) = Len(p) + Len(q) /\ Len(p) \in Nat /\ Len(q) \in Nat
        /\ \A k \in 1..Len(r) : \/ k \in 1..Len(p) /\ r[k] = p[k]
                                \/ k - Len(p) \in 1..Len(q) /\ r[k] = q[k - Len(p)]
    BY ConcatIs
  <1> HIDE DEF r
  <1>2. ASSUME NEW k \in 1..Len(r), r[k].do \in Finds \cup {"erase"}
        PROVE  k = Len(r)
    <2>1. k - Len(p) \in 1..Len(q) /\ r[k] = q[k - Len(p)]
      BY <1>1, <1>2 DEF Lacks
    <2>2. k - Len(p) = Len(q)
      BY <1>2, <2>1 DEF Ordered
    <2> QED
      BY <1>1, <2>2
  <1>3. ASSUME NEW j \in 1..Len(r), NEW k \in 1..Len(r), j < k
        PROVE  /\ r[j].do \in {"ready", "join"} => r[k].do # "setHosts"
               /\ r[j].do = "drop" => r[k].do # "delete"
    <2>1. CASE k \in 1..Len(p) /\ r[k] = p[k]
      <3>1. j \in 1..Len(p) /\ r[j] = p[j]
        BY <1>1, <1>3, <2>1
      <3> QED
        BY <1>3, <2>1, <3>1 DEF Ordered
    <2>2. CASE k - Len(p) \in 1..Len(q) /\ r[k] = q[k - Len(p)]
      <3>1. CASE j \in 1..Len(p) /\ r[j] = p[j]
        BY <2>2, <3>1 DEF Lacks
      <3>2. CASE j - Len(p) \in 1..Len(q) /\ r[j] = q[j - Len(p)]
        <4>1. j - Len(p) < k - Len(p)
          BY <1>1, <1>3
        <4> QED
          BY <2>2, <3>2, <4>1 DEF Ordered
      <3> QED
        BY <1>1, <3>1, <3>2
    <2> QED
      BY <1>1, <2>1, <2>2
  <1> QED
    BY <1>2, <1>3 DEF Ordered, r

LEMMA OrderedPlain ==
    ASSUME NEW ds, NEW A, NEW p \in Seq(About(ds, A)),
           ds \cap (Finds \cup {"erase"}) = {},
           ds \cap {"ready", "join"} = {} \/ "setHosts" \notin ds,
           "drop" \notin ds \/ "delete" \notin ds
    PROVE  Ordered(p)
  <1>1. \A k \in 1..Len(p) : p[k] \in About(ds, A)
    OBVIOUS
  <1>2. \A k \in 1..Len(p) : p[k].do \in ds
    BY <1>1 DEF About
  <1> QED
    BY <1>2 DEF Ordered

\* What is asked of a stranger goes on being guarded, unless it is none now.
LEMMA GuardedTail ==
    ASSUME NEW A, NEW p \in Seq(A), p # <<>>, NEW S, NEW T, T \subseteq S, Guarded(p, S),
           \A n \in T : Head(p) # Instr("create", n)
    PROVE  Guarded(Tail(p), T)
  <1> DEFINE t == Tail(p)
  <1>1. /\ Head(p) = p[1] /\ 1 \in 1..Len(p) /\ Len(t) = Len(p) - 1 /\ Len(t) \in Nat
        /\ \A k \in 1..Len(t) : k + 1 \in 1..Len(p) /\ t[k] = p[k + 1]
    BY TailIs
  <1> HIDE DEF t
  <1> SUFFICES ASSUME NEW k \in 1..Len(t), t[k].do \in Touches, t[k].node \in T
               PROVE  \E j \in 1..(k - 1) : t[j] = Instr("create", t[k].node)
    BY DEF Guarded, t
  <1>2. PICK j \in 1..((k + 1) - 1) : p[j] = Instr("create", p[k + 1].node)
    BY <1>1 DEF Guarded
  <1>3. j # 1
    BY <1>1, <1>2
  <1>4. j - 1 \in 1..(k - 1) /\ j - 1 \in 1..Len(t) /\ (j - 1) + 1 = j
    BY <1>1, <1>3
  <1>5. t[j - 1] = Instr("create", t[k].node)
    BY <1>1, <1>2, <1>4
  <1> QED
    BY <1>4, <1>5

LEMMA GuardedConcat ==
    ASSUME NEW A, NEW p \in Seq(A), NEW q \in Seq(A), NEW S, Guarded(p, S),
           \A k \in 1..Len(q) : q[k].do \in Touches /\ q[k].node \in S =>
               \/ Ahead(p, "create", q[k].node)
               \/ \E j \in 1..(k - 1) : q[j] = Instr("create", q[k].node)
    PROVE  Guarded(p \o q, S)
  <1> DEFINE r == p \o q
  <1>1. /\ Len(r) = Len(p) + Len(q) /\ Len(p) \in Nat /\ Len(q) \in Nat
        /\ \A k \in 1..Len(p) : r[k] = p[k]
        /\ \A k \in 1..Len(q) : r[k + Len(p)] = q[k]
        /\ \A k \in 1..Len(r) : \/ k \in 1..Len(p) /\ r[k] = p[k]
                                \/ k - Len(p) \in 1..Len(q) /\ r[k] = q[k - Len(p)]
    BY ConcatIs
  <1> HIDE DEF r
  <1> SUFFICES ASSUME NEW k \in 1..Len(r), r[k].do \in Touches, r[k].node \in S
               PROVE  \E j \in 1..(k - 1) : r[j] = Instr("create", r[k].node)
    BY DEF Guarded, r
  <1>2. CASE k \in 1..Len(p) /\ r[k] = p[k]
    <2>1. PICK j \in 1..(k - 1) : p[j] = Instr("create", p[k].node)
      BY <1>2 DEF Guarded
    <2> QED
      BY <1>1, <1>2, <2>1
  <1>3. CASE k - Len(p) \in 1..Len(q) /\ r[k] = q[k - Len(p)]
    <2>1. CASE Ahead(p, "create", r[k].node)
      <3>1. PICK j \in 1..Len(p) : p[j] = Instr("create", r[k].node)
        BY <2>1 DEF Ahead
      <3> QED
        BY <1>1, <1>3, <3>1
    <2>2. CASE \E j \in 1..((k - Len(p)) - 1) : q[j] = Instr("create", r[k].node)
      <3>1. PICK j \in 1..((k - Len(p)) - 1) : q[j] = Instr("create", r[k].node)
        BY <2>2
      <3>2. j + Len(p) \in 1..(k - 1) /\ j \in 1..Len(q)
        BY <1>1, <1>3
      <3>3. r[j + Len(p)] = q[j]
        BY <1>1, <3>2
      <3> QED
        BY <3>1, <3>2, <3>3
    <2> QED
      BY <1>3, <2>1, <2>2
  <1> QED
    BY <1>1, <1>2, <1>3

LEMMA GuardedPlain ==
    ASSUME NEW ds, NEW A, NEW p \in Seq(About(ds, A)), NEW S, ds \cap Touches = {} \/ A \cap S = {}
    PROVE  Guarded(p, S)
  <1>1. \A k \in 1..Len(p) : p[k] \in About(ds, A)
    OBVIOUS
  <1>2. \A k \in 1..Len(p) : p[k].do \in ds /\ p[k].node \in A
    BY <1>1 DEF About
  <1> QED
    BY <1>2 DEF Guarded

LEMMA ProgramIs ==
    ASSUME NEW D, NEW ds \in Seq(D), NEW n
    PROVE  /\ Program(ds, n) \in Seq(About(D, {n})) /\ Len(Program(ds, n)) = Len(ds)
           /\ \A k \in 1..Len(ds) : Program(ds, n)[k] = Instr(ds[k], n)
  <1> DEFINE e == [k \in 1..Len(ds) |-> Instr(ds[k], n)]
  <1>1. \A k \in 1..Len(ds) : ds[k] \in D /\ Instr(ds[k], n) \in About(D, {n})
    BY InstrIs
  <1>2. e \in [1..Len(ds) -> About(D, {n})]
    BY <1>1
  <1>3. Len(ds) \in Nat
    OBVIOUS
  <1>4. Program(ds, n) = e /\ \A k \in 1..Len(ds) : e[k] = Instr(ds[k], n)
    BY DEF Program
  <1> HIDE DEF e
  <1>5. e \in Seq(About(D, {n})) /\ Len(e) = Len(ds)
    <2> DEFINE m == Len(ds)
               B == About(D, {n})
    <2>1. m \in Nat /\ e \in [1..m -> B]
      BY <1>2, <1>3
    <2> HIDE DEF m, B
    <2>2. e \in Seq(B) /\ Len(e) = m
      BY <2>1
    <2> QED
      BY <2>2 DEF m, B
  <1> QED
    BY <1>4, <1>5

CreateVerbs == {"usedIds", "unused", "create", "unlocked", "resize", "start", "up", "reboot",
                "setHosts", "install", "ready", "join", "ssh"}

LEMMA CreateVmsAre ==
    ASSUME NEW A, NEW ns \in Seq(A)
    PROVE  /\ CreateVms(ns) \in Seq(About({"unused", "create", "unlocked", "resize"}, A))
           /\ \A n \in ToSet(ns) : Ahead(CreateVms(ns), "create", n)
           /\ \A S : Guarded(CreateVms(ns), S)
  <1> DEFINE ds == <<"unused">> \o VmCreate
             D  == {"unused", "create", "unlocked", "resize"}
             L  == Len(ns)
             s(k) == ((k - 1) % 4) + 1
             i(k) == ((k - 1) \div 4) + 1
             e  == [k \in 1..(4 * L) |-> Instr(ds[s(k)], ns[i(k)])]
  <1>1. CreateVms(ns) = e
    BY DEF CreateVms
  <1>2. L \in Nat /\ 4 * L \in Nat
    OBVIOUS
  <1>3. ds[1] = "unused" /\ ds[2] = "create" /\ ds[3] = "unlocked" /\ ds[4] = "resize"
    BY DEF VmCreate
  <1>4. \A k \in 1..(4 * L) : s(k) \in 1..4 /\ i(k) \in 1..L
    BY <1>2
  <1>5. \A k \in 1..(4 * L) : e[k] = Instr(ds[s(k)], ns[i(k)])
    OBVIOUS
  <1>6. \A k \in 1..(4 * L) : ds[s(k)] \in D /\ ns[i(k)] \in A /\ e[k] \in About(D, A)
    <2> SUFFICES ASSUME NEW k \in 1..(4 * L)
                 PROVE  ds[s(k)] \in D /\ ns[i(k)] \in A /\ e[k] \in About(D, A)
      OBVIOUS
    <2>1. s(k) \in {1, 2, 3, 4} /\ i(k) \in 1..L
      BY <1>4
    <2>2. ds[s(k)] \in D /\ ns[i(k)] \in A
      <3> HIDE DEF s, i, ds
      <3> QED
        BY <2>1, <1>3
    <2>3. e[k] = Instr(ds[s(k)], ns[i(k)])
      OBVIOUS
    <2> HIDE DEF ds, s, i, e, D
    <2> QED
      BY <2>2, <2>3, InstrIs
  <1>7. e \in [1..(4 * L) -> About(D, A)]
    BY <1>6
  <1>8. e \in Seq(About(D, A)) /\ Len(e) = 4 * L
    <2> HIDE DEF e, D
    <2> QED
      BY <1>2, <1>7
  <1>9. \A n \in ToSet(ns) : Ahead(e, "create", n)
    <2> SUFFICES ASSUME NEW n \in ToSet(ns)
                 PROVE  \E k \in 1..Len(e) : e[k] = Instr("create", n)
      BY DEF Ahead
    <2>1. PICK j \in 1..L : ns[j] = n
      BY InToSet
    <2> DEFINE k == 4 * (j - 1) + 2
    <2>2. k \in 1..(4 * L) /\ s(k) = 2 /\ i(k) = j
      BY <1>2
    <2> HIDE DEF k, s, i, ds, e
    <2> QED
      BY <1>3, <1>5, <1>8, <2>1, <2>2
  <1>10. ASSUME NEW S PROVE Guarded(e, S)
    <2> SUFFICES ASSUME NEW k \in 1..(4 * L), e[k].do \in Touches
                 PROVE  \E j \in 1..(k - 1) : e[j] = Instr("create", e[k].node)
      BY <1>8 DEF Guarded
    <2>1. e[k].do = ds[s(k)] /\ e[k].node = ns[i(k)]
      BY DEF Instr
    <2>2. s(k) = 4
      <3>1. s(k) \in {1, 2, 3, 4}
        BY <1>4
      <3> HIDE DEF s, i, ds, e
      <3> QED
        BY <1>3, <2>1, <3>1 DEF Touches, Requests
    <2> DEFINE j == k - 2
    <2>3. j \in 1..(k - 1) /\ j \in 1..(4 * L) /\ s(j) = 2 /\ i(j) = i(k)
      BY <1>2, <2>2
    <2> HIDE DEF j, s, i, ds, e
    <2> QED
      BY <1>3, <1>5, <2>1, <2>3
  <1> HIDE DEF e, D
  <1> QED
    BY <1>1, <1>8, <1>9, <1>10 DEF D

LEMMA SeqOfToSet ==
    ASSUME NEW A, NEW s \in Seq(A)
    PROVE  s \in Seq(ToSet(s))
  <1>1. \A i \in 1..Len(s) : s[i] \in ToSet(s)
    BY InToSet
  <1> QED
    BY <1>1

LEMMA GuardedMore ==
    ASSUME NEW ds, NEW A, NEW p \in Seq(About(ds, A)), NEW q \in Seq(About(ds, A)), NEW S,
           Guarded(p, S), \A n \in A : Ahead(p, "create", n)
    PROVE  /\ p \o q \in Seq(About(ds, A)) /\ Guarded(p \o q, S)
           /\ \A n \in A : Ahead(p \o q, "create", n)
  <1>1. \A k \in 1..Len(q) : q[k] \in About(ds, A)
    OBVIOUS
  <1>2. \A k \in 1..Len(q) : q[k].node \in A
    BY <1>1 DEF About
  <1>3. Guarded(p \o q, S)
    BY <1>2, GuardedConcat
  <1> QED
    BY <1>3, ConcatIs, AheadConcat

(* A creation creates a VM before it asks anything of it, and makes all     *)
(* addresses known before nodes join.                                       *)
LEMMA CreateClusterIs ==
    ASSUME NEW ns \in Seq(Nodes), HasMaster(ns, Foreign)
    PROVE  /\ CreateCluster(ns) \in Seq(About(CreateVerbs, ToSet(ns)))
           /\ Ordered(CreateCluster(ns))
           /\ \A S : Guarded(CreateCluster(ns), S)
           /\ \A n \in ToSet(ns) : Ahead(CreateCluster(ns), "setHosts", n)
  <1> DEFINE A  == ToSet(ns)
             m  == Master(ns, Foreign)
             V  == CreateVerbs
             T  == Seq(About(V, A))
             Early == {"usedIds", "unused", "create", "unlocked", "resize", "start", "up", "reboot",
                       "setHosts", "install"}
             a0 == <<Instr("usedIds", m)>>
             a1 == CreateVms(ns)
             a2 == Each("start", ns)
             a3 == Each("up", ns)
             a4 == Each("reboot", ns)
             a5 == Each("setHosts", ns)
             a6 == Each("install", ns)
             b1 == Each("ready", ns)
             b2 == Each("join", Others(ns, m))
             b3 == <<Instr("ssh", m)>>
             p1 == a0 \o a1
             p4 == p1 \o a2 \o a3 \o a4
             p6 == p4 \o a5 \o a6
  <1>1. m \in A /\ ns \in Seq(A) /\ A \subseteq Nodes
    BY MasterIsNode, SeqOfToSet, InToSet
  <1>2. Others(ns, m) \in Seq(A)
    BY <1>1, OnlyProperties DEF Others
  <1>3. Early \subseteq V
    BY DEF CreateVerbs
  <1>4. /\ a0 \in Seq(About({"usedIds"}, A)) /\ a1 \in Seq(About({"unused", "create", "unlocked", "resize"}, A))
        /\ a2 \in Seq(About({"start"}, A)) /\ a3 \in Seq(About({"up"}, A)) /\ a4 \in Seq(About({"reboot"}, A))
        /\ a5 \in Seq(About({"setHosts"}, A)) /\ a6 \in Seq(About({"install"}, A))
        /\ b1 \in Seq(About({"ready"}, A)) /\ b2 \in Seq(About({"join"}, A)) /\ b3 \in Seq(About({"ssh"}, A))
    <2>1. a1 \in Seq(About({"unused", "create", "unlocked", "resize"}, A))
      BY <1>1, CreateVmsAre
    <2>2. Instr("usedIds", m) \in About({"usedIds"}, A) /\ Instr("ssh", m) \in About({"ssh"}, A)
      BY <1>1, InstrIs
    <2>3. a0 \in Seq(About({"usedIds"}, A)) /\ b3 \in Seq(About({"ssh"}, A))
      BY <2>2
    <2>4. \A d : Each(d, ns) \in Seq(About({d}, A)) /\ Each(d, Others(ns, m)) \in Seq(About({d}, A))
      BY <1>1, <1>2, EachIs
    <2> HIDE DEF A, m
    <2> QED
      BY <2>1, <2>3, <2>4
  <1>5. \A n \in A : Ahead(a1, "create", n) /\ Ahead(a5, "setHosts", n)
    BY <1>1, CreateVmsAre, EachIs
  <1>6. \A S : Guarded(a1, S)
    BY <1>1, CreateVmsAre
  <1>7. CreateCluster(ns) = p6 \o b1 \o b2 \o b3
    BY DEF CreateCluster
  <1> HIDE DEF a0, a1, a2, a3, a4, a5, a6, b1, b2, b3, A, m
  <1>8. /\ a0 \in T /\ a1 \in T /\ a2 \in T /\ a3 \in T /\ a4 \in T /\ a5 \in T /\ a6 \in T
        /\ b1 \in T /\ b2 \in T /\ b3 \in T
    <2>1. \A ds \in SUBSET V : Seq(About(ds, A)) \subseteq T
      BY AboutMore
    <2>2. /\ {"usedIds"} \in SUBSET V /\ {"unused", "create", "unlocked", "resize"} \in SUBSET V
          /\ {"start"} \in SUBSET V /\ {"up"} \in SUBSET V /\ {"reboot"} \in SUBSET V
          /\ {"setHosts"} \in SUBSET V /\ {"install"} \in SUBSET V
          /\ {"ready"} \in SUBSET V /\ {"join"} \in SUBSET V /\ {"ssh"} \in SUBSET V
      BY DEF CreateVerbs
    <2> HIDE DEF V, T
    <2> QED
      BY <1>4, <2>1, <2>2
  <1>9. \A S : Guarded(p6 \o b1 \o b2 \o b3, S)
    <2> TAKE S
    <2> DEFINE Ok(p) == p \in T /\ Guarded(p, S) /\ \A n \in A : Ahead(p, "create", n)
    <2>1. Ok(p1)
      <3>1. \A k \in 1..Len(a1) : a1[k].do \in Touches /\ a1[k].node \in S =>
                \E j \in 1..(k - 1) : a1[j] = Instr("create", a1[k].node)
        BY <1>6 DEF Guarded
      <3>2. Guarded(a0, S)
        <4>1. {"usedIds"} \cap Touches = {} /\ a0 \in Seq(About({"usedIds"}, A))
          BY <1>4 DEF Touches, Requests
        <4> QED
          BY <4>1, GuardedPlain
      <3>3. Guarded(p1, S)
        BY <1>8, <3>1, <3>2, GuardedConcat
      <3> QED
        BY <1>5, <1>8, <3>3, ConcatIs, AheadConcat
    <2>2. ASSUME NEW p, NEW q \in T, Ok(p) PROVE Ok(p \o q)
      BY <2>2, GuardedMore
    <2> HIDE DEF Ok, V, T
    <2>3. Ok(p4)
      <3>1. Ok(p1 \o a2)
        BY <1>8, <2>1, <2>2
      <3>2. Ok(p1 \o a2 \o a3)
        BY <1>8, <3>1, <2>2
      <3> QED
        BY <1>8, <3>2, <2>2
    <2> HIDE DEF p4
    <2>4. Ok(p6)
      <3>1. Ok(p4 \o a5)
        BY <1>8, <2>3, <2>2
      <3> QED
        BY <1>8, <3>1, <2>2
    <2> HIDE DEF p6
    <2>5. Ok(p6 \o b1)
      BY <1>8, <2>4, <2>2
    <2>6. Ok(p6 \o b1 \o b2)
      BY <1>8, <2>5, <2>2
    <2>7. Ok(p6 \o b1 \o b2 \o b3)
      BY <1>8, <2>6, <2>2
    <2> QED
      BY <2>7 DEF Ok
  <1>10. p6 \in Seq(About(Early, A)) /\ \A n \in A : Ahead(p6, "setHosts", n)
    <2> DEFINE E == Seq(About(Early, A))
    <2>1. a0 \in E /\ a1 \in E /\ a2 \in E /\ a3 \in E /\ a4 \in E /\ a5 \in E /\ a6 \in E
      <3>1. \A ds \in SUBSET Early : Seq(About(ds, A)) \subseteq E
        BY AboutMore
      <3>2. /\ {"usedIds"} \in SUBSET Early
            /\ {"unused", "create", "unlocked", "resize"} \in SUBSET Early
            /\ {"start"} \in SUBSET Early /\ {"up"} \in SUBSET Early /\ {"reboot"} \in SUBSET Early
            /\ {"setHosts"} \in SUBSET Early /\ {"install"} \in SUBSET Early
        OBVIOUS
      <3> HIDE DEF Early, E
      <3> QED
        BY <1>4, <3>1, <3>2
    <2>2. \A p, q \in E : p \o q \in E
      BY ConcatIs
    <2> HIDE DEF E
    <2>3. p1 \in E
      BY <2>1, <2>2
    <2> HIDE DEF p1
    <2>4. p4 \in E
      BY <2>1, <2>2, <2>3
    <2> HIDE DEF p4
    <2>5. p4 \o a5 \in E /\ p6 \in E
      BY <2>1, <2>2, <2>4
    <2>6. \A n \in A : Ahead(p4 \o a5, "setHosts", n)
      BY <1>5, <2>1, <2>4, AheadConcat DEF E
    <2>7. \A n \in A : Ahead(p6, "setHosts", n)
      BY <2>1, <2>5, <2>6, AheadConcat DEF E
    <2> QED
      BY <2>5, <2>7 DEF E
  <1> HIDE DEF p6
  <1>11. /\ Ordered(p6 \o b1 \o b2 \o b3) /\ p6 \o b1 \o b2 \o b3 \in T
         /\ \A n \in A : Ahead(p6 \o b1 \o b2 \o b3, "setHosts", n)
    <2> DEFINE Most == Early \cup {"ready", "join"}
    <2>1. Ordered(p6) /\ Ordered(b1) /\ Ordered(b2) /\ Ordered(b3)
      BY <1>4, <1>10, OrderedPlain DEF Finds
    <2>2. /\ Lacks(p6, Finds \cup {"erase"}) /\ Lacks(p6, {"ready", "join"}) /\ Lacks(p6, {"drop"})
      BY <1>10, LacksOthers DEF Finds
    <2>3. /\ Lacks(b1, Finds \cup {"erase"}) /\ Lacks(b1, {"setHosts"}) /\ Lacks(b1, {"drop"})
          /\ Lacks(b2, Finds \cup {"erase"}) /\ Lacks(b2, {"setHosts"}) /\ Lacks(b2, {"drop"})
          /\ Lacks(b3, {"setHosts"})
      <3>1. /\ b1 \in Seq(About({"ready"}, A)) /\ b2 \in Seq(About({"join"}, A))
            /\ b3 \in Seq(About({"ssh"}, A))
        BY <1>4
      <3>2. /\ {"ready"} \cap (Finds \cup {"erase", "setHosts", "drop"}) = {}
            /\ {"join"} \cap (Finds \cup {"erase", "setHosts", "drop"}) = {}
            /\ {"ssh"} \cap (Finds \cup {"erase", "setHosts", "drop"}) = {}
        BY DEF Finds
      <3>3. /\ Lacks(b1, Finds \cup {"erase", "setHosts", "drop"})
            /\ Lacks(b2, Finds \cup {"erase", "setHosts", "drop"})
            /\ Lacks(b3, Finds \cup {"erase", "setHosts", "drop"})
        BY <3>1, <3>2, LacksOthers
      <3> QED
        BY <3>3 DEF Lacks
    <2>4. p6 \in T
      BY <1>3, <1>10, AboutMore
    <2> HIDE DEF T
    <2>5. Ordered(p6 \o b1) /\ p6 \o b1 \in T
      BY <1>8, <2>1, <2>2, <2>3, <2>4, OrderedConcat, ConcatIs DEF T
    <2>6. Lacks(p6 \o b1, Finds \cup {"erase"}) /\ Lacks(p6 \o b1, {"drop"})
      BY <1>8, <2>2, <2>3, <2>4, LacksConcat DEF T
    <2>7. Ordered(p6 \o b1 \o b2) /\ p6 \o b1 \o b2 \in T
      BY <1>8, <2>1, <2>3, <2>5, <2>6, OrderedConcat, ConcatIs DEF T
    <2>8. Lacks(p6 \o b1 \o b2, Finds \cup {"erase"}) /\ Lacks(p6 \o b1 \o b2, {"drop"})
      BY <1>8, <2>3, <2>5, <2>6, LacksConcat DEF T
    <2>9. Ordered(p6 \o b1 \o b2 \o b3) /\ p6 \o b1 \o b2 \o b3 \in T
      BY <1>8, <2>1, <2>3, <2>7, <2>8, OrderedConcat, ConcatIs DEF T
    <2>10. \A n \in A : Ahead(p6 \o b1 \o b2 \o b3, "setHosts", n)
      BY <1>8, <1>10, <2>4, <2>5, <2>7, AheadConcat DEF T
    <2> QED
      BY <2>9, <2>10
  <1> QED
    BY <1>7, <1>9, <1>11 DEF A

LEMMA AboutScoped ==
    ASSUME NEW w, NEW ds \in SUBSET Verbs, NEW A \in SUBSET Nodes, NEW p \in Seq(About(ds, A)),
           \A d \in ds : \A n \in A : Scope(w, Instr(d, n))
    PROVE  p \in Seq(Scoped(w))
  <1>1. About(ds, A) \subseteq Scoped(w)
    <2> SUFFICES ASSUME NEW i \in About(ds, A) PROVE i \in Scoped(w)
      OBVIOUS
    <2>1. i.do \in ds /\ i.node \in A /\ i = Instr(i.do, i.node) /\ i \in Instruction
      BY DEF About, Instr, Instruction
    <2> QED
      BY <2>1 DEF Scoped
  <1> QED
    BY <1>1, SeqMonotonic

\* What nobody restricts
Free == {"usedIds", "unused", "unlocked", "resize", "config", "start", "up", "reboot", "install", "ssh",
         "drain", "shutdown", "stop", "down", "again", "halt", "halted"}

LEMMA FreeScope ==
    ASSUME NEW w, NEW d \in Free, NEW n PROVE Scope(w, Instr(d, n)) /\ d \in Verbs
  BY DEF Free, Scope, Instr, Verbs, Requests

LEMMA FreeProgram ==
    ASSUME NEW w, NEW ds \in SUBSET Free, NEW A \in SUBSET Nodes, NEW p \in Seq(About(ds, A))
    PROVE  p \in Seq(Scoped(w)) /\ Ordered(p)
  <1>1. ds \subseteq Verbs /\ \A d \in ds : \A n \in A : Scope(w, Instr(d, n))
    BY FreeScope
  <1>2. p \in Seq(Scoped(w))
    BY <1>1, AboutScoped
  <1>3. ds \cap (Finds \cup {"erase"}) = {} /\ "setHosts" \notin ds /\ "drop" \notin ds
    BY DEF Free, Finds
  <1>4. Ordered(p)
    BY <1>3, OrderedPlain
  <1> QED
    BY <1>2, <1>4

(* The programs of the use cases, which hand out instructions as Scope says *)
LEMMA CreateScope ==
    ASSUME NEW w, w.kind = "create", w.copy \in Seq(Nodes), HasMaster(w.copy, Foreign)
    PROVE  CreateCluster(w.copy) \in Seq(Scoped(w))
  <1> DEFINE A == ToSet(w.copy)
  <1>1. A \subseteq Nodes
    BY InToSet
  <1>2. CreateVerbs \subseteq Verbs
    BY DEF CreateVerbs, Verbs, Requests
  <1>3. \A d \in CreateVerbs : \A n \in A : Scope(w, Instr(d, n))
    BY DEF CreateVerbs, Scope, Instr
  <1>4. CreateCluster(w.copy) \in Seq(About(CreateVerbs, A))
    BY CreateClusterIs
  <1> HIDE DEF A
  <1> QED
    BY <1>1, <1>2, <1>3, <1>4, AboutScoped

LEMMA AddToPeersIs ==
    ASSUME NEW w, w.kind = "add", w.copy \in Seq(Nodes), w.node \in ToSet(w.copy),
           NEW peers \in Seq(Nodes), ToSet(peers) \subseteq ToSet(w.copy)
    PROVE  LET p == AddToPeers(w.node, peers)
           IN  /\ p \in Seq(Scoped(w)) /\ Ordered(p)
               /\ \A S : Guarded(p, S)
               /\ \A n \in ToSet(peers) \cup {w.node} : Ahead(p, "setHosts", n)
  <1> DEFINE n   == w.node
             A   == ToSet(w.copy)
             ds  == VmCreate \o <<"start">> \o NodeUp \o <<"setHosts">>
             es  == <<"install", "ready", "join">>
             D   == {"create", "unlocked", "resize", "start", "up", "reboot", "setHosts"}
             E   == {"install", "ready", "join"}
             a   == Program(ds, n)
             b   == Each("setHosts", peers)
             c   == Program(es, n)
  <1>1. A \subseteq Nodes /\ n \in A
    BY InToSet
  <1>2. /\ VmCreate \in Seq(D) /\ Len(VmCreate) = 3 /\ VmCreate[1] = "create"
        /\ NodeUp \in Seq(D) /\ Len(NodeUp) = 2
        /\ <<"start">> \in Seq(D) /\ Len(<<"start">>) = 1
        /\ <<"setHosts">> \in Seq(D) /\ Len(<<"setHosts">>) = 1 /\ <<"setHosts">>[1] = "setHosts"
        /\ es \in Seq(E)
    BY DEF VmCreate, NodeUp
  <1>3. ds \in Seq(D) /\ Len(ds) = 7 /\ ds[1] = "create" /\ ds[7] = "setHosts"
    <2> DEFINE x == VmCreate \o <<"start">>
               y == x \o NodeUp
               z == <<"setHosts">>
    <2>0. /\ VmCreate \in Seq(D) /\ NodeUp \in Seq(D) /\ <<"start">> \in Seq(D) /\ z \in Seq(D)
      BY <1>2
    <2>1. x \in Seq(D) /\ y \in Seq(D) /\ y \o z \in Seq(D)
      <3> HIDE DEF D, z
      <3> QED
        BY <2>0, ConcatIs
    <2>2. /\ Len(x) = Len(VmCreate) + Len(<<"start">>) /\ \A k \in 1..Len(VmCreate) : x[k] = VmCreate[k]
          /\ Len(y) = Len(x) + Len(NodeUp) /\ \A k \in 1..Len(x) : y[k] = x[k]
          /\ Len(y \o z) = Len(y) + Len(z) /\ \A k \in 1..Len(y) : (y \o z)[k] = y[k]
          /\ \A k \in 1..Len(z) : (y \o z)[k + Len(y)] = z[k]
      <3> HIDE DEF D, x, y, z
      <3> QED
        BY <2>0, <2>1, ConcatIs DEF x, y
    <2> HIDE DEF D, x, y, z
    <2>3. Len(x) = 4 /\ Len(y) = 6 /\ Len(y \o z) = 7 /\ Len(z) = 1
      BY <1>2, <2>2 DEF z
    <2>4. x[1] = "create" /\ y[1] = "create" /\ (y \o z)[1] = "create"
      BY <1>2, <2>2, <2>3
    <2>5. (y \o z)[7] = "setHosts"
      BY <1>2, <2>2, <2>3 DEF z
    <2> QED
      BY <2>1, <2>3, <2>4, <2>5 DEF x, y, z
  <1>4. /\ a \in Seq(About(D, {n})) /\ Len(a) = 7 /\ \A k \in 1..7 : a[k] = Instr(ds[k], n)
        /\ c \in Seq(About(E, {n}))
    <2> HIDE DEF ds, es, D, E
    <2>1. /\ a \in Seq(About(D, {n})) /\ Len(a) = Len(ds)
          /\ \A k \in 1..Len(ds) : a[k] = Instr(ds[k], n)
      BY <1>3, ProgramIs
    <2>2. c \in Seq(About(E, {n}))
      BY <1>2, ProgramIs
    <2> QED
      BY <1>3, <2>1, <2>2
  <1>5. a[1] = Instr("create", n) /\ a[7] = Instr("setHosts", n)
    <2> HIDE DEF a, c, ds, es, D, E, n
    <2>1. a[1] = Instr(ds[1], n) /\ a[7] = Instr(ds[7], n)
      BY <1>4
    <2> QED
      BY <1>3, <2>1
  <1>6. peers \in Seq(A)
    BY SeqOfToSet, SeqMonotonic
  <1>7. b \in Seq(About({"setHosts"}, A)) /\ \A x \in ToSet(peers) : Ahead(b, "setHosts", x)
    BY <1>6, EachIs
  <1>8. AddToPeers(n, peers) = a \o b \o c
    BY DEF AddToPeers
  <1> HIDE DEF a, b, c, A, D, E, ds, es
  <1>9. a \in Seq(Scoped(w)) /\ b \in Seq(Scoped(w)) /\ c \in Seq(Scoped(w))
    <2>1. D \subseteq Verbs /\ E \subseteq Verbs /\ {"setHosts"} \subseteq Verbs
      BY DEF D, E, Verbs, Requests
    <2>2. {n} \subseteq Nodes /\ A \subseteq Nodes
      BY <1>1
    <2>3. \A d \in D \cup E : \A x \in {n} : Scope(w, Instr(d, x))
      BY <1>1 DEF D, E, Scope, Instr, A
    <2>4. \A d \in {"setHosts"} : \A x \in A : Scope(w, Instr(d, x))
      BY DEF Scope, Instr, A
    <2>5. a \in Seq(Scoped(w))
      BY <1>4, <2>1, <2>2, <2>3, AboutScoped
    <2>6. b \in Seq(Scoped(w))
      BY <1>7, <2>1, <2>2, <2>4, AboutScoped
    <2>7. c \in Seq(Scoped(w))
      BY <1>4, <2>1, <2>2, <2>3, AboutScoped
    <2> QED
      BY <2>5, <2>6, <2>7
  <1>10. /\ D \cap (Finds \cup {"erase", "ready", "join", "drop"}) = {}
         /\ {"setHosts"} \cap (Finds \cup {"erase", "ready", "join", "drop"}) = {}
         /\ E \cap (Finds \cup {"erase", "setHosts", "drop"}) = {}
    BY DEF D, E, Finds
  <1>11. /\ Ordered(a) /\ Ordered(b) /\ Ordered(c)
    <2>1. Ordered(a)
      BY <1>4, <1>10, OrderedPlain
    <2>2. Ordered(b)
      BY <1>7, <1>10, OrderedPlain
    <2>3. Ordered(c)
      BY <1>4, <1>10, OrderedPlain
    <2> QED
      BY <2>1, <2>2, <2>3
  <1>12. /\ Lacks(a, Finds \cup {"erase", "ready", "join", "drop"})
         /\ Lacks(b, Finds \cup {"erase", "ready", "join", "drop"})
         /\ Lacks(c, Finds \cup {"erase", "setHosts", "drop"})
    BY <1>4, <1>7, <1>10, LacksOthers
  <1>13. Ordered(a \o b) /\ a \o b \in Seq(Scoped(w)) /\ Lacks(a \o b, Finds \cup {"erase", "ready", "join", "drop"})
    <2>1. Lacks(a, Finds \cup {"erase"}) /\ Lacks(a, {"ready", "join"}) /\ Lacks(a, {"drop"})
      BY <1>12 DEF Lacks
    <2> QED
      BY <1>9, <1>11, <1>12, <2>1, OrderedConcat, LacksConcat, ConcatIs
  <1>14. Ordered(a \o b \o c) /\ a \o b \o c \in Seq(Scoped(w))
    <2>1. Lacks(a \o b, Finds \cup {"erase"}) /\ Lacks(a \o b, {"ready", "join"}) /\ Lacks(a \o b, {"drop"})
      BY <1>13 DEF Lacks
    <2> QED
      BY <1>9, <1>11, <1>13, <2>1, OrderedConcat, ConcatIs
  <1>16. ASSUME NEW x \in ToSet(peers) \cup {n} PROVE Ahead(a \o b \o c, "setHosts", x)
    <2>1. Ahead(a, "setHosts", n)
      BY <1>4, <1>5 DEF Ahead
    <2>2. Ahead(a \o b, "setHosts", x)
      BY <1>7, <1>9, <2>1, AheadConcat
    <2> QED
      BY <1>9, <1>13, <2>2, AheadConcat
  <1>17. ASSUME NEW S PROVE Guarded(a \o b \o c, S)
    <2>1. Guarded(a, S)
      <3> SUFFICES ASSUME NEW k \in 1..7, a[k].do \in Touches
                   PROVE  \E j \in 1..(k - 1) : a[j] = Instr("create", a[k].node)
        BY <1>4 DEF Guarded
      <3>1. a[k].node = n /\ a[k].do = ds[k]
        BY <1>4 DEF Instr
      <3>2. k # 1
        BY <1>3, <3>1 DEF Touches, Requests
      <3> QED
        BY <1>5, <3>1, <3>2
    <2>2. \A k \in 1..Len(b) : b[k].do \notin Touches
      <3>1. \A k \in 1..Len(b) : b[k] \in About({"setHosts"}, A)
        BY <1>7
      <3>2. \A k \in 1..Len(b) : b[k].do = "setHosts"
        BY <3>1 DEF About
      <3> QED
        BY <3>2 DEF Touches, Requests
    <2>3. \A k \in 1..Len(c) : c[k].do \notin Touches
      <3>1. \A k \in 1..Len(c) : c[k] \in About(E, {n})
        BY <1>4
      <3>2. \A k \in 1..Len(c) : c[k].do \in E
        BY <3>1 DEF About
      <3> QED
        BY <3>2 DEF Touches, Requests, E
    <2>4. Guarded(a \o b, S)
      BY <1>9, <2>1, <2>2, GuardedConcat
    <2> QED
      BY <1>9, <1>13, <2>3, <2>4, GuardedConcat
  <1> QED
    BY <1>8, <1>14, <1>16, <1>17

LEMMA DeleteVmIs ==
    ASSUME NEW w, NEW A \in SUBSET Nodes, NEW ns \in Seq(A),
           \/ w.kind = "delete"
           \/ w.kind = "deleteNode" /\ A \subseteq {w.node}
    PROVE  LET p == DeleteVm(ns)
           IN  /\ p \in Seq(Scoped(w)) /\ Ordered(p)
               /\ Lacks(p, Finds \cup {"erase", "drop", "ready", "join", "remove", "unhost"})
               /\ \A n \in ToSet(ns) : Ahead(p, "delete", n)
               /\ \A S : A \cap S = {} => Guarded(p, S)
  <1> DEFINE D == {"shutdown", "down", "delete"}
             a == Each("shutdown", ns)
             b == Each("down", ns)
             c == Each("delete", ns)
             T == Seq(About(D, A))
  <1>1. a \in T /\ b \in T /\ c \in T /\ \A n \in ToSet(ns) : Ahead(c, "delete", n)
    <2>1. \A d \in D : Each(d, ns) \in Seq(About(D, A)) /\ \A n : Ahead(Each(d, ns), d, n) <=> n \in ToSet(ns)
      BY EachIs
    <2> QED
      BY <2>1
  <1>2. DeleteVm(ns) = a \o b \o c
    BY DEF DeleteVm
  <1> HIDE DEF a, b, c
  <1>3. a \o b \o c \in T /\ \A n \in ToSet(ns) : Ahead(a \o b \o c, "delete", n)
    BY <1>1, ConcatIs, AheadConcat
  <1> DEFINE p == a \o b \o c
  <1> HIDE DEF p
  <1>4. p \in Seq(About(D, A))
    BY <1>3 DEF p
  <1>5. D \cap (Finds \cup {"erase", "drop", "ready", "join", "remove", "unhost"}) = {} /\ D \subseteq Verbs
    BY DEF Finds, Verbs, Requests
  <1>6. \A d \in D : \A n \in A : Scope(w, Instr(d, n))
    BY DEF Scope, Instr
  <1> HIDE DEF D
  <1>7. p \in Seq(Scoped(w))
    BY <1>4, <1>5, <1>6, AboutScoped
  <1>8. Lacks(p, Finds \cup {"erase", "drop", "ready", "join", "remove", "unhost"})
    BY <1>4, <1>5, LacksOthers
  <1>9. Ordered(p)
    <2>1. D \cap (Finds \cup {"erase"}) = {} /\ D \cap {"ready", "join"} = {} /\ "drop" \notin D
      BY <1>5
    <2> QED
      BY <1>4, <2>1, OrderedPlain
  <1>10. \A S : A \cap S = {} => Guarded(p, S)
    BY <1>4, GuardedPlain
  <1> QED
    BY <1>2, <1>3, <1>7, <1>8, <1>9, <1>10 DEF p

LEMMA DeleteVmsAre ==
    ASSUME NEW w, w.kind = "delete", NEW A \in SUBSET Nodes, NEW ns \in Seq(A), AnyNode \in Nodes
    PROVE  LET p == DeleteVms(ns)
           IN  /\ p \in Seq(Scoped(w)) /\ Ordered(p)
               /\ \A n \in ToSet(ns) : Ahead(p, "delete", n)
               /\ \A S : A \cap S = {} => Guarded(p, S)
  <1> DEFINE a == DeleteVm(ns)
             i == Instr("erase", AnyNode)
             b == <<i>>
  <1>1. DeleteVms(ns) = a \o b
    BY DEF DeleteVms
  <1>2. /\ a \in Seq(Scoped(w)) /\ Ordered(a)
        /\ Lacks(a, Finds \cup {"erase"}) /\ Lacks(a, {"ready", "join"}) /\ Lacks(a, {"drop"})
        /\ \A n \in ToSet(ns) : Ahead(a, "delete", n)
        /\ \A S : A \cap S = {} => Guarded(a, S)
    BY DeleteVmIs DEF Lacks
  <1>3. i \in Scoped(w) /\ i.do = "erase"
    BY DEF Scoped, Scope, Instruction, Instr, Verbs
  <1> HIDE DEF a, i
  <1>4. b \in Seq(Scoped(w)) /\ Len(b) = 1 /\ b[1] = i
    BY <1>3
  <1>5. Ordered(b)
    BY <1>3, <1>4 DEF Ordered, Finds
  <1>6. \A k \in 1..Len(b) : b[k].do \notin Touches
    BY <1>3, <1>4 DEF Touches, Requests
  <1> HIDE DEF b
  <1>7. Ordered(a \o b) /\ a \o b \in Seq(Scoped(w))
    <2>1. Lacks(b, {"setHosts"}) /\ Lacks(b, {"delete"})
      BY <1>3, <1>4 DEF Lacks
    <2> QED
      BY <1>2, <1>4, <1>5, <2>1, OrderedConcat, ConcatIs
  <1>8. \A n \in ToSet(ns) : Ahead(a \o b, "delete", n)
    BY <1>2, <1>4, AheadConcat
  <1>9. \A S : A \cap S = {} => Guarded(a \o b, S)
    BY <1>2, <1>4, <1>6, GuardedConcat
  <1> QED
    BY <1>1, <1>7, <1>8, <1>9

LEMMA DetachNodeIs ==
    ASSUME NEW w, w.kind = "deleteNode", w.node \in Nodes, NEW m \in Nodes
    PROVE  LET p == DetachNode(w.node, m)
           IN  /\ p \in Seq(Scoped(w)) /\ Ordered(p) /\ ~Lacks(p, {"remove"}) /\ Lacks(p, {"drop", "unhost", "delete"})
               /\ \A S : Guarded(p, S)
  <1> DEFINE i1 == Instr("drain", m)
             i2 == Instr("ssh", w.node)
             i3 == Instr("remove", m)
             i4 == Instr("findAgain", w.node)
             p  == <<i1, i2, i3, i4>>
  <1>1. DetachNode(w.node, m) = p
    BY DEF DetachNode
  <1>2. /\ i1 \in Scoped(w) /\ i2 \in Scoped(w) /\ i3 \in Scoped(w) /\ i4 \in Scoped(w)
        /\ i1.do = "drain" /\ i2.do = "ssh" /\ i3.do = "remove" /\ i4.do = "findAgain"
    BY DEF Scoped, Scope, Instruction, Instr, Verbs, Finds
  <1> HIDE DEF i1, i2, i3, i4
  <1>3. p \in Seq(Scoped(w))
    BY <1>2
  <1>4. /\ Len(p) = 4 /\ p[1].do = "drain" /\ p[2].do = "ssh" /\ p[3].do = "remove" /\ p[4].do = "findAgain"
    BY <1>2
  <1> HIDE DEF p
  <1>5. \A k \in 1..Len(p) : k \in {1, 2, 3, 4}
    BY <1>4
  <1>6. Ordered(p) /\ ~Lacks(p, {"remove"}) /\ Lacks(p, {"drop", "unhost", "delete"})
    BY <1>4, <1>5 DEF Ordered, Finds, Lacks
  <1>7. \A S : Guarded(p, S)
    BY <1>4, <1>5 DEF Guarded, Touches, Requests
  <1> QED
    BY <1>1, <1>3, <1>6, <1>7

LEMMA ForgetNodeIs ==
    ASSUME NEW w, w.kind = "deleteNode", w.node \in Nodes
    PROVE  LET p == ForgetNode(w.node)
           IN  /\ p \in Seq(Scoped(w)) /\ Ordered(p) /\ Lacks(p, {"setHosts", "delete", "unhost"})
               /\ \A k \in 1..Len(p) : p[k].do \notin Touches
  <1> DEFINE i1 == Instr("drop", w.node)
             i2 == Instr("findRest", w.node)
             p  == <<i1, i2>>
  <1>1. ForgetNode(w.node) = p
    BY DEF ForgetNode
  <1>2. /\ i1 \in Scoped(w) /\ i2 \in Scoped(w) /\ i1.do = "drop" /\ i2.do = "findRest"
    BY DEF Scoped, Scope, Instruction, Instr, Verbs, Finds
  <1> HIDE DEF i1, i2
  <1>3. p \in Seq(Scoped(w)) /\ Len(p) = 2 /\ p[1].do = "drop" /\ p[2].do = "findRest"
    BY <1>2
  <1> HIDE DEF p
  <1>4. \A k \in 1..Len(p) : k \in {1, 2}
    BY <1>3
  <1>5. Ordered(p) /\ Lacks(p, {"setHosts", "delete", "unhost"}) /\ \A k \in 1..Len(p) : p[k].do \notin Touches
    BY <1>3, <1>4 DEF Ordered, Finds, Lacks, Touches, Requests
  <1> QED
    BY <1>1, <1>3, <1>5

\* What follows a second look at the VM of a node
LEMMA FindAgainIs ==
    ASSUME NEW w, w.kind = "deleteNode", w.node \in Nodes, NEW ns \in Seq({w.node})
    PROVE  LET p == DeleteVm(ns) \o ForgetNode(w.node)
           IN  /\ p \in Seq(Scoped(w)) /\ Ordered(p)
               /\ Lacks(p, {"unhost"}) /\ \A n \in ToSet(ns) : Ahead(p, "delete", n)
               /\ \A S : w.node \notin S => Guarded(p, S)
  <1> DEFINE a == DeleteVm(ns)
             b == ForgetNode(w.node)
  <1>1. /\ a \in Seq(Scoped(w)) /\ Ordered(a)
        /\ Lacks(a, Finds \cup {"erase"}) /\ Lacks(a, {"ready", "join"}) /\ Lacks(a, {"drop"})
        /\ Lacks(a, {"unhost"})
        /\ \A n \in ToSet(ns) : Ahead(a, "delete", n)
        /\ \A S : w.node \notin S => Guarded(a, S)
    <2>1. {w.node} \in SUBSET Nodes
      OBVIOUS
    <2>2. \A S : w.node \notin S => {w.node} \cap S = {}
      OBVIOUS
    <2> QED
      BY <2>1, <2>2, DeleteVmIs DEF Lacks
  <1>2. /\ b \in Seq(Scoped(w)) /\ Ordered(b) /\ Lacks(b, {"setHosts"}) /\ Lacks(b, {"delete"})
        /\ Lacks(b, {"unhost"})
        /\ \A k \in 1..Len(b) : b[k].do \notin Touches
    BY ForgetNodeIs DEF Lacks
  <1> HIDE DEF a, b
  <1>3. Ordered(a \o b) /\ a \o b \in Seq(Scoped(w))
    BY <1>1, <1>2, OrderedConcat, ConcatIs
  <1>4. \A n \in ToSet(ns) : Ahead(a \o b, "delete", n)
    BY <1>1, <1>2, AheadConcat
  <1>5. \A S : w.node \notin S => Guarded(a \o b, S)
    BY <1>1, <1>2, GuardedConcat
  <1>6. Lacks(a \o b, {"unhost"})
    BY <1>1, <1>2, LacksConcat
  <1> QED
    BY <1>3, <1>4, <1>5, <1>6 DEF a, b

LEMMA UnhostIs ==
    ASSUME NEW w, w.kind = "deleteNode", NEW ns \in Seq(Nodes)
    PROVE  LET p == Each("unhost", ns)
           IN  p \in Seq(Scoped(w)) /\ Ordered(p) /\ Lacks(p, {"drop"}) /\ \A S : Guarded(p, S)
  <1> DEFINE p == Each("unhost", ns)
  <1>1. p \in Seq(About({"unhost"}, Nodes))
    BY EachIs
  <1>2. {"unhost"} \subseteq Verbs /\ \A d \in {"unhost"} : \A n \in Nodes : Scope(w, Instr(d, n))
    BY DEF Verbs, Scope, Instr
  <1>3. {"unhost"} \cap (Finds \cup {"erase"}) = {} /\ {"unhost"} \cap {"drop"} = {} /\ {"unhost"} \cap Touches = {}
    BY DEF Finds, Touches, Requests
  <1> HIDE DEF p
  <1>4. p \in Seq(Scoped(w))
    BY <1>1, <1>2, AboutScoped
  <1>5. Lacks(p, {"drop"}) /\ \A S : Guarded(p, S)
    BY <1>1, <1>3, LacksOthers, GuardedPlain
  <1>6. Ordered(p)
    <2>1. "drop" \notin {"unhost"} /\ "setHosts" \notin {"unhost"}
      OBVIOUS
    <2> QED
      BY <1>1, <1>3, <2>1, OrderedPlain
  <1> QED
    BY <1>4, <1>5, <1>6 DEF p

LEMMA ChangeResourcesIs ==
    ASSUME NEW w, NEW n \in Nodes
    PROVE  ChangeResources(n) \in Seq(Scoped(w)) /\ Ordered(ChangeResources(n))
  <1>1. /\ <<"config">> \in Seq(Free) /\ VmStop \in Seq(Free) /\ <<"start">> \in Seq(Free)
    BY DEF Free, VmStop
  <1>2. <<"config">> \o VmStop \o <<"start">> \in Seq(Free)
    <2> HIDE DEF Free
    <2> QED
      BY <1>1, ConcatIs
  <1>3. ChangeResources(n) \in Seq(About(Free, {n}))
    BY <1>2, ProgramIs DEF ChangeResources
  <1> QED
    BY <1>3, FreeProgram

-----------------------------------------------------------------------------
(* Steps, by what they do to the program that runs and to what it works on *)

Verb == Head(worker.todo).do

\* The instruction at hand is done, and q comes first now.
Moves(q) ==
    /\ Busy /\ worker.todo # <<>> /\ Busy'
    /\ worker'.kind = worker.kind /\ worker'.node = worker.node /\ worker'.copy = worker.copy
    /\ worker'.todo = q \o Tail(worker.todo)

Kept == UNCHANGED <<vm, members, record, overlooked, demolished, strangers>>

\* The use case ends, in one way or another.
Halts == worker' = Idle /\ Kept

\* What makes a VM stop, and start again
Again == {"stop", "again", "halted", "shutdown", "halt", "start", "up"}

Waits ==
    /\ Kept
    /\ Verb \notin Requests \cup Finds \cup {"setHosts", "ready", "join", "remove", "unhost", "drop", "erase"}
    /\ \E q \in Seq(About(Again, {Node})) :
          Moves(q) /\ (q = <<>> \/ Reachable(Node) \/ Verb \in Touches)

Asks ==
    /\ Busy /\ worker.todo # <<>> /\ Verb \in Requests
    /\ \E a \in Answers(Verb, vm[Node], Node) :
          /\ vm' = [vm EXCEPT ![Node] = a.vm]
          /\ worker' = Idle \/ (a.ok /\ Moves(<<>>))
    /\ UNCHANGED <<members, record, overlooked, demolished, strangers>>

Looks ==
    /\ Verb \in Finds /\ Moves(Then(Verb, Node)) /\ worker'.todo = Then(Verb, Node)
    /\ overlooked' = IF Verb \in {"findAll", "findNode", "findAgain"}
                     THEN overlooked \cup {n \in Nodes : InCreation(n)} ELSE overlooked
    /\ UNCHANGED <<vm, members, record, demolished, strangers>>

\* A command changes the hosts and the MicroK8s of a VM.
HostsOf(v) ==
    \/ v.hosts = vm[Node].hosts
    \/ /\ Verb = "setHosts"
       /\ vm[Node].hosts \subseteq v.hosts /\ v.hosts \subseteq vm[Node].hosts \cup Nodes
    \/ Verb = "unhost" /\ v.hosts = vm[Node].hosts \ Matched[worker.node]

MembersOf ==
    \/ UNCHANGED members
    \/ Verb = "ready" /\ worker.kind = "create" /\ members' = {Node}
    \/ Verb = "join" /\ members' = members \cup {Node}
    \/ Verb = "remove" /\ members' = members \ {worker.node}

Commands ==
    /\ Busy /\ worker.todo # <<>> /\ Reachable(Node)
    /\ Verb \in {"up", "reboot", "ssh", "drain", "setHosts", "unhost", "install", "ready", "join", "remove"}
    /\ \E v \in VM :
          /\ vm' = [vm EXCEPT ![Node] = v]
          /\ v.owner = Node /\ v.state = "running" /\ v.task = vm[Node].task
          /\ HostsOf(v)
          /\ \/ worker' = Idle
             \/ /\ Moves(<<>>)
                /\ Verb = "setHosts" => ToSet(worker.copy) \subseteq v.hosts
                /\ Verb = "remove" => worker.node \notin members'
    /\ MembersOf
    /\ UNCHANGED <<record, overlooked, demolished, strangers>>

Handles ==
    /\ \/ UNCHANGED record
       \/ record = NoRecord /\ record' \in Initials
       \/ /\ record # NoRecord
          /\ \E n \in Nodes : n \notin ToSet(record) /\ record' = Append(record, n)
    /\ UNCHANGED <<vm, members, worker, overlooked, demolished, strangers>>

Begins ==
    /\ worker = Idle /\ \E e \in Events :
          /\ CanBegin(e)
          /\ worker' = [kind |-> e.kind, node |-> e.node, copy |-> record, used |-> {}, todo |-> Begin(e)]
          /\ demolished' = (demolished \/ e.kind = "delete")
    /\ strangers' = {n \in Nodes : vm[n] # NoVM /\ vm[n].owner = Foreign}
    /\ UNCHANGED <<vm, members, record, overlooked>>

\* It cannot begin.
Declines ==
    /\ worker' = Idle
    /\ strangers' = {n \in Nodes : vm[n] # NoVM /\ vm[n].owner = Foreign}
    /\ UNCHANGED <<vm, members, record, overlooked, demolished>>

Drops ==
    /\ Verb = "drop" /\ Moves(<<>>) /\ record' = Others(record, Node)
    /\ UNCHANGED <<vm, members, overlooked, demolished, strangers>>

Erases ==
    /\ Verb = "erase" /\ Moves(<<>>) /\ record' = NoRecord
    /\ UNCHANGED <<vm, members, overlooked, demolished, strangers>>

Drifting ==
    /\ \E n \in Nodes : \E v \in Drifts(vm[n]) :
          vm' = [vm EXCEPT ![n] = v] /\ strangers' = strangers \ {n}
    /\ UNCHANGED <<members, record, worker, overlooked, demolished>>

LEMMA BusyIs ==
    ASSUME TypeInv, worker # Idle, worker.todo # <<>>
    PROVE  /\ Busy /\ Head(worker.todo) \in Instruction /\ Node \in Nodes /\ Verb \in Verbs
           /\ Tail(worker.todo) \in Seq(Instruction)
  <1>1. Busy /\ worker.todo \in Seq(Instruction)
    BY DEF TypeInv, Busy, Workers
  <1>2. Head(worker.todo) \in Instruction /\ Tail(worker.todo) \in Seq(Instruction)
    BY <1>1, TailIs
  <1> QED
    BY <1>1, <1>2 DEF Instruction, Verb, Node

LEMMA GotoMoves ==
    ASSUME TypeInv, worker # Idle, worker.todo # <<>>, NEW q \in Seq(Instruction),
           worker' = [worker EXCEPT !.todo = q \o Tail(worker.todo)]
    PROVE  Moves(q)
  <1>1. Busy /\ Tail(worker.todo) \in Seq(Instruction)
    BY BusyIs
  <1> DEFINE p == q \o Tail(worker.todo)
  <1>2. p \in Seq(Instruction)
    BY <1>1, ConcatIs
  <1> HIDE DEF p
  <1>3. worker' = [worker EXCEPT !.todo = p]
    BY DEF p
  <1>4. /\ worker' \in Workers /\ worker'.kind = worker.kind /\ worker'.node = worker.node
        /\ worker'.copy = worker.copy /\ worker'.todo = p
    BY <1>1, <1>2, <1>3 DEF Busy, Workers
  <1> QED
    BY <1>1, <1>4 DEF Moves, Busy, p

LEMMA EmptyIs ==
    ASSUME NEW A
    PROVE  <<>> \in Seq(A) /\ \A p \in Seq(A) : <<>> \o p = p
  OBVIOUS

LEMMA ProceedMoves ==
    ASSUME TypeInv, worker # Idle, worker.todo # <<>>, Proceed
    PROVE  Moves(<<>>) /\ UNCHANGED <<status, failed>>
  <1>1. Tail(worker.todo) \in Seq(Instruction)
    BY BusyIs
  <1>2. Tail(worker.todo) = <<>> \o Tail(worker.todo) /\ <<>> \in Seq(Instruction)
    BY <1>1, EmptyIs
  <1>3. worker' = [worker EXCEPT !.todo = Tail(worker.todo)] /\ UNCHANGED <<status, failed>>
    BY DEF Proceed, Goto, Rest
  <1> DEFINE p == Tail(worker.todo)
  <1> HIDE DEF p
  <1>4. worker' = [worker EXCEPT !.todo = p] /\ p = <<>> \o Tail(worker.todo)
    BY <1>2, <1>3 DEF p
  <1>5. worker' = [worker EXCEPT !.todo = <<>> \o Tail(worker.todo)]
    BY <1>4
  <1> QED
    BY <1>2, <1>3, <1>5, GotoMoves

\* The requests
LEMMA RequestAsks ==
    ASSUME TypeInv, Request
    PROVE  Asks
  <1>1. PICK d \in Requests :
          /\ Current(d)
          /\ \E a \in Answers(d, vm[Node], Node) :
                /\ vm' = [vm EXCEPT ![Node] = a.vm]
                /\ IF a.ok THEN Proceed ELSE Abort
    BY DEF Request
  <1>2. worker # Idle /\ worker.todo # <<>> /\ Verb = d
    BY <1>1 DEF Current, Verb
  <1>3. PICK a \in Answers(d, vm[Node], Node) :
          vm' = [vm EXCEPT ![Node] = a.vm] /\ IF a.ok THEN Proceed ELSE Abort
    BY <1>1
  <1>4. worker' = Idle \/ (a.ok /\ Moves(<<>>))
    BY <1>2, <1>3, ProceedMoves DEF Abort
  <1> QED
    BY <1>2, <1>3, <1>4, BusyIs DEF Asks, Request

LEMMA WaitsOn ==
    ASSUME TypeInv, Kept, worker # Idle, worker.todo # <<>>, Proceed,
           Verb \notin Requests \cup Finds \cup {"setHosts", "ready", "join", "remove", "unhost", "drop", "erase"}
    PROVE  Waits
  <1>1. Moves(<<>>) /\ <<>> \in Seq(About(Again, {Node}))
    BY ProceedMoves
  <1> QED
    BY <1>1 DEF Waits

LEMMA WaitsLonger ==
    ASSUME TypeInv, Kept, worker # Idle, worker.todo # <<>>,
           Verb \notin Requests \cup Finds \cup {"setHosts", "ready", "join", "remove", "unhost", "drop", "erase"},
           NEW ds \in Seq(Again), Goto(Program(ds, Node) \o Rest), Reachable(Node) \/ Verb \in Touches
    PROVE  Waits
  <1> DEFINE q == Program(ds, Node)
  <1>1. q \in Seq(About(Again, {Node}))
    BY ProgramIs
  <1>2. Node \in Nodes /\ Again \subseteq Verbs /\ {Node} \subseteq Nodes
    BY BusyIs DEF Again, Verbs, Requests
  <1>3. q \in Seq(About(Verbs, Nodes))
    BY <1>1, <1>2, AboutMore
  <1>4. Moves(q)
    <2>1. worker' = [worker EXCEPT !.todo = q \o Tail(worker.todo)]
      BY DEF Goto, Rest
    <2>2. q \in Seq(Instruction)
      BY <1>3 DEF About, Instruction
    <2> HIDE DEF q
    <2> QED
      BY <2>1, <2>2, GotoMoves
  <1> HIDE DEF q
  <1> QED
    BY <1>1, <1>4 DEF Waits

\* What only looks, and waits
LEMMA WaitsWait ==
    ASSUME TypeInv, UsedIds \/ CheckUnused \/ WaitUnlocked \/ WaitDown \/ WaitStopped \/ Reboot
    PROVE  Waits \/ Halts
  <1> DEFINE Other == Requests \cup Finds
                      \cup {"setHosts", "ready", "join", "remove", "unhost", "drop", "erase"}
  <1>1. \A d : Current(d) => worker # Idle /\ worker.todo # <<>> /\ Verb = d
    BY DEF Current, Verb
  <1>2. {"usedIds", "unused", "unlocked", "down", "again", "halt", "halted", "reboot"} \cap Other = {}
    BY DEF Requests, Finds
  <1>3. Unchanged => Kept
    BY DEF Unchanged, Kept
  <1>4. Abort /\ Kept => Halts
    BY DEF Abort, Halts
  <1> HIDE DEF Other
  <1>5. CASE UsedIds
    <2>1. Kept /\ worker # Idle /\ worker.todo # <<>> /\ Verb \notin Other
      BY <1>1, <1>2, <1>3, <1>5 DEF UsedIds
    <2>2. CASE Abort
      BY <1>4, <2>1, <2>2
    <2>3. CASE worker' = [worker EXCEPT !.todo = Rest, !.used = {n \in Nodes : Listed(vm[n])}]
      <3>1. Busy /\ Tail(worker.todo) \in Seq(Instruction)
        BY <2>1, BusyIs
      <3> DEFINE p == Tail(worker.todo)
                 u == {n \in Nodes : Listed(vm[n])}
      <3>2. p \in Seq(Instruction) /\ u \in SUBSET Nodes
        BY <3>1
      <3>3. worker' = [worker EXCEPT !.todo = p, !.used = u]
        BY <2>3 DEF Rest
      <3> HIDE DEF p, u
      <3>4. /\ worker' \in Workers /\ worker'.kind = worker.kind /\ worker'.node = worker.node
            /\ worker'.copy = worker.copy /\ worker'.todo = p
        BY <3>1, <3>2, <3>3 DEF Busy, Workers
      <3>5. p = <<>> \o Tail(worker.todo)
        BY <3>1, EmptyIs DEF p
      <3>6. Moves(<<>>)
        BY <2>1, <3>1, <3>4, <3>5 DEF Moves, Busy
      <3>7. <<>> \in Seq(About(Again, {Node}))
        BY EmptyIs
      <3> QED
        BY <2>1, <3>6, <3>7 DEF Waits, Other
    <2> QED
      BY <1>5, <2>2, <2>3 DEF UsedIds
  <1>6. CASE CheckUnused
    <2>1. Kept /\ worker # Idle /\ worker.todo # <<>> /\ Verb \notin Other
      BY <1>1, <1>2, <1>3, <1>6 DEF CheckUnused
    <2>2. Abort \/ Proceed
      BY <1>6 DEF CheckUnused
    <2> QED
      BY <1>4, <2>1, <2>2, WaitsOn DEF Other
  <1>7. CASE WaitUnlocked
    <2>1. Kept /\ worker # Idle /\ worker.todo # <<>> /\ Verb \notin Other
      BY <1>1, <1>2, <1>3, <1>7 DEF WaitUnlocked
    <2>2. Abort \/ Proceed
      BY <1>7 DEF WaitUnlocked
    <2> QED
      BY <1>4, <2>1, <2>2, WaitsOn DEF Other
  <1>8. CASE WaitDown
    <2>1. PICK w \in {<<"down", "again">>, <<"halt", "halted">>} :
             /\ Current(w[1])
             /\ \/ Usable(vm[Node]) /\ ~Running(vm[Node]) /\ Proceed
                \/ Running(vm[Node]) /\ Goto(Program(<<"stop", w[2]>>, Node) \o Rest)
                \/ Abort
      BY <1>8 DEF WaitDown
    <2>2. w[1] \in {"down", "halt"} /\ w[2] \in {"again", "halted"}
      OBVIOUS
    <2>3. Kept
      BY <1>3, <1>8 DEF WaitDown
    <2>4. worker # Idle /\ worker.todo # <<>> /\ Verb = w[1]
      BY <1>1, <2>1
    <2>5. Verb \notin Other /\ Verb \in Touches
      BY <1>2, <2>2, <2>4 DEF Touches
    <2>6. CASE Proceed
      BY <2>3, <2>4, <2>5, <2>6, WaitsOn DEF Other
    <2>7. CASE Abort
      BY <1>4, <2>3, <2>7
    <2>8. CASE Goto(Program(<<"stop", w[2]>>, Node) \o Rest)
      <3>1. <<"stop", w[2]>> \in Seq(Again)
        BY <2>2 DEF Again
      <3> QED
        BY <2>3, <2>4, <2>5, <2>8, <3>1, WaitsLonger DEF Other
    <2> QED
      BY <2>1, <2>6, <2>7, <2>8
  <1>9. CASE WaitStopped
    <2>1. Kept /\ worker # Idle /\ worker.todo # <<>> /\ Verb \notin Other
      BY <1>1, <1>2, <1>3, <1>9 DEF WaitStopped
    <2>2. Abort \/ Proceed
      BY <1>9 DEF WaitStopped
    <2> QED
      BY <1>4, <2>1, <2>2, WaitsOn DEF Other
  <1>10. CASE Reboot
    <2>1. Kept /\ worker # Idle /\ worker.todo # <<>> /\ Verb \notin Other
      BY <1>1, <1>2, <1>3, <1>10 DEF Reboot
    <2>2. Reachable(Node) /\ Goto(Program(VmStop \o <<"start", "up">>, Node) \o Rest)
      BY <1>10 DEF Reboot
    <2>3. VmStop \in Seq(Again) /\ <<"start", "up">> \in Seq(Again)
      BY DEF Again, VmStop
    <2>4. VmStop \o <<"start", "up">> \in Seq(Again)
      BY <2>3, ConcatIs
    <2> QED
      BY <2>1, <2>2, <2>4, WaitsLonger DEF Other
  <1> QED
    BY <1>5, <1>6, <1>7, <1>8, <1>9, <1>10

LEMMA ExistingAre ==
    ASSUME NEW ns \in Seq(Nodes)
    PROVE  /\ Existing(ns) \in Seq(Nodes)
           /\ Existing(ns) \in Seq({n \in Nodes : Named(vm[n], n)})
           /\ \A n \in ToSet(ns) : Named(vm[n], n) => n \in ToSet(Existing(ns))
           /\ ToSet(Existing(ns)) \subseteq ToSet(ns)
  <1> DEFINE S == {n \in Nodes : Named(vm[n], n)}
             p == Only(ns, S)
  <1>1. p \in Seq(Nodes) /\ ToSet(p) = ToSet(ns) \cap S
    BY OnlyProperties
  <1>2. p \in Seq(S)
    <2> HIDE DEF p, S
    <2>1. p \in Seq(ToSet(p)) /\ ToSet(p) \subseteq S
      BY <1>1, SeqOfToSet
    <2> QED
      BY <2>1, SeqMonotonic
  <1>3. ToSet(ns) \subseteq Nodes
    BY InToSet
  <1> QED
    BY <1>1, <1>2, <1>3 DEF Existing

\* What follows a search
LEMMA ThenIs ==
    ASSUME TypeInv, ShapeInv, worker # Idle, worker.todo # <<>>, Verb \in Finds, AnyNode \in Nodes,
           record # NoRecord \/ worker.kind # "deleteNode"
    PROVE  LET p == Then(Verb, Node)
           IN  /\ p \in Seq(Scoped(worker)) /\ Ordered(p)
               /\ Verb = "findAll" => \A n \in ToSet(Existing(worker.copy)) : Ahead(p, "delete", n)
               /\ Verb = "findPeers" =>
                      \A n \in ToSet(Existing(worker.copy)) \cup {Node} : Ahead(p, "setHosts", n)
               /\ Verb = "findNode" =>
                      /\ ExistsVm(Node) => ~Lacks(p, {"remove"}) /\ Lacks(p, {"drop", "unhost", "delete"})
                      /\ ~ExistsVm(Node) => Lacks(p, {"unhost"})
               /\ Verb = "findAgain" => (ExistsVm(Node) => Ahead(p, "delete", Node)) /\ Lacks(p, {"unhost"})
               /\ Verb = "findRest" => Lacks(p, {"drop"})
               /\ \A S : (\A n \in S : ~Named(vm[n], n)) => Guarded(p, S)
  <1> DEFINE p == Then(Verb, Node)
             w == worker
  <1>1. Busy /\ Node \in Nodes /\ Head(w.todo) \in Scoped(w) /\ w.copy \in Seq(Nodes) /\ w.node \in Nodes
    <2>1. Busy /\ Node \in Nodes
      BY BusyIs
    <2>2. w.todo \in Seq(Scoped(w))
      BY <2>1 DEF ShapeInv, Shaped
    <2>3. Head(w.todo) \in Scoped(w)
      BY <2>2, TailIs
    <2> QED
      BY <2>1, <2>3 DEF Busy, Workers
  <1>2. Scope(w, Head(w.todo))
    BY <1>1 DEF Scoped
  <1>3. /\ Verb = "findAll" => w.kind = "delete"
        /\ Verb = "findPeers" => w.kind = "add" /\ Node = w.node
        /\ Verb \in {"findNode", "findAgain", "findRest"} => w.kind = "deleteNode" /\ Node = w.node
    BY <1>2 DEF Scope, Verb, Node
  <1>4. /\ w.kind = "add" => w.node \in ToSet(w.copy)
        /\ w.kind = "deleteNode" => HasMaster(w.copy, w.node)
    BY <1>1 DEF ShapeInv, Shaped
  <1> DEFINE ns == Existing(w.copy)
             L  == {n \in Nodes : Named(vm[n], n)}
  <1>5. /\ ns \in Seq(Nodes) /\ ns \in Seq(L) /\ ToSet(ns) \subseteq ToSet(w.copy)
        /\ \A n \in ToSet(w.copy) : Named(vm[n], n) => n \in ToSet(ns)
    BY <1>1, ExistingAre
  <1>6. \A S : (\A n \in S : ~Named(vm[n], n)) => L \cap S = {}
    OBVIOUS
  <1>7. L \in SUBSET Nodes
    OBVIOUS
  <1> HIDE DEF ns, L
  <1>8. CASE Verb = "findAll"
    <2>1. p = DeleteVms(ns)
      BY <1>8 DEF Then, ns
    <2>2. w.kind = "delete"
      BY <1>3, <1>8
    <2> HIDE DEF w, p
    <2>3. /\ p \in Seq(Scoped(w)) /\ Ordered(p)
          /\ \A n \in ToSet(ns) : Ahead(p, "delete", n)
          /\ \A S : L \cap S = {} => Guarded(p, S)
      BY <1>5, <1>7, <2>1, <2>2, DeleteVmsAre
    <2> QED
      BY <1>6, <1>8, <2>3 DEF p, w, ns
  <1>9. CASE Verb = "findPeers"
    <2> DEFINE ps == Others(ns, Node)
    <2>1. p = AddToPeers(w.node, ps)
      BY <1>3, <1>9 DEF Then, ns
    <2>2. w.kind = "add" /\ Node = w.node
      BY <1>3, <1>9
    <2>3. ps \in Seq(Nodes) /\ ToSet(ps) = ToSet(ns) \ {Node}
      BY <1>5, OthersAre
    <2> HIDE DEF w, p, ps
    <2>4. /\ p \in Seq(Scoped(w)) /\ Ordered(p)
          /\ \A S : Guarded(p, S)
          /\ \A n \in ToSet(ps) \cup {w.node} : Ahead(p, "setHosts", n)
      BY <1>1, <1>4, <1>5, <2>1, <2>2, <2>3, AddToPeersIs
    <2> QED
      BY <1>9, <2>2, <2>3, <2>4 DEF p, w, ns
  <1>10. CASE Verb = "findNode"
    <2>1. w.kind = "deleteNode" /\ Node = w.node
      BY <1>3, <1>10
    <2>2. CASE ExistsVm(Node)
      <3> DEFINE m == Master(w.copy, Node)
      <3>1. p = DetachNode(w.node, m)
        BY <2>1, <2>2, <1>10 DEF Then
      <3>2. m \in Nodes
        BY <1>1, <1>4, <2>1, MasterIsNode, InToSet
      <3> HIDE DEF w, p, m
      <3>3. /\ p \in Seq(Scoped(w)) /\ Ordered(p) /\ ~Lacks(p, {"remove"}) /\ Lacks(p, {"drop", "unhost", "delete"})
            /\ \A S : Guarded(p, S)
        BY <1>1, <2>1, <3>1, <3>2, DetachNodeIs
      <3> QED
        BY <1>10, <2>2, <3>3 DEF p, w
    <2>3. CASE ~ExistsVm(Node)
      <3>1. p = ForgetNode(w.node)
        BY <2>1, <2>3, <1>10 DEF Then
      <3> HIDE DEF w, p
      <3>2. /\ p \in Seq(Scoped(w)) /\ Ordered(p) /\ Lacks(p, {"setHosts", "delete", "unhost"})
            /\ \A k \in 1..Len(p) : p[k].do \notin Touches
        BY <1>1, <2>1, <3>1, ForgetNodeIs
      <3>3. Lacks(p, {"unhost"}) /\ \A S : Guarded(p, S)
        BY <3>2 DEF Lacks, Guarded
      <3> QED
        BY <1>10, <2>3, <3>2, <3>3 DEF p, w
    <2> QED
      BY <2>2, <2>3
  <1>11. CASE Verb = "findAgain"
    <2> DEFINE v == IF ExistsVm(Node) THEN <<Node>> ELSE <<>>
    <2>1. w.kind = "deleteNode" /\ Node = w.node
      BY <1>3, <1>11
    <2>2. p = DeleteVm(v) \o ForgetNode(w.node)
      BY <2>1, <1>11 DEF Then
    <2>3. v \in Seq({w.node}) /\ (ExistsVm(Node) => Node \in ToSet(v))
      <3> DEFINE x == Node
      <3>1. w.node = x
        BY <2>1
      <3> HIDE DEF x, w
      <3>2. <<x>> \in Seq({x}) /\ x \in ToSet(<<x>>) /\ <<>> \in Seq({x})
        BY DEF ToSet
      <3> QED
        BY <3>1, <3>2 DEF x
    <2>4. ~ExistsVm(Node) => v = <<>>
      OBVIOUS
    <2> HIDE DEF w, p, v
    <2>5. /\ p \in Seq(Scoped(w)) /\ Ordered(p) /\ Lacks(p, {"unhost"})
          /\ \A n \in ToSet(v) : Ahead(p, "delete", n)
          /\ \A S : w.node \notin S => Guarded(p, S)
      BY <1>1, <2>1, <2>2, <2>3, FindAgainIs
    <2>6. ASSUME NEW S, \A n \in S : ~Named(vm[n], n) PROVE Guarded(p, S)
      <3>1. CASE w.node \notin S
        BY <2>5, <3>1
      <3>2. CASE ~ExistsVm(Node)
        <4>1. v \in Seq({})
          BY <2>4, <3>2, EmptyIs
        <4>2. \A k \in 1..Len(p) : p[k].do \notin Touches
          <5>1. DeleteVm(<<>>) = <<>>
            BY DEF DeleteVm, Each
          <5>2. p = <<>> \o ForgetNode(w.node)
            BY <2>2, <2>4, <3>2, <5>1
          <5>3. /\ ForgetNode(w.node) \in Seq(Scoped(w))
                /\ \A k \in 1..Len(ForgetNode(w.node)) : ForgetNode(w.node)[k].do \notin Touches
            BY <1>1, <2>1, ForgetNodeIs
          <5>4. p = ForgetNode(w.node)
            BY <5>2, <5>3, EmptyIs
          <5> QED
            BY <5>3, <5>4
        <4> QED
          BY <4>2 DEF Guarded
      <3> QED
        BY <2>1, <2>6, <3>1, <3>2 DEF ExistsVm
    <2> QED
      BY <1>11, <2>3, <2>5, <2>6 DEF p, w
  <1>12. CASE Verb = "findRest"
    <2>1. w.kind = "deleteNode" /\ Node = w.node
      BY <1>3, <1>12
    <2>2. p = Each("unhost", Existing(record))
      BY <1>12 DEF Then
    <2>3. record \in Seq(Nodes)
      BY <2>1 DEF TypeInv
    <2>4. Existing(record) \in Seq(Nodes)
      BY <2>3, ExistingAre
    <2> HIDE DEF w, p
    <2>5. p \in Seq(Scoped(w)) /\ Ordered(p) /\ Lacks(p, {"drop"}) /\ \A S : Guarded(p, S)
      BY <2>1, <2>2, <2>4, UnhostIs
    <2> QED
      BY <1>12, <2>5 DEF p, w
  <1> QED
    BY <1>8, <1>9, <1>10, <1>11, <1>12 DEF Finds

LEMMA FindLooks ==
    ASSUME TypeInv, ShapeInv, AnyNode \in Nodes, record # NoRecord \/ worker.kind # "deleteNode", Find
    PROVE  Looks
  <1>1. PICK d \in Finds :
          /\ Current(d)
          /\ Goto(Then(d, Node) \o Rest)
          /\ overlooked' = IF d \in {"findAll", "findNode", "findAgain"}
                           THEN overlooked \cup {n \in Nodes : InCreation(n)}
                           ELSE overlooked
    BY DEF Find, Finds
  <1>2. worker # Idle /\ worker.todo # <<>> /\ Verb = d
    BY <1>1 DEF Current, Verb
  <1> DEFINE p == Then(Verb, Node)
  <1>3. p \in Seq(Scoped(worker))
    BY <1>2, ThenIs
  <1>4. p \in Seq(Instruction)
    <2> HIDE DEF p
    <2>1. Scoped(worker) \subseteq Instruction
      BY DEF Scoped
    <2> QED
      BY <1>3, <2>1, SeqMonotonic
  <1>5. Tail(worker.todo) = <<>>
    <2>1. Busy
      BY <1>2, BusyIs
    <2>2. worker.todo \in Seq(Instruction) /\ Ordered(worker.todo)
      BY <2>1 DEF ShapeInv, Shaped, Busy, Workers
    <2>3. Head(worker.todo).do \in Finds \cup {"erase"}
      BY <1>2 DEF Verb
    <2> QED
      BY <1>2, <2>2, <2>3, OrderedTail
  <1>6. worker' = [worker EXCEPT !.todo = p \o Tail(worker.todo)]
    BY <1>1, <1>2 DEF Goto, Rest
  <1> HIDE DEF p
  <1>7. Moves(p)
    BY <1>2, <1>4, <1>6, GotoMoves
  <1>8. worker'.todo = p
    <2>1. worker'.todo = p \o <<>>
      BY <1>5, <1>7 DEF Moves
    <2> QED
      BY <1>4, <2>1
  <1>9. UNCHANGED <<vm, members, record, demolished, strangers>>
    BY DEF Find
  <1> QED
    BY <1>1, <1>2, <1>7, <1>8, <1>9 DEF Looks, p

LEMMA RunCommands ==
    ASSUME TypeInv, VmInv, NEW d, NEW v, NEW ms, Run(d, v, ms),
           d \in {"up", "reboot", "ssh", "drain", "setHosts", "unhost", "install", "ready", "join", "remove"},
           Reachable(Node) => /\ v \in VM /\ v.owner = vm[Node].owner
                              /\ v.state = vm[Node].state /\ v.task = vm[Node].task
                              /\ HostsOf(v),
           members' = ms => MembersOf,
           d = "setHosts" => ToSet(worker.copy) \subseteq v.hosts,
           d = "remove" => worker.node \notin ms
    PROVE  Commands \/ Halts
  <1>1. worker # Idle /\ worker.todo # <<>> /\ Verb = d
    BY DEF Run, Current, Verb
  <1>2. CASE Abort /\ UNCHANGED <<vm, members>>
    BY <1>2 DEF Halts, Kept, Abort, Run
  <1>3. CASE /\ Reachable(Node)
             /\ vm' = [vm EXCEPT ![Node] = v]
             /\ members' = ms
             /\ Proceed \/ Abort
    <2>1. v \in VM /\ v.owner = Node /\ v.state = "running" /\ v.task = vm[Node].task /\ HostsOf(v)
      BY <1>3 DEF Reachable, Running
    <2>2. worker' = Idle \/ Moves(<<>>)
      BY <1>1, <1>3, ProceedMoves DEF Abort
    <2>3. UNCHANGED <<record, overlooked, demolished, strangers>>
      BY DEF Run
    <2>4. Busy /\ MembersOf
      BY <1>1, <1>3, BusyIs
    <2> QED
      BY <1>1, <1>3, <2>1, <2>2, <2>3, <2>4 DEF Commands
  <1> QED
    BY <1>2, <1>3 DEF Run

\* The commands over SSH
LEMMA SshCommands ==
    ASSUME TypeInv, VmInv, Ssh, ~Reboot
    PROVE  Commands \/ Halts
  <1> DEFINE V == vm[Node]
  <1>1. \A d : Current(d) => worker # Idle /\ worker.todo # <<>> /\ Verb = d
    BY DEF Current, Verb
  <1>2. worker # Idle /\ worker.todo # <<>> => Node \in Nodes /\ Busy
    BY BusyIs
  <1>3. Busy => worker.copy \in Seq(Nodes) /\ ToSet(worker.copy) \subseteq Nodes
    BY InToSet DEF Busy, Workers
  <1>4. Node \in Nodes /\ Reachable(Node) => V \in VM /\ V.owner = Node /\ V.state = "running"
    BY DEF TypeInv, Reachable, Running
  <1>5. ASSUME NEW d \in {"up", "reboot", "ssh", "drain"}, Plain(d)
        PROVE  Commands \/ Halts
    <2>1. Run(d, V, members)
      BY <1>5 DEF Plain
    <2>2. Node \in Nodes
      BY <1>1, <1>2, <2>1 DEF Run
    <2>3. Reachable(Node) => /\ V \in VM /\ V.owner = vm[Node].owner /\ V.state = vm[Node].state
                             /\ V.task = vm[Node].task /\ HostsOf(V)
      BY <1>4, <2>2 DEF HostsOf
    <2>4. members' = members => MembersOf
      BY DEF MembersOf
    <2> HIDE DEF V
    <2>5. d # "setHosts" /\ d # "remove"
          /\ d \in {"up", "reboot", "ssh", "drain", "setHosts", "unhost", "install", "ready", "join", "remove"}
      OBVIOUS
    <2> QED
      BY <2>1, <2>3, <2>4, <2>5, RunCommands
  <1>6. CASE SetHosts
    <2> DEFINE C == ToSet(worker.copy)
               v == [V EXCEPT !.hosts = @ \cup C]
    <2>1. Current("setHosts")
      BY <1>6 DEF SetHosts, Run
    <2>2. Node \in Nodes /\ Verb = "setHosts" /\ Busy /\ worker.todo # <<>> /\ C \subseteq Nodes
      BY <1>1, <1>2, <1>3, <2>1
    <2>3. \/ Run("setHosts", v, members)
          \/ /\ Reachable(Node)
             /\ \E some \in SUBSET C : vm' = [vm EXCEPT ![Node].hosts = @ \cup some]
             /\ Abort
             /\ UNCHANGED <<members, record, queue, bounds, overlooked, demolished, strangers>>
      BY <1>6 DEF SetHosts
    <2> HIDE DEF C
    <2>4. CASE Run("setHosts", v, members)
      <3>1. Reachable(Node) => /\ v \in VM /\ v.owner = vm[Node].owner /\ v.state = vm[Node].state
                               /\ v.task = vm[Node].task /\ HostsOf(v) /\ C \subseteq v.hosts
        BY <1>4, <2>2 DEF HostsOf, VM
      <3>2. members' = members => MembersOf
        BY DEF MembersOf
      <3>3. CASE Reachable(Node)
        <4> HIDE DEF V, v
        <4> QED
          BY <2>2, <2>4, <3>1, <3>2, <3>3, RunCommands DEF C
      <3>4. CASE ~Reachable(Node)
        BY <2>4, <3>4 DEF Run, Halts, Abort, Kept
      <3> QED
        BY <3>3, <3>4
    <2>5. CASE /\ Reachable(Node)
               /\ \E some \in SUBSET C : vm' = [vm EXCEPT ![Node].hosts = @ \cup some]
               /\ Abort
               /\ UNCHANGED <<members, record, queue, bounds, overlooked, demolished, strangers>>
      <3>1. PICK some \in SUBSET C : vm' = [vm EXCEPT ![Node].hosts = @ \cup some]
        BY <2>5
      <3> DEFINE u == [V EXCEPT !.hosts = @ \cup some]
      <3>2. u \in VM /\ u.owner = Node /\ u.state = "running" /\ u.task = V.task /\ HostsOf(u)
        BY <1>4, <2>2, <2>5 DEF HostsOf, VM
      <3>3. vm' = [vm EXCEPT ![Node] = u]
        BY <3>1
      <3>4. worker' = Idle /\ MembersOf
        BY <2>5 DEF Abort, MembersOf
      <3> HIDE DEF u
      <3> QED
        BY <2>2, <2>5, <3>2, <3>3, <3>4 DEF Commands
    <2> QED
      BY <2>3, <2>4, <2>5
  <1>7. CASE RemoveHosts
    <2> DEFINE v == [V EXCEPT !.hosts = @ \ Matched[worker.node]]
    <2>1. Run("unhost", v, members)
      BY <1>7 DEF RemoveHosts
    <2>2. Node \in Nodes /\ Verb = "unhost"
      BY <1>1, <1>2, <2>1 DEF Run
    <2>3. Reachable(Node) => /\ v \in VM /\ v.owner = vm[Node].owner /\ v.state = vm[Node].state
                             /\ v.task = vm[Node].task /\ HostsOf(v)
      BY <1>4, <2>2 DEF HostsOf, VM
    <2>4. members' = members => MembersOf
      BY DEF MembersOf
    <2> HIDE DEF V, v
    <2> QED
      BY <2>1, <2>3, <2>4, RunCommands
  <1>8. CASE Install
    <2> DEFINE v == [V EXCEPT !.kube = "installed"]
    <2>1. Run("install", v, members)
      BY <1>8 DEF Install
    <2>2. Node \in Nodes
      BY <1>1, <1>2, <2>1 DEF Run
    <2>3. Reachable(Node) => /\ v \in VM /\ v.owner = vm[Node].owner /\ v.state = vm[Node].state
                             /\ v.task = vm[Node].task /\ HostsOf(v)
      BY <1>4, <2>2 DEF HostsOf, VM
    <2>4. members' = members => MembersOf
      BY DEF MembersOf
    <2> HIDE DEF V, v
    <2> QED
      BY <2>1, <2>3, <2>4, RunCommands
  <1>9. CASE WaitReady
    <2> DEFINE v == [V EXCEPT !.kube = "ready"]
               M == worker.kind = "create" /\ Node = Master(worker.copy, Foreign)
               ms == IF M THEN {Node} ELSE members
    <2>1. Run("ready", v, ms)
      BY <1>9 DEF WaitReady
    <2>2. Node \in Nodes /\ Verb = "ready"
      BY <1>1, <1>2, <2>1 DEF Run
    <2>3. Reachable(Node) => /\ v \in VM /\ v.owner = vm[Node].owner /\ v.state = vm[Node].state
                             /\ v.task = vm[Node].task /\ HostsOf(v)
      BY <1>4, <2>2 DEF HostsOf, VM
    <2>4. members' = ms => MembersOf
      BY <2>2 DEF MembersOf
    <2> HIDE DEF V, v, ms
    <2> QED
      BY <2>1, <2>3, <2>4, RunCommands
  <1>10. CASE Join
    <2> DEFINE ms == members \cup {Node}
    <2>1. Verb = "join" /\ worker # Idle /\ worker.todo # <<>>
      BY <1>1, <1>10 DEF Join
    <2>2. CASE Abort /\ Unchanged
      BY <2>2 DEF Abort, Unchanged, Halts, Kept
    <2>3. CASE Run("join", V, ms)
      <3>1. Node \in Nodes
        BY <1>2, <2>1
      <3>2. Reachable(Node) => /\ V \in VM /\ V.owner = vm[Node].owner /\ V.state = vm[Node].state
                               /\ V.task = vm[Node].task /\ HostsOf(V)
        BY <1>4, <3>1 DEF HostsOf
      <3>3. members' = ms => MembersOf
        BY <2>1 DEF MembersOf
      <3> HIDE DEF V, ms
      <3> QED
        BY <2>3, <3>2, <3>3, RunCommands
    <2> QED
      BY <1>10, <2>2, <2>3 DEF Join
  <1>11. CASE RemoveNode
    <2> DEFINE ms == members \ {worker.node}
    <2>1. Run("remove", V, ms)
      BY <1>11 DEF RemoveNode
    <2>2. Node \in Nodes /\ Verb = "remove"
      BY <1>1, <1>2, <2>1 DEF Run
    <2>3. Reachable(Node) => /\ V \in VM /\ V.owner = vm[Node].owner /\ V.state = vm[Node].state
                             /\ V.task = vm[Node].task /\ HostsOf(V)
      BY <1>4, <2>2 DEF HostsOf
    <2>4. (members' = ms => MembersOf) /\ worker.node \notin ms
      BY <2>2 DEF MembersOf
    <2> HIDE DEF V, ms
    <2> QED
      BY <2>1, <2>3, <2>4, RunCommands
  <1> QED
    BY <1>5, <1>6, <1>7, <1>8, <1>9, <1>10, <1>11 DEF Ssh

LEMMA StepCases ==
    ASSUME BaseInv, [Next]_vars
    PROVE  \/ Handles \/ Begins \/ Declines \/ Halts \/ Waits \/ Asks \/ Looks \/ Commands
           \/ Drops \/ Erases \/ Drifting
  <1> USE DEF BaseInv
  <1>1. CASE UNCHANGED vars
    BY <1>1 DEF vars, state, history, Handles
  <1>2. CASE Call
    <2>1. PICK k, n : k \in Kinds /\ Handle(k, n) /\ (k = "add" => n \in Nodes)
      BY <1>2 DEF Call, Kinds
    <2>2. UNCHANGED <<vm, members, worker, overlooked, demolished, strangers>>
      BY <2>1 DEF Handle, history
    <2>3. \/ UNCHANGED record
          \/ record = NoRecord /\ record' \in Initials
          \/ k = "add" /\ record # NoRecord /\ n \notin ToSet(record) /\ record' = Append(record, n)
      BY <2>1 DEF Handle, Kinds
    <2> QED
      BY <2>1, <2>2, <2>3 DEF Handles
  <1>3. CASE Receive
    <2> DEFINE e == Head(queue)
    <2>1. e \in Events /\ worker = Idle
      BY <1>3 DEF TypeInv, Receive
    <2>2. CASE CanBegin(e)
      <3>1. /\ worker' = [kind |-> e.kind, node |-> e.node, copy |-> record, used |-> {}, todo |-> Begin(e)]
            /\ demolished' = (demolished \/ e.kind = "delete")
        BY <1>3, <2>2 DEF Receive
      <3>2. /\ strangers' = {n \in Nodes : vm[n] # NoVM /\ vm[n].owner = Foreign}
            /\ UNCHANGED <<vm, members, record, overlooked>>
        BY <1>3 DEF Receive
      <3> HIDE DEF e
      <3> QED
        BY <2>1, <2>2, <3>1, <3>2 DEF Begins
    <2>3. CASE ~CanBegin(e)
      BY <1>3, <2>3 DEF Receive, Abort, Declines
    <2> QED
      BY <2>2, <2>3
  <1>4. CASE Step
    <2>1. AnyNode \in Nodes
      <3>1. worker # Idle => worker.node \in Nodes
        BY DEF TypeInv, Workers
      <3>2. worker # Idle
        BY <1>4 DEF Step, Finish, Request, UsedIds, CheckUnused, WaitUnlocked, WaitDown, WaitStopped,
              Find, FindFails, Ssh, Plain, Run, Reboot, SetHosts, RemoveHosts, Install, WaitReady, Join,
              RemoveNode, DropNode, Erase, Current
      <3> QED
        BY <3>1, <3>2 DEF AnyNode
    <2>2. CASE Finish
      BY <2>2 DEF Finish, Halts, Kept, history
    <2>3. CASE Request
      BY <2>3, RequestAsks
    <2>4. CASE UsedIds \/ CheckUnused \/ WaitUnlocked \/ WaitDown \/ WaitStopped
      BY <2>4, WaitsWait
    <2>5. CASE Find
      <3>1. worker # Idle
        BY <2>5 DEF Find, Current
      <3>2. record # NoRecord \/ worker.kind # "deleteNode"
        BY <3>1 DEF RecordInv, TypeInv, Busy
      <3> QED
        BY <2>1, <2>5, <3>2, FindLooks
    <2>6. CASE FindFails
      BY <2>6 DEF FindFails, Abort, Unchanged, Halts, Kept
    <2>7. CASE Ssh
      BY <2>7, SshCommands, WaitsWait
    <2>8. CASE DropNode
      <3>1. worker # Idle /\ worker.todo # <<>> /\ Verb = "drop" /\ Proceed
        BY <2>8 DEF DropNode, Current, Verb
      <3> QED
        BY <2>8, <3>1, ProceedMoves DEF DropNode, Drops
    <2>9. CASE Erase
      <3>1. worker # Idle /\ worker.todo # <<>> /\ Verb = "erase" /\ Proceed
        BY <2>9 DEF Erase, Current, Verb
      <3> QED
        BY <2>9, <3>1, ProceedMoves DEF Erase, Erases
    <2> QED
      BY <1>4, <2>2, <2>3, <2>4, <2>5, <2>6, <2>7, <2>8, <2>9 DEF Step
  <1>5. CASE Drift
    BY <1>5 DEF Drift, Drifting
  <1>6. CASE Crash
    BY <1>6 DEF Crash, Halts, Kept
  <1> QED
    BY <1>1, <1>2, <1>3, <1>4, <1>5, <1>6 DEF Next

-----------------------------------------------------------------------------
(* Types and shapes *)

\* What no program depends on
LEMMA PlainTypes ==
    ASSUME BaseInv, [Next]_vars
    PROVE  /\ status' \in Statuses /\ queue' \in Seq(Events)
           /\ calls' \in 0..Calls /\ crashes' \in 0..Crashes
           /\ overlooked' \subseteq Nodes /\ strangers' \subseteq Nodes
           /\ demolished' \in BOOLEAN /\ failed' \in BOOLEAN
  <1> USE BoundAssumption DEF BaseInv
  <1> DEFINE Typed == /\ status' \in Statuses /\ queue' \in Seq(Events)
                      /\ calls' \in 0..Calls /\ crashes' \in 0..Crashes
                      /\ overlooked' \subseteq Nodes /\ strangers' \subseteq Nodes
                      /\ demolished' \in BOOLEAN /\ failed' \in BOOLEAN
  <1>0. /\ status \in Statuses /\ queue \in Seq(Events)
        /\ calls \in 0..Calls /\ crashes \in 0..Crashes
        /\ overlooked \subseteq Nodes /\ strangers \subseteq Nodes
        /\ demolished \in BOOLEAN /\ failed \in BOOLEAN
    BY DEF TypeInv
  <1>1. CASE UNCHANGED vars
    BY <1>0, <1>1 DEF vars, state, bounds, history
  <1>2. CASE Call
    <2>1. PICK k, n : /\ k \in Kinds /\ Handle(k, n)
                      /\ n \in Nodes \/ (n = AnyNode /\ k \in {"create", "delete"})
      BY <1>2 DEF Call, Kinds
    <2>2. n \in Nodes
      <3>1. CASE k = "create" /\ n = AnyNode
        <4>1. record' \in Initials
          BY <2>1, <3>1 DEF Handle
        <4>2. PICK m \in Masters : m \in ToSet(record') /\ record' \in Seq(Nodes)
          BY <4>1, InitialAssumption
        <4>3. m \in Nodes
          BY <4>2, InToSet
        <4> QED
          BY <3>1, <4>3 DEF AnyNode
      <3>2. CASE k = "delete" /\ n = AnyNode
        <4>1. record # NoRecord /\ record \in Seq(Nodes) /\ HasMaster(record, Foreign)
          BY <2>1, <3>2 DEF Handle, RecordInv, KeepsMaster, TypeInv
        <4>2. \E m \in Nodes : TRUE
          BY <4>1 DEF HasMaster
        <4> QED
          BY <3>2, <4>2 DEF AnyNode
      <3> QED
        BY <2>1, <3>1, <3>2
    <2>3. queue' = Append(queue, [kind |-> k, node |-> n]) /\ calls' = calls + 1 /\ calls < Calls
      BY <2>1 DEF Handle
    <2>4. [kind |-> k, node |-> n] \in Events
      BY <2>1, <2>2 DEF Events
    <2>5. queue' \in Seq(Events)
      <3> DEFINE e == [kind |-> k, node |-> n]
      <3> HIDE DEF e
      <3> QED
        BY <1>0, <2>3, <2>4 DEF e
    <2>6. status' \in Statuses
      BY <1>0, <2>1 DEF Handle, Kinds, Statuses
    <2>7. UNCHANGED <<crashes, overlooked, strangers, demolished, failed>>
      BY <2>1 DEF Handle, history
    <2> QED
      BY <1>0, <2>3, <2>5, <2>6, <2>7
  <1>3. CASE Receive
    <2>1. queue' \in Seq(Events) /\ Head(queue) \in Events
      BY <1>0, <1>3 DEF Receive
    <2>2. status' \in Statuses /\ demolished' \in BOOLEAN /\ failed' \in BOOLEAN
      BY <1>0, <1>3 DEF Receive, Abort, Statuses
    <2>3. strangers' \subseteq Nodes /\ UNCHANGED <<calls, crashes, overlooked>>
      BY <1>3 DEF Receive, bounds
    <2> QED
      BY <1>0, <2>1, <2>2, <2>3
  <1>4. CASE Step
    <2>1. UNCHANGED <<queue, bounds, demolished, strangers>>
      BY <1>4 DEF Step, Finish, Request, UsedIds, CheckUnused, WaitUnlocked, WaitDown, WaitStopped,
            Find, FindFails, Ssh, Plain, Run, Reboot, SetHosts, RemoveHosts, Install, WaitReady, Join,
            RemoveNode, DropNode, Erase, Unchanged, history
    <2>2. overlooked' \subseteq Nodes
      BY <1>0, <1>4 DEF Step, Finish, Request, UsedIds, CheckUnused, WaitUnlocked, WaitDown, WaitStopped,
            Find, FindFails, Ssh, Plain, Run, Reboot, SetHosts, RemoveHosts, Install, WaitReady, Join,
            RemoveNode, DropNode, Erase, Unchanged, history
    <2>3. \/ UNCHANGED <<status, failed>>
          \/ status' \in {status, "Error", "Sync"} /\ failed' \in {failed, TRUE}
      BY <1>4 DEF Step, Finish, Request, UsedIds, CheckUnused, WaitUnlocked, WaitDown, WaitStopped,
            Find, FindFails, Ssh, Plain, Run, Reboot, SetHosts, RemoveHosts, Install, WaitReady, Join,
            RemoveNode, DropNode, Erase, Unchanged, history, Goto, Proceed, Abort
    <2> QED
      BY <1>0, <2>1, <2>2, <2>3 DEF bounds, Statuses
  <1>5. CASE Drift
    BY <1>0, <1>5 DEF Drift, bounds
  <1>6. CASE Crash
    BY <1>0, <1>6 DEF Crash
  <1> QED
    BY <1>1, <1>2, <1>3, <1>4, <1>5, <1>6 DEF Next

\* What becomes of a VM by a request
LEMMA AnswerIs ==
    ASSUME NEW v \in VM \cup {NoVM}, NEW d \in Requests, NEW n \in Nodes, NEW a \in Answers(d, v, n)
    PROVE  /\ a.vm \in VM \cup {NoVM}
           /\ d = "delete" /\ a.ok => a.vm.task = "delete"
           /\ \/ a.vm = v
              \/ d = "create" /\ v = NoVM /\ a.vm = NewVM(n)
              \/ /\ v # NoVM /\ v.state = "running" /\ a.vm.task \in {"shutdown", "stop"}
                 /\ a.vm = [v EXCEPT !.task = a.vm.task]
              \/ /\ v # NoVM /\ v.state = "stopped" /\ v.task = "none"
                 /\ a.vm.task = d /\ d \in {"start", "delete"}
                 /\ a.vm = [v EXCEPT !.task = a.vm.task]
  <1> USE DEF Done, Refused, Answer, NoVM
  <1>0. v # NoVM => v \in VM
    OBVIOUS
  <1>1. CASE d = "create"
    <2>1. a \in CreateVM(v, n)
      BY <1>1 DEF Answers
    <2>2. v = NoVM => NewVM(n) \in VM
      BY DEF NewVM, VM
    <2> QED
      BY <1>1, <2>1, <2>2 DEF CreateVM
  <1>2. CASE d \in {"resize", "config"}
    <2>1. a \in Configure(v)
      BY <1>2 DEF Answers
    <2> QED
      BY <1>2, <2>1 DEF Configure, Accepted
  <1>3. CASE d = "start"
    <2>1. a \in StartVM(v)
      BY <1>3 DEF Answers
    <2> QED
      BY <1>0, <1>3, <2>1 DEF StartVM, Task, AtRest, Usable, VM
  <1>4. CASE d = "delete"
    <2>1. a \in DeleteVM(v)
      BY <1>4 DEF Answers
    <2> QED
      BY <1>0, <1>4, <2>1 DEF DeleteVM, Task, AtRest, Usable, VM
  <1>5. CASE d = "shutdown"
    <2>1. a \in ShutdownVM(v)
      BY <1>5 DEF Answers
    <2>2. CASE Running(v)
      BY <1>0, <1>5, <2>1, <2>2 DEF ShutdownVM, Task, Running, VM
    <2>3. CASE ~Running(v)
      BY <1>5, <2>1, <2>3 DEF ShutdownVM, Configure, Accepted
    <2> QED
      BY <2>2, <2>3
  <1>6. CASE d = "stop"
    <2>1. a \in StopVM(v)
      BY <1>6 DEF Answers
    <2>2. CASE Running(v)
      BY <1>0, <1>6, <2>1, <2>2 DEF StopVM, Task, Running, VM
    <2>3. CASE ~Running(v)
      BY <1>6, <2>1, <2>3 DEF StopVM, Configure, Accepted
    <2> QED
      BY <2>2, <2>3
  <1> QED
    BY <1>1, <1>2, <1>3, <1>4, <1>5, <1>6 DEF Requests

\* What becomes of it by itself
LEMMA DriftIs ==
    ASSUME NEW v \in VM \cup {NoVM}, NEW w \in Drifts(v)
    PROVE  /\ w \in VM \cup {NoVM}
           /\ \/ v = NoVM /\ w = ForeignVM
              \/ w = NoVM /\ (v.state \in {"accepted", "locked"} \/ v.task = "delete" \/ v.owner = Foreign)
              \/ v # NoVM /\ v.state = "accepted" /\ w = [v EXCEPT !.state = "locked"]
              \/ v # NoVM /\ v.state = "locked" /\ w = [v EXCEPT !.state = "stopped"]
              \/ /\ v # NoVM /\ v.state \in {"stopped", "running"} /\ v.task # "delete"
                 /\ w.state \in {"stopped", "running"}
                 /\ w = [v EXCEPT !.state = w.state, !.task = "none"]
  <1>0. /\ v # NoVM => v \in VM /\ v.state \in {"accepted", "locked", "stopped", "running"}
                         /\ v.task \in {"none", "shutdown", "stop", "start", "delete"}
        /\ NoVM.state = "none" /\ ForeignVM \in VM
    BY DEF ForeignVM, NewVM, VM, NoVM
  <1>1. CASE v = NoVM
    <2>1. w = ForeignVM
      BY <1>0, <1>1 DEF Drifts
    <2> QED
      BY <1>0, <1>1, <2>1
  <1>2. CASE v # NoVM /\ v.state = "accepted"
    <2>1. w = NoVM \/ w = [v EXCEPT !.state = "locked"]
      BY <1>2 DEF Drifts
    <2>2. [v EXCEPT !.state = "locked"] \in VM
      BY <1>0, <1>2 DEF VM
    <2> QED
      BY <1>2, <2>1, <2>2
  <1>3. CASE v # NoVM /\ v.state = "locked"
    <2>1. w = NoVM \/ w = [v EXCEPT !.state = "stopped"]
      BY <1>3 DEF Drifts
    <2>2. [v EXCEPT !.state = "stopped"] \in VM
      BY <1>0, <1>3 DEF VM
    <2> QED
      BY <1>3, <2>1, <2>2
  <1>4. CASE v # NoVM /\ v.state \in {"stopped", "running"}
    <2>1. w \in Ended(v)
      BY <1>4 DEF Drifts
    <2>2. CASE v.task = "delete"
      BY <1>4, <2>1, <2>2 DEF Ended
    <2>3. CASE v.task = "start"
      <3>1. w = [v EXCEPT !.state = "running", !.task = "none"]
        BY <2>1, <2>3 DEF Ended
      <3>2. w \in VM /\ w.state = "running"
        BY <1>0, <1>4, <3>1 DEF VM
      <3> QED
        BY <1>4, <2>3, <3>1, <3>2
    <2>4. CASE v.task \in {"shutdown", "stop"}
      <3>1. w = [v EXCEPT !.state = "stopped", !.task = "none"]
        BY <2>1, <2>4 DEF Ended
      <3>2. w \in VM /\ w.state = "stopped"
        BY <1>0, <1>4, <3>1 DEF VM
      <3> QED
        BY <1>4, <2>4, <3>1, <3>2
    <2>5. CASE v.task = "none"
      BY <1>4, <2>1, <2>5 DEF Ended
    <2> QED
      BY <1>0, <1>4, <2>2, <2>3, <2>4, <2>5
  <1> QED
    BY <1>0, <1>1, <1>2, <1>3, <1>4

\* The type of a VM, and what VmInv says of it
VmOK(v) ==
    /\ v \in VM \cup {NoVM}
    /\ v # NoVM => /\ v.state \in {"accepted", "locked"} => v.task = "none"
                   /\ v.task = "delete" => v.state = "stopped"

LEMMA AnswerOK ==
    ASSUME NEW v, VmOK(v), NEW d \in Requests, NEW n \in Nodes, NEW a \in Answers(d, v, n)
    PROVE  VmOK(a.vm)
  <1> DEFINE w == a.vm
  <1> SUFFICES VmOK(w)
    OBVIOUS
  <1>1. /\ w \in VM \cup {NoVM}
        /\ \/ w = v
           \/ v = NoVM /\ w = NewVM(n)
           \/ /\ v # NoVM /\ v.state = "running" /\ w.task \in {"shutdown", "stop"}
              /\ w = [v EXCEPT !.task = w.task]
           \/ /\ v # NoVM /\ v.state = "stopped"
              /\ w = [v EXCEPT !.task = w.task]
    BY AnswerIs DEF VmOK
  <1>2. v # NoVM => v \in VM
    BY DEF VmOK
  <1> HIDE DEF w
  <1>3. CASE w = NewVM(n)
    BY <1>1, <1>3 DEF VmOK, NewVM
  <1>4. CASE v # NoVM /\ v.state \in {"running", "stopped"} /\ w = [v EXCEPT !.task = w.task]
             /\ (v.state = "running" => w.task \in {"shutdown", "stop"})
    <2>1. w.state = v.state
      BY <1>2, <1>4 DEF VM
    <2> QED
      BY <1>1, <1>4, <2>1 DEF VmOK
  <1> QED
    BY <1>1, <1>3, <1>4

LEMMA DriftOK ==
    ASSUME NEW v, VmOK(v), NEW w \in Drifts(v)
    PROVE  VmOK(w)
  <1>1. /\ w \in VM \cup {NoVM}
        /\ \/ v = NoVM /\ w = ForeignVM
           \/ w = NoVM
           \/ v # NoVM /\ v.state = "accepted" /\ w = [v EXCEPT !.state = "locked"]
           \/ v # NoVM /\ v.state = "locked" /\ w = [v EXCEPT !.state = "stopped"]
           \/ /\ v # NoVM /\ w.state \in {"stopped", "running"}
              /\ w = [v EXCEPT !.state = w.state, !.task = "none"]
    BY DriftIs DEF VmOK
  <1>2. v # NoVM => v \in VM
    BY DEF VmOK
  <1>3. w = ForeignVM => VmOK(w)
    BY <1>1 DEF VmOK, ForeignVM, NewVM
  <1>4. w = NoVM => VmOK(w)
    BY DEF VmOK
  <1>5. /\ v # NoVM /\ v.state = "accepted" /\ w = [v EXCEPT !.state = "locked"] =>
              w.task = v.task /\ w.state = "locked"
        /\ v # NoVM /\ v.state = "locked" /\ w = [v EXCEPT !.state = "stopped"] =>
              w.task = v.task /\ w.state = "stopped"
        /\ v # NoVM /\ w = [v EXCEPT !.state = w.state, !.task = "none"] => w.task = "none"
    BY <1>2 DEF VM
  <1>6. CASE v # NoVM /\ v.state \in {"accepted", "locked"} /\ w.task = v.task
             /\ w.state \in {"locked", "stopped"}
    BY <1>1, <1>6 DEF VmOK
  <1>7. CASE w.task = "none" /\ w.state \in {"stopped", "running"}
    BY <1>1, <1>7 DEF VmOK
  <1> QED
    BY <1>1, <1>3, <1>4, <1>5, <1>6, <1>7

LEMMA VmTypes ==
    ASSUME BaseInv, [Next]_vars
    PROVE  vm' \in [Nodes -> VM \cup {NoVM}] /\ VmInv'
  <1>1. vm \in [Nodes -> VM \cup {NoVM}] /\ \A n \in Nodes : VmOK(vm[n])
    BY DEF BaseInv, TypeInv, VmInv, VmOK
  <1>2. \/ UNCHANGED vm
        \/ \E n \in Nodes : \E v : VmOK(v) /\ vm' = [vm EXCEPT ![n] = v]
    <2>1. CASE Asks
      <3>1. Node \in Nodes /\ Verb \in Requests
        BY <2>1, BusyIs DEF Asks, BaseInv, Busy, Idle, Workers
      <3>2. PICK a \in Answers(Verb, vm[Node], Node) : vm' = [vm EXCEPT ![Node] = a.vm]
        BY <2>1 DEF Asks
      <3>3. VmOK(vm[Node])
        BY <1>1, <3>1
      <3>4. VmOK(a.vm)
        BY <3>1, <3>3, AnswerOK
      <3> QED
        BY <3>1, <3>2, <3>4
    <2>2. CASE Commands
      <3>1. Node \in Nodes
        BY <2>2, BusyIs DEF Commands, BaseInv, Busy, Idle, Workers
      <3>2. PICK v \in VM : /\ vm' = [vm EXCEPT ![Node] = v] /\ v.state = "running" /\ v.task = vm[Node].task
        BY <2>2 DEF Commands
      <3>3. VmOK(vm[Node]) /\ vm[Node] # NoVM /\ vm[Node].state = "running"
        BY <1>1, <2>2, <3>1 DEF Commands, Reachable, Running
      <3>4. VmOK(v)
        BY <3>2, <3>3 DEF VmOK
      <3> QED
        BY <3>1, <3>2, <3>4
    <2>3. CASE Drifting
      <3>0. PICK n \in Nodes : \E w \in Drifts(vm[n]) : vm' = [vm EXCEPT ![n] = w]
        BY <2>3 DEF Drifting
      <3>1. PICK w \in Drifts(vm[n]) : vm' = [vm EXCEPT ![n] = w]
        BY <3>0
      <3>2. VmOK(w)
        BY <1>1, DriftOK
      <3> QED
        BY <3>1, <3>2
    <2>4. Handles \/ Begins \/ Declines \/ Halts \/ Waits \/ Looks \/ Drops \/ Erases => UNCHANGED vm
      BY DEF Handles, Begins, Declines, Halts, Waits, Kept, Looks, Drops, Erases
    <2> QED
      BY <2>1, <2>2, <2>3, <2>4, StepCases
  <1>3. vm' \in [Nodes -> VM \cup {NoVM}] /\ \A n \in Nodes : VmOK(vm'[n])
    <2>1. CASE UNCHANGED vm
      BY <1>1, <2>1
    <2>2. ASSUME NEW n \in Nodes, NEW v, VmOK(v), vm' = [vm EXCEPT ![n] = v]
          PROVE  vm' \in [Nodes -> VM \cup {NoVM}] /\ \A m \in Nodes : VmOK(vm'[m])
      <3>1. v \in VM \cup {NoVM}
        BY <2>2 DEF VmOK
      <3>2. \A m \in Nodes : vm'[m] = IF m = n THEN v ELSE vm[m]
        BY <1>1, <2>2
      <3> QED
        BY <1>1, <2>2, <3>1, <3>2
    <2> QED
      BY <1>2, <2>1, <2>2
  <1> QED
    BY <1>3 DEF VmInv, VmOK

LEMMA IdleIs == Idle \notin Workers
  BY DEF Idle, Workers, Kinds

LEMMA OneInstruction ==
    ASSUME NEW w, NEW d \in Finds, NEW n \in Nodes, Scope(w, Instr(d, n))
    PROVE  LET p == <<Instr(d, n)>>
           IN  /\ p \in Seq(Scoped(w)) /\ Ordered(p) /\ ~Lacks(p, {d})
               /\ \A ds : d \notin ds => Lacks(p, ds)
               /\ \A S : Guarded(p, S)
  <1> DEFINE i == Instr(d, n)
             p == <<i>>
  <1>1. i \in Scoped(w) /\ i.do = d
    BY DEF Scoped, Instruction, Instr, Verbs
  <1> HIDE DEF i
  <1>2. p \in Seq(Scoped(w)) /\ Len(p) = 1 /\ p[1] = i
    BY <1>1
  <1> HIDE DEF p
  <1>3. \A k \in 1..Len(p) : k = 1
    BY <1>2
  <1>4. Ordered(p) /\ ~Lacks(p, {d}) /\ \A ds : d \notin ds => Lacks(p, ds)
    BY <1>1, <1>2, <1>3 DEF Ordered, Lacks
  <1>5. d \notin Touches
    BY DEF Finds, Touches, Requests
  <1>6. \A S : Guarded(p, S)
    BY <1>1, <1>2, <1>3, <1>5 DEF Guarded
  <1> QED
    BY <1>2, <1>4, <1>6 DEF p, i

\* The program of a use case that begins
LEMMA BeginIs ==
    ASSUME TypeInv, KeepsMaster, NEW e \in Events, CanBegin(e), NEW w,
           w = [kind |-> e.kind, node |-> e.node, copy |-> record, used |-> {}, todo |-> Begin(e)]
    PROVE  /\ w \in Workers /\ Shaped(w) /\ record # NoRecord
           /\ w.kind = e.kind /\ w.node = e.node /\ w.copy = record
           /\ w.kind = "create" => \A n \in ToSet(w.copy) : Ahead(w.todo, "setHosts", n)
           /\ w.kind = "add" => Lacks(w.todo, {"join"})
           /\ w.kind = "delete" => ~Lacks(w.todo, {"findAll"})
           /\ w.kind = "deleteNode" /\ w.todo # <<>> =>
                  ~Lacks(w.todo, {"findNode"}) /\ HasMaster(record, w.node)
           /\ Lacks(w.todo, {"drop", "unhost", "delete"})
           /\ w.kind # "change" => \A S : Guarded(w.todo, S)
  <1>1. record # NoRecord /\ record \in Seq(Nodes) /\ HasMaster(record, Foreign)
    BY DEF CanBegin, TypeInv, KeepsMaster
  <1>2. e.kind \in Kinds /\ e.node \in Nodes
    BY DEF Events
  <1>3. /\ w.kind = e.kind /\ w.node = e.node /\ w.copy = record /\ w.todo = Begin(e)
        /\ w = [kind |-> w.kind, node |-> w.node, copy |-> w.copy, used |-> {}, todo |-> w.todo]
    OBVIOUS
  <1>4. ASSUME w.todo \in Seq(Scoped(w)) PROVE w \in Workers
    <2>1. Scoped(w) \subseteq Instruction
      BY DEF Scoped
    <2>2. w.todo \in Seq(Instruction)
      BY <1>4, <2>1, SeqMonotonic
    <2>3. \A t \in Seq(Instruction) :
            [kind |-> w.kind, node |-> w.node, copy |-> w.copy, used |-> {}, todo |-> t] \in Workers
      BY <1>1, <1>2, <1>3 DEF Workers
    <2> QED
      BY <1>3, <2>2, <2>3
  <1>5. CASE e.kind = "create"
    <2>1. w.todo = CreateCluster(record)
      BY <1>3, <1>5 DEF Begin
    <2>2. /\ w.todo \in Seq(Scoped(w))
      BY <1>1, <1>3, <1>5, <2>1, CreateScope
    <2>3. /\ w.todo \in Seq(About(CreateVerbs, ToSet(record)))
          /\ Ordered(w.todo)
          /\ \A S : Guarded(w.todo, S)
          /\ \A n \in ToSet(record) : Ahead(w.todo, "setHosts", n)
      BY <1>1, <2>1, CreateClusterIs
    <2>4. CreateVerbs \cap {"drop", "unhost", "delete"} = {}
      BY DEF CreateVerbs
    <2>5. Lacks(w.todo, {"drop", "unhost", "delete"})
      BY <2>3, <2>4, LacksOthers
    <2> QED
      BY <1>1, <1>3, <1>4, <1>5, <2>2, <2>3, <2>5 DEF Shaped
  <1>6. CASE e.kind = "add"
    <2>1. w.todo = <<Instr("findPeers", e.node)>>
      BY <1>3, <1>6 DEF Begin, AddNode
    <2>2. e.node \in ToSet(record)
      BY <1>6 DEF CanBegin, LastNode
    <2>3. Scope(w, Instr("findPeers", e.node))
      BY <1>3, <1>6 DEF Scope, Instr
    <2>4. /\ w.todo \in Seq(Scoped(w)) /\ Ordered(w.todo)
          /\ \A ds : "findPeers" \notin ds => Lacks(w.todo, ds)
          /\ \A S : Guarded(w.todo, S)
      BY <1>2, <2>1, <2>3, OneInstruction DEF Finds
    <2> QED
      BY <1>1, <1>3, <1>4, <1>6, <2>2, <2>4 DEF Shaped
  <1>7. CASE e.kind = "delete"
    <2>1. w.todo = <<Instr("findAll", e.node)>>
      BY <1>3, <1>7 DEF Begin, DeleteCluster
    <2>2. Scope(w, Instr("findAll", e.node))
      BY <1>3, <1>7 DEF Scope, Instr
    <2>3. /\ w.todo \in Seq(Scoped(w)) /\ Ordered(w.todo) /\ ~Lacks(w.todo, {"findAll"})
          /\ \A ds : "findAll" \notin ds => Lacks(w.todo, ds)
          /\ \A S : Guarded(w.todo, S)
      BY <1>2, <2>1, <2>2, OneInstruction DEF Finds
    <2> QED
      BY <1>1, <1>3, <1>4, <1>7, <2>3 DEF Shaped
  <1>8. CASE e.kind = "deleteNode" /\ LastNode(e)
    <2>1. w.todo = <<>>
      BY <1>3, <1>8 DEF Begin
    <2>2. w.todo \in Seq(Scoped(w)) /\ Len(w.todo) = 0
      BY <2>1
    <2>3. Ordered(w.todo) /\ Lacks(w.todo, {"drop", "unhost", "delete"}) /\ \A S : Guarded(w.todo, S)
      BY <2>2 DEF Ordered, Lacks, Guarded
    <2> QED
      BY <1>1, <1>3, <1>4, <1>8, <2>1, <2>2, <2>3 DEF Shaped
  <1>9. CASE e.kind = "deleteNode" /\ ~LastNode(e)
    <2>1. w.todo = <<Instr("findNode", e.node)>>
      BY <1>3, <1>9 DEF Begin, DeleteNode
    <2>2. Scope(w, Instr("findNode", e.node))
      BY <1>3, <1>9 DEF Scope, Instr
    <2>3. /\ w.todo \in Seq(Scoped(w)) /\ Ordered(w.todo) /\ ~Lacks(w.todo, {"findNode"})
          /\ \A ds : "findNode" \notin ds => Lacks(w.todo, ds)
          /\ \A S : Guarded(w.todo, S)
      BY <1>2, <2>1, <2>2, OneInstruction DEF Finds
    <2>4. HasMaster(record, e.node)
      BY <1>9 DEF CanBegin
    <2> QED
      BY <1>1, <1>3, <1>4, <1>9, <2>3, <2>4 DEF Shaped
  <1>10. CASE e.kind = "change"
    <2>1. w.todo = ChangeResources(e.node)
      BY <1>3, <1>10 DEF Begin
    <2>2. w.todo \in Seq(Scoped(w)) /\ Ordered(w.todo)
      BY <1>2, <2>1, ChangeResourcesIs
    <2>3. Lacks(w.todo, {"drop", "unhost", "delete"})
      <3>1. \A k \in 1..Len(w.todo) : w.todo[k] \in Scoped(w)
        BY <2>2
      <3> QED
        BY <1>3, <1>10, <3>1 DEF Lacks, Scoped, Scope
    <2> QED
      BY <1>1, <1>3, <1>4, <1>10, <2>2, <2>3 DEF Shaped
  <1> QED
    BY <1>2, <1>5, <1>6, <1>7, <1>8, <1>9, <1>10 DEF Kinds

LEMMA ScopedSame ==
    ASSUME NEW u, NEW w, u.kind = w.kind, u.node = w.node, u.copy = w.copy
    PROVE  Scoped(u) = Scoped(w)
  BY DEF Scoped, Scope

LEMMA TailShape ==
    ASSUME ShapeInv, Busy, worker.todo # <<>>
    PROVE  /\ worker.todo \in Seq(Scoped(worker)) /\ Tail(worker.todo) \in Seq(Scoped(worker))
           /\ Ordered(worker.todo) /\ Ordered(Tail(worker.todo))
           /\ Head(worker.todo) \in Instruction /\ Scope(worker, Head(worker.todo)) /\ Node \in Nodes
  <1>1. worker.todo \in Seq(Scoped(worker)) /\ Ordered(worker.todo)
    BY DEF ShapeInv, Shaped
  <1>2. Tail(worker.todo) \in Seq(Scoped(worker)) /\ Head(worker.todo) \in Scoped(worker)
    BY <1>1, TailIs
  <1>3. Ordered(Tail(worker.todo))
    BY <1>1, OrderedTail
  <1> QED
    BY <1>1, <1>2, <1>3 DEF Scoped, Instruction, Node

\* A wait puts nothing but the restart of a VM before the rest.
LEMMA AgainIs ==
    ASSUME NEW w, NEW n \in Nodes, NEW q \in Seq(About(Again, {n}))
    PROVE  /\ q \in Seq(Scoped(w)) /\ Ordered(q)
           /\ Lacks(q, Finds \cup {"erase", "drop", "ready", "join", "remove", "unhost", "setHosts",
                                   "delete", "create"})
  <1>1. Again \in SUBSET Free /\ {n} \in SUBSET Nodes
    BY DEF Again, Free
  <1>2. q \in Seq(About(Free, {n}))
    BY <1>1, AboutMore
  <1>3. Free \in SUBSET Free
    OBVIOUS
  <1>4. q \in Seq(Scoped(w)) /\ Ordered(q)
    BY <1>1, <1>2, <1>3, FreeProgram
  <1>5. Again \cap (Finds \cup {"erase", "drop", "ready", "join", "remove", "unhost", "setHosts",
                                "delete", "create"}) = {}
    BY DEF Again, Finds
  <1> QED
    BY <1>4, <1>5, LacksOthers

LEMMA MovesShape ==
    ASSUME ShapeInv, NEW q \in Seq(Scoped(worker)), Moves(q), Ordered(q \o Tail(worker.todo))
    PROVE  ShapeInv'
  <1>1. Busy /\ worker.todo # <<>>
    BY DEF Moves
  <1>2. worker'.kind = worker.kind /\ worker'.node = worker.node /\ worker'.copy = worker.copy
    BY DEF Moves
  <1> DEFINE u == worker'
  <1>3. Scoped(u) = Scoped(worker)
    BY <1>2, ScopedSame
  <1>4. Tail(worker.todo) \in Seq(Scoped(worker))
    BY <1>1, TailShape
  <1>5. u.todo = q \o Tail(worker.todo) /\ u.todo \in Seq(Scoped(worker))
    BY <1>4, ConcatIs DEF Moves
  <1>6. u.todo \in Seq(Scoped(u)) /\ Ordered(u.todo)
    BY <1>3, <1>5
  <1>7. Shaped(worker)
    BY <1>1 DEF ShapeInv
  <1> HIDE DEF u
  <1>8. Shaped(u)
    BY <1>1, <1>2, <1>6, <1>7 DEF Shaped, u
  <1> QED
    BY <1>8 DEF ShapeInv, u

LEMMA ProceedShape ==
    ASSUME ShapeInv, Moves(<<>>)
    PROVE  ShapeInv' /\ worker'.todo = Tail(worker.todo)
  <1>1. Busy /\ worker.todo # <<>>
    BY DEF Moves
  <1>2. Tail(worker.todo) \in Seq(Scoped(worker)) /\ Ordered(Tail(worker.todo))
    BY <1>1, TailShape
  <1>3. <<>> \o Tail(worker.todo) = Tail(worker.todo) /\ <<>> \in Seq(Scoped(worker))
    BY <1>2, EmptyIs
  <1>4. Ordered(<<>> \o Tail(worker.todo))
    BY <1>2, <1>3
  <1> QED
    BY <1>3, <1>4, MovesShape DEF Moves

LEMMA ShapeNext ==
    ASSUME BaseInv, [Next]_vars
    PROVE  ShapeInv' /\ (worker' = Idle \/ worker' \in Workers)
  <1>1. ShapeInv /\ TypeInv /\ (worker = Idle \/ worker \in Workers)
    BY DEF BaseInv, TypeInv
  <1>2. CASE UNCHANGED worker
    BY <1>1, <1>2 DEF ShapeInv, Busy
  <1>3. CASE worker' = Idle
    BY <1>3, IdleIs DEF ShapeInv, Busy
  <1>4. CASE Moves(<<>>)
    BY <1>1, <1>4, ProceedShape DEF Moves, Busy
  <1>5. CASE Waits
    <2>1. PICK q \in Seq(About(Again, {Node})) : Moves(q)
      BY <1>5 DEF Waits
    <2>2. Busy /\ worker.todo # <<>>
      BY <2>1 DEF Moves
    <2> DEFINE t == Tail(worker.todo)
    <2>3. Node \in Nodes /\ t \in Seq(Scoped(worker)) /\ Ordered(t)
      BY <1>1, <2>2, TailShape
    <2>4. /\ q \in Seq(Scoped(worker)) /\ Ordered(q)
          /\ Lacks(q, Finds \cup {"erase"}) /\ Lacks(q, {"ready", "join"}) /\ Lacks(q, {"drop"})
      BY <2>3, AgainIs DEF Lacks
    <2> HIDE DEF t
    <2>5. Ordered(q \o t)
      BY <2>3, <2>4, OrderedConcat
    <2> QED
      BY <1>1, <2>1, <2>4, <2>5, MovesShape DEF Moves, Busy, t
  <1>6. CASE Looks
    <2> DEFINE p == Then(Verb, Node)
    <2>1. Moves(p) /\ worker'.todo = p /\ Verb \in Finds
      BY <1>6 DEF Looks
    <2>2. worker # Idle /\ worker.todo # <<>> /\ worker.node \in Nodes
      BY <2>1, IdleIs DEF Moves, Busy, Workers
    <2>3. AnyNode \in Nodes
      BY <2>2 DEF AnyNode
    <2>4. record # NoRecord \/ worker.kind # "deleteNode"
      BY <2>1 DEF BaseInv, RecordInv, Moves
    <2>5. p \in Seq(Scoped(worker)) /\ Ordered(p)
      BY <1>1, <2>1, <2>2, <2>3, <2>4, ThenIs
    <2> HIDE DEF p
    <2>6. Ordered(p \o Tail(worker.todo))
      BY <2>1, <2>5 DEF Moves
    <2> QED
      BY <1>1, <2>1, <2>5, <2>6, MovesShape DEF Moves, Busy
  <1>7. CASE Begins
    <2>1. PICK e \in Events :
             /\ CanBegin(e)
             /\ worker' = [kind |-> e.kind, node |-> e.node, copy |-> record, used |-> {}, todo |-> Begin(e)]
      BY <1>7 DEF Begins
    <2> DEFINE w == worker'
    <2>2. w \in Workers /\ Shaped(w)
      <3> HIDE DEF w
      <3> QED
        BY <1>1, <2>1, BeginIs DEF BaseInv, RecordInv, w
    <2> QED
      BY <2>2 DEF ShapeInv
  <1>8. \/ Handles \/ Drifting => UNCHANGED worker
    BY DEF Handles, Drifting
  <1>9. Declines \/ Halts => worker' = Idle
    BY DEF Declines, Halts
  <1>10. Asks \/ Commands \/ Drops \/ Erases => worker' = Idle \/ Moves(<<>>)
    BY DEF Asks, Commands, Drops, Erases
  <1> QED
    BY <1>2, <1>3, <1>4, <1>5, <1>6, <1>7, <1>8, <1>9, <1>10, StepCases

LEMMA MovesOn ==
    ASSUME BaseInv, [Next]_vars
    PROVE  \/ UNCHANGED worker \/ worker' = Idle \/ Begins
           \/ /\ Busy /\ Busy' /\ worker.todo # <<>>
              /\ worker'.kind = worker.kind /\ worker'.node = worker.node /\ worker'.copy = worker.copy
  BY StepCases DEF Handles, Declines, Halts, Waits, Asks, Looks, Commands, Drops, Erases, Drifting, Moves

LEMMA RecordNext ==
    ASSUME BaseInv, [Next]_vars
    PROVE  RecordInv' /\ (record' = NoRecord \/ (record' \in Seq(Nodes) /\ IsInjective(record')))
  <1>1. /\ RecordInv /\ ShapeInv /\ TypeInv
        /\ record = NoRecord \/ (record \in Seq(Nodes) /\ IsInjective(record))
        /\ worker = Idle \/ worker \in Workers
    BY DEF BaseInv, TypeInv
  <1> DEFINE RecordOK == record' = NoRecord \/ (record' \in Seq(Nodes) /\ IsInjective(record'))
             \* The rest of RecordInv', for a worker that goes on
             Frame == /\ Busy /\ Busy'
                      /\ worker'.kind = worker.kind /\ worker'.node = worker.node /\ worker'.copy = worker.copy
                      /\ worker.todo = <<>> => worker'.todo = <<>>
  <1>2. UNCHANGED worker \/ worker' = Idle \/ Begins \/ Frame
    <2>1. CASE UNCHANGED worker
      BY <2>1
    <2> QED
      BY MovesOn
  <1>3. CASE UNCHANGED record
    <2>1. RecordOK /\ KeepsMaster'
      BY <1>1, <1>3 DEF RecordInv, KeepsMaster, HasMaster
    <2>2. CASE UNCHANGED worker
      BY <1>1, <1>3, <2>1, <2>2 DEF RecordInv, Busy
    <2>3. CASE worker' = Idle
      BY <2>1, <2>3, IdleIs DEF RecordInv, Busy
    <2>4. CASE Frame
      BY <1>1, <1>3, <2>1, <2>4 DEF RecordInv
    <2>5. CASE Begins
      <3>1. PICK e \in Events :
               /\ CanBegin(e)
               /\ worker' = [kind |-> e.kind, node |-> e.node, copy |-> record, used |-> {}, todo |-> Begin(e)]
        BY <2>5 DEF Begins
      <3> DEFINE w == worker'
      <3>2. /\ record # NoRecord /\ w.copy = record
            /\ w.kind = "deleteNode" /\ w.todo # <<>> => HasMaster(record, w.node)
        <4>1. TypeInv /\ KeepsMaster
          BY <1>1 DEF RecordInv
        <4> HIDE DEF w
        <4> QED
          BY <3>1, <4>1, BeginIs DEF w
      <3>3. record' = record
        BY <1>3
      <3> QED
        BY <2>1, <3>2, <3>3 DEF RecordInv
    <2> QED
      BY <1>2, <2>2, <2>3, <2>4, <2>5
  <1>4. CASE Handles /\ ~UNCHANGED record
    <2>1. UNCHANGED worker
      BY <1>4 DEF Handles
    <2>2. CASE record = NoRecord /\ record' \in Initials
      <3>1. /\ record' \in Seq(Nodes) /\ IsInjective(record')
            /\ \E m \in Masters : m \in ToSet(record')
        BY <2>2, InitialAssumption
      <3>2. PICK m \in Masters : m \in ToSet(record') /\ m \in Nodes
        BY <3>1, InToSet
      <3>3. m \in Masters \ {Foreign}
        BY <3>2, ForeignAssumption
      <3> DEFINE r == record'
      <3>4. HasMaster(r, Foreign)
        <4> HIDE DEF r
        <4> QED
          BY <3>1, <3>2, <3>3, MasterIsNode DEF r
      <3>5. record' # NoRecord
        BY <3>1, NoRecordAssumption
      <3>6. ~(Busy /\ worker.kind \in {"create", "add", "deleteNode"})
        BY <1>1, <2>2 DEF RecordInv
      <3>7. KeepsMaster'
        BY <3>4 DEF KeepsMaster
      <3> QED
        BY <2>1, <3>1, <3>6, <3>7 DEF RecordInv, Busy
    <2>3. CASE record # NoRecord /\ \E n \in Nodes : n \notin ToSet(record) /\ record' = Append(record, n)
      <3>1. PICK n \in Nodes : n \notin ToSet(record) /\ record' = Append(record, n)
        BY <2>3
      <3>2. record \in Seq(Nodes) /\ IsInjective(record)
        BY <1>1, <2>3
      <3> DEFINE r == record'
      <3>3. /\ r \in Seq(Nodes) /\ Len(r) = Len(record) + 1 /\ Len(record) \in Nat
            /\ r[Len(r)] = n /\ \A k \in 1..Len(record) : r[k] = record[k]
        BY <3>1, <3>2
      <3> HIDE DEF r
      <3>4. \A k \in 1..Len(record) : record[k] # n
        BY <3>1, <3>2, InToSet
      <3>5. IsInjective(r)
        <4> SUFFICES ASSUME NEW a \in 1..Len(r), NEW b \in 1..Len(r), a < b PROVE r[a] # r[b]
          BY <3>3 DEF IsInjective
        <4>1. a \in 1..Len(record)
          BY <3>3
        <4>2. CASE b = Len(r)
          BY <3>3, <3>4, <4>1, <4>2
        <4>3. CASE b \in 1..Len(record)
          BY <3>2, <3>3, <4>1, <4>3 DEF IsInjective
        <4> QED
          BY <3>3, <4>2, <4>3
      <3>6. ToSet(record) \subseteq ToSet(r)
        <4>1. \A k \in 1..Len(record) : k \in 1..Len(r) /\ r[k] = record[k]
          BY <3>3
        <4> QED
          BY <3>2, <3>3, <4>1, InToSet
      <3>7. \A m : HasMaster(record, m) => HasMaster(r, m)
        BY <3>3 DEF HasMaster
      <3>8. r # NoRecord
        BY <3>3, NoRecordAssumption
      <3>9. HasMaster(record, Foreign)
        BY <1>1, <2>3 DEF RecordInv, KeepsMaster
      <3>10. KeepsMaster'
        BY <3>7, <3>9 DEF KeepsMaster, r
      <3> QED
        BY <1>1, <2>1, <3>3, <3>5, <3>6, <3>7, <3>8, <3>10 DEF RecordInv, Busy, r
    <2> QED
      BY <1>4, <2>2, <2>3 DEF Handles
  <1>5. CASE Drops
    <2>1. Verb = "drop" /\ Moves(<<>>) /\ record' = Others(record, Node)
      BY <1>5 DEF Drops
    <2>2. Busy /\ worker.todo # <<>> /\ Frame
      BY <2>1 DEF Moves
    <2>3. worker.kind = "deleteNode" /\ Node = worker.node
      <3>1. Scope(worker, Head(worker.todo))
        BY <1>1, <2>2, TailShape
      <3> QED
        BY <2>1, <3>1 DEF Scope, Verb, Node
    <2>4. record # NoRecord /\ record \in Seq(Nodes) /\ IsInjective(record) /\ HasMaster(record, worker.node)
      BY <1>1, <2>2, <2>3 DEF RecordInv
    <2> DEFINE r == record'
    <2>5. r \in Seq(Nodes) /\ IsInjective(r) /\ ToSet(r) = ToSet(record) \ {Node}
      BY <2>1, <2>4, OthersAre
    <2> HIDE DEF r
    <2>6. PICK m \in ToSet(record) : m \in Masters \ {worker.node}
      BY <2>4, MasterIsNode
    <2>7. m \in ToSet(r) /\ m \in Nodes
      BY <2>3, <2>4, <2>5, <2>6, InToSet
    <2>8. HasMaster(r, worker.node) /\ HasMaster(r, Foreign)
      BY <2>5, <2>6, <2>7, MasterIsNode, ForeignAssumption
    <2>9. r # NoRecord
      BY <2>5, NoRecordAssumption
    <2>10. KeepsMaster'
      BY <2>8 DEF KeepsMaster, r
    <2> QED
      BY <2>2, <2>3, <2>5, <2>8, <2>9, <2>10 DEF RecordInv, r
  <1>6. CASE Erases
    <2>1. Verb = "erase" /\ Moves(<<>>) /\ record' = NoRecord
      BY <1>6 DEF Erases
    <2>2. Busy /\ worker.todo # <<>> /\ Frame
      BY <2>1 DEF Moves
    <2>3. worker.kind = "delete"
      <3>1. Scope(worker, Head(worker.todo))
        BY <1>1, <2>2, TailShape
      <3> QED
        BY <2>1, <3>1 DEF Scope, Verb
    <2> QED
      BY <2>1, <2>2, <2>3 DEF RecordInv, KeepsMaster
  <1>7. Begins \/ Declines \/ Halts \/ Waits \/ Asks \/ Looks \/ Commands \/ Drifting => UNCHANGED record
    BY DEF Begins, Declines, Halts, Waits, Kept, Asks, Looks, Commands, Drifting
  <1> QED
    BY <1>3, <1>4, <1>5, <1>6, <1>7, StepCases

LEMMA BaseInit ==
    ASSUME Init PROVE BaseInv
  <1>1. worker \notin Workers
    BY IdleIs DEF Init
  <1>2. TypeInv
    <2>1. queue \in Seq(Events)
      BY DEF Init
    <2>2. vm \in [Nodes -> VM \cup {NoVM}]
      BY DEF Init
    <2>3. status \in Statuses /\ calls \in 0..Calls /\ crashes \in 0..Crashes
      BY BoundAssumption DEF Init, Statuses
    <2> QED
      BY <2>1, <2>2, <2>3 DEF Init, TypeInv
  <1>3. ShapeInv /\ RecordInv
    BY <1>1 DEF ShapeInv, RecordInv, KeepsMaster, Busy, Init
  <1>4. VmInv
    BY DEF Init, VmInv
  <1> QED
    BY <1>2, <1>3, <1>4 DEF BaseInv

LEMMA BaseNext ==
    ASSUME BaseInv, [Next]_vars PROVE BaseInv'
  <1>1. VmInv' /\ ShapeInv' /\ RecordInv'
    BY VmTypes, ShapeNext, RecordNext
  <1>2. members' \subseteq Nodes
    <2>1. members \subseteq Nodes
      BY DEF BaseInv, TypeInv
    <2>2. CASE Commands
      <3>1. Node \in Nodes
        BY <2>2, TailShape DEF Commands, BaseInv
      <3> QED
        BY <2>1, <2>2, <3>1 DEF Commands, MembersOf
    <2>3. \/ Handles \/ Begins \/ Declines \/ Halts \/ Waits \/ Asks \/ Looks \/ Drops \/ Erases \/ Drifting
          => UNCHANGED members
      BY DEF Handles, Begins, Declines, Halts, Waits, Kept, Asks, Looks, Drops, Erases, Drifting
    <2> QED
      BY <2>1, <2>2, <2>3, StepCases
  <1>3. TypeInv'
    BY <1>2, VmTypes, ShapeNext, RecordNext, PlainTypes DEF TypeInv
  <1> QED
    BY <1>1, <1>3 DEF BaseInv

(* Types, shapes of programs, VMs and the record together: what all theorems *)
(* below rest on.                                                            *)
LEMMA BaseHolds == Spec => []BaseInv
  <1>1. Init => BaseInv
    BY BaseInit
  <1>2. BaseInv /\ [Next]_vars => BaseInv'
    BY BaseNext
  <1> QED
    BY <1>1, <1>2, PTL DEF Spec

LEMMA BaseTypes ==
    ASSUME BaseInv PROVE TypeOK
  <1>1. record # NoRecord => record \in Seq(Nodes) \ {<<>>} /\ IsInjective(record)
    <2> SUFFICES ASSUME record # NoRecord
                 PROVE  record \in Seq(Nodes) \ {<<>>} /\ IsInjective(record)
      OBVIOUS
    <2>1. record \in Seq(Nodes) /\ IsInjective(record) /\ HasMaster(record, Foreign)
      BY DEF BaseInv, TypeInv, RecordInv, KeepsMaster
    <2> QED
      BY <2>1 DEF HasMaster
  <1>2. worker # Idle =>
          /\ worker.kind \in Kinds /\ worker.node \in Nodes
          /\ worker.copy \in Seq(Nodes)
          /\ worker.used \subseteq Nodes
          /\ \A k \in 1..Len(worker.todo) : worker.todo[k].node \in Nodes
    <2> SUFFICES ASSUME worker \in Workers
                 PROVE  /\ worker.kind \in Kinds /\ worker.node \in Nodes
                        /\ worker.copy \in Seq(Nodes)
                        /\ worker.used \subseteq Nodes
                        /\ \A k \in 1..Len(worker.todo) : worker.todo[k].node \in Nodes
      BY DEF BaseInv, TypeInv
    <2>1. worker.todo \in Seq(Instruction)
      BY DEF Workers
    <2>2. \A k \in 1..Len(worker.todo) : worker.todo[k] \in Instruction
      BY <2>1
    <2> QED
      BY <2>2 DEF Workers, Instruction
  <1> QED
    BY <1>1, <1>2 DEF BaseInv, TypeInv, TypeOK, Statuses, Events

(* The state of a cluster keeps its types, whatever the requests, failures *)
(* and kills.                                                              *)
THEOREM ProvisioningTypeCorrect == Spec => []TypeOK
  <1>1. BaseInv => TypeOK
    BY BaseTypes
  <1> QED
    BY <1>1, BaseHolds, PTL

(* A cluster keeps a master in its record: no order in which the requests  *)
(* for its nodes are served deletes the last one.                          *)
THEOREM MasterKept == Spec => []KeepsMaster
  <1>1. BaseInv => KeepsMaster
    BY DEF BaseInv, RecordInv
  <1> QED
    BY <1>1, BaseHolds, PTL

-----------------------------------------------------------------------------
(* What is left of a program, after a step that is no search *)
Passes ==
    /\ Busy /\ Busy' /\ worker.todo # <<>>
    /\ worker'.kind = worker.kind /\ worker'.node = worker.node /\ worker'.copy = worker.copy
    /\ \A d, n : Ahead(worker.todo, d, n) => Ahead(worker'.todo, d, n) \/ (Verb = d /\ Node = n)
    /\ \A ds : ds \cap Again = {} =>
          (Lacks(worker.todo, ds) <=> Verb \notin ds /\ Lacks(worker'.todo, ds))

LEMMA MovesPasses ==
    ASSUME BaseInv, NEW q \in Seq(About(Again, {Node})), Moves(q)
    PROVE  Passes
  <1>1. Busy /\ worker.todo # <<>> /\ ShapeInv
    BY DEF Moves, BaseInv
  <1> DEFINE p == worker.todo
             t == Tail(worker.todo)
  <1>2. p \in Seq(Scoped(worker)) /\ t \in Seq(Scoped(worker)) /\ Node \in Nodes /\ p # <<>>
    BY <1>1, TailShape
  <1>3. q \in Seq(Scoped(worker))
    BY <1>2, AgainIs
  <1>4. \A d, n : Ahead(p, d, n) <=> Head(p) = Instr(d, n) \/ Ahead(t, d, n)
    BY <1>2, AheadTail
  <1>5. \A d, n : Ahead(q \o t, d, n) <=> Ahead(q, d, n) \/ Ahead(t, d, n)
    <2> HIDE DEF t
    <2> QED
      BY <1>2, <1>3, AheadConcat
  <1>6. \A ds : Lacks(p, ds) <=> Head(p).do \notin ds /\ Lacks(t, ds)
    BY <1>2, LacksTail
  <1>7. \A ds : Lacks(q \o t, ds) <=> Lacks(q, ds) /\ Lacks(t, ds)
    <2> HIDE DEF t
    <2> QED
      BY <1>2, <1>3, LacksConcat
  <1>8. \A ds : ds \cap Again = {} => Lacks(q, ds)
    <2> SUFFICES ASSUME NEW ds, ds \cap Again = {} PROVE Lacks(q, ds)
      OBVIOUS
    <2>1. Again \cap ds = {}
      OBVIOUS
    <2> QED
      BY <2>1, LacksOthers
  <1>9. worker'.todo = q \o t
    BY DEF Moves
  <1>10. \A d, n : Head(p) = Instr(d, n) => Verb = d /\ Node = n
    BY DEF Instr, Verb, Node
  <1> HIDE DEF p, t
  <1>11. \A d, n : Ahead(p, d, n) => Ahead(worker'.todo, d, n) \/ (Verb = d /\ Node = n)
    BY <1>4, <1>5, <1>9, <1>10
  <1>12. \A ds : ds \cap Again = {} => (Lacks(p, ds) <=> Verb \notin ds /\ Lacks(worker'.todo, ds))
    <2>1. Head(p).do = Verb
      BY DEF p, Verb
    <2> QED
      BY <1>6, <1>7, <1>8, <1>9, <2>1
  <1> QED
    BY <1>1, <1>11, <1>12 DEF Passes, Moves, p

LEMMA PassesAre ==
    ASSUME BaseInv, Waits \/ Asks \/ Commands \/ Drops \/ Erases
    PROVE  worker' = Idle \/ Passes
  <1>1. <<>> \in Seq(About(Again, {Node}))
    OBVIOUS
  <1>2. CASE Waits
    BY <1>2, MovesPasses DEF Waits
  <1>3. CASE Moves(<<>>)
    BY <1>1, <1>3, MovesPasses
  <1> QED
    BY <1>2, <1>3 DEF Asks, Commands, Drops, Erases

LEMMA Scopes ==
    ASSUME NEW w, w.todo \in Seq(Scoped(w))
    PROVE  /\ \A ds : ~Lacks(w.todo, ds) =>
                 /\ ds = {"drop"} => w.kind = "deleteNode"
                 /\ ds = {"findAll"} => w.kind = "delete"
                 /\ ds = {"unhost"} => w.kind = "deleteNode"
           /\ \A n : Ahead(w.todo, "setHosts", n) => w.kind \in {"create", "add"}
  <1>1. \A k \in 1..Len(w.todo) : Scope(w, w.todo[k])
    BY DEF Scoped
  <1> QED
    BY <1>1 DEF Scope, Lacks, Ahead, Instr

LEMMA NothingAhead ==
    ASSUME NEW p, p = <<>>
    PROVE  (\A ds : Lacks(p, ds)) /\ \A d, n : ~Ahead(p, d, n)
  <1>1. Len(p) = 0
    OBVIOUS
  <1> QED
    BY <1>1 DEF Lacks, Ahead

-----------------------------------------------------------------------------
(* A record is erased only when its VMs will be gone. *)

LEMMA LeftNext ==
    ASSUME BaseInv, [Next]_vars, NEW n \in Nodes, Left(n)'
    PROVE  Left(n) \/ (Asks /\ Verb = "create" /\ Node = n)
  <1>1. vm' \in [Nodes -> VM \cup {NoVM}] /\ vm \in [Nodes -> VM \cup {NoVM}] /\ VmOK(vm[n])
    BY VmTypes DEF BaseInv, TypeInv, VmInv, VmOK
  <1>2. vm'[n] # NoVM /\ vm'[n].owner = n /\ vm'[n].task # "delete" /\ n \notin overlooked'
    BY DEF Left, Own
  <1>3. n \notin overlooked
    <2>1. overlooked \subseteq overlooked'
      BY StepCases DEF Handles, Begins, Declines, Halts, Waits, Kept, Asks, Looks, Commands, Drops,
            Erases, Drifting
    <2> QED
      BY <1>2, <2>1
  <1>4. vm[n] # NoVM /\ vm[n].owner = n /\ vm[n].task # "delete" => Left(n)
    BY <1>3 DEF Left, Own
  <1> DEFINE v == vm[n]
             w == vm'[n]
  <1>5. (v # NoVM => v \in VM) /\ (w # NoVM => w \in VM)
    BY <1>1
  <1>6. CASE w = v
    BY <1>2, <1>4, <1>6
  <1>7. CASE Asks /\ Node = n /\ w # v
    <2>1. PICK a \in Answers(Verb, v, Node) : vm' = [vm EXCEPT ![n] = a.vm]
      BY <1>7 DEF Asks
    <2>2. w = a.vm /\ Verb \in Requests /\ v \in VM \cup {NoVM}
      BY <1>1, <1>7, <2>1 DEF Asks
    <2>3. \/ w = v
          \/ Verb = "create"
          \/ /\ v # NoVM /\ v.state = "running" /\ w.task \in {"shutdown", "stop"}
             /\ w = [v EXCEPT !.task = w.task]
          \/ /\ v # NoVM /\ v.state = "stopped" /\ v.task = "none"
             /\ w = [v EXCEPT !.task = w.task]
      BY <1>7, <2>2, AnswerIs
    <2> HIDE DEF w, v
    <2>4. CASE v # NoVM /\ w = [v EXCEPT !.task = w.task] /\ (v.state = "running" \/ v.task = "none")
      <3>1. w.owner = v.owner
        BY <1>5, <2>4 DEF VM
      <3>2. v.task # "delete"
        BY <1>1, <2>4 DEF VmOK, v
      <3> QED
        BY <1>2, <1>4, <2>4, <3>1, <3>2 DEF v, w
    <2> QED
      BY <1>7, <2>3, <2>4
  <1>8. CASE Commands /\ Node = n
    <2>1. PICK u \in VM : vm' = [vm EXCEPT ![n] = u] /\ u.task = v.task
      BY <1>8 DEF Commands
    <2>2. w = u /\ v # NoVM /\ v.owner = n
      BY <1>1, <1>8, <2>1 DEF Commands, Reachable, Running
    <2> QED
      BY <1>2, <1>4, <2>1, <2>2
  <1>9. CASE Drifting /\ w # v
    <2>1. PICK m \in Nodes : \E u \in Drifts(vm[m]) : vm' = [vm EXCEPT ![m] = u]
      BY <1>9 DEF Drifting
    <2>2. m = n /\ w \in Drifts(v)
      BY <1>1, <1>9, <2>1
    <2>3. \/ v = NoVM /\ w = ForeignVM
          \/ w = NoVM
          \/ v # NoVM /\ v.state = "accepted" /\ w = [v EXCEPT !.state = "locked"]
          \/ v # NoVM /\ v.state = "locked" /\ w = [v EXCEPT !.state = "stopped"]
          \/ /\ v # NoVM /\ v.task # "delete"
             /\ w = [v EXCEPT !.state = w.state, !.task = "none"]
      BY <1>1, <2>2, DriftIs
    <2> HIDE DEF v, w
    <2>4. ForeignVM.owner = Foreign
      BY DEF ForeignVM, NewVM
    <2>5. CASE v # NoVM /\ w.owner = v.owner /\ (w.task = v.task \/ v.task # "delete")
      BY <1>2, <1>4, <2>5 DEF v, w
    <2>6. CASE v # NoVM /\ v.state = "accepted" /\ w = [v EXCEPT !.state = "locked"]
      BY <1>5, <2>5, <2>6 DEF VM
    <2>7. CASE v # NoVM /\ v.state = "locked" /\ w = [v EXCEPT !.state = "stopped"]
      BY <1>5, <2>5, <2>7 DEF VM
    <2>8. CASE v # NoVM /\ v.task # "delete" /\ w = [v EXCEPT !.state = w.state, !.task = "none"]
      BY <1>5, <2>5, <2>8 DEF VM
    <2> QED
      BY <1>2, <2>3, <2>4, <2>6, <2>7, <2>8, ForeignAssumption DEF w
  <1>10. CASE Asks /\ Node # n
    BY <1>1, <1>6, <1>10 DEF Asks
  <1>11. CASE Commands /\ Node # n
    BY <1>1, <1>6, <1>11 DEF Commands
  <1>12. Handles \/ Begins \/ Declines \/ Halts \/ Waits \/ Looks \/ Drops \/ Erases => w = v
    BY DEF Handles, Begins, Declines, Halts, Waits, Kept, Looks, Drops, Erases
  <1>13. Asks => Verb = "create" \/ Verb # "create"
    OBVIOUS
  <1> QED
    BY <1>6, <1>7, <1>8, <1>9, <1>10, <1>11, <1>12, StepCases

LEMMA DeleteAsked ==
    ASSUME BaseInv, Asks, Verb = "delete", worker' # Idle
    PROVE  \A n \in Nodes : n = Node => ~Left(n)'
  <1>1. Node \in Nodes /\ vm \in [Nodes -> VM \cup {NoVM}]
    BY TailShape DEF Asks, BaseInv, TypeInv
  <1>2. worker' = Idle => FALSE
    OBVIOUS
  <1>3. PICK a \in Answers(Verb, vm[Node], Node) : vm' = [vm EXCEPT ![Node] = a.vm] /\ a.ok
    BY <1>2 DEF Asks
  <1>4. a.vm.task = "delete"
    BY <1>1, <1>3, AnswerIs DEF Asks
  <1>5. SUFFICES ASSUME NEW n \in Nodes, n = Node PROVE ~Left(n)'
    OBVIOUS
  <1>6. vm'[n].task = "delete"
    BY <1>1, <1>3, <1>4, <1>5
  <1> QED
    BY <1>5, <1>6 DEF Left

LEMMA GoneNext ==
    ASSUME BaseInv, BaseInv', GoneInv, [Next]_vars
    PROVE  GoneInv'
  <1> DEFINE Kept1 == \A n \in Nodes : Left(n) => record # NoRecord /\ n \in ToSet(record)
             Kept2 == Busy /\ worker.kind = "delete" /\ worker.todo # <<>> =>
                        \A n \in Nodes : Left(n) => \/ Ahead(worker.todo, "delete", n)
                                                   \/ /\ ~Lacks(worker.todo, {"findAll"})
                                                      /\ n \in ToSet(worker.copy)
             Kept3 == Busy /\ ~Lacks(worker.todo, {"drop"}) /\ Left(worker.node) =>
                        Ahead(worker.todo, "delete", worker.node)
  <1>0. Kept1 /\ Kept2 /\ Kept3
    BY DEF GoneInv
  <1>1. /\ record = NoRecord \/ record \in Seq(Nodes)
        /\ worker = Idle \/ worker \in Workers
        /\ Busy => ShapeInv /\ worker.node \in Nodes /\ worker.copy \in Seq(Nodes)
    BY DEF BaseInv, TypeInv, Busy, Workers
  <1>2. \A n \in Nodes : Left(n)' => Left(n) \/ (Asks /\ Verb = "create" /\ Node = n)
    BY LeftNext
  <1>3. Busy /\ worker.todo # <<>> =>
            Scope(worker, Head(worker.todo)) /\ Node \in Nodes /\ Ordered(worker.todo)
            /\ worker.todo \in Seq(Scoped(worker))
    BY <1>1, TailShape
  <1>4. ASSUME Asks, Verb = "create"
        PROVE  /\ worker.kind \in {"create", "add"} /\ UNCHANGED record
               /\ record # NoRecord /\ Node \in ToSet(record) /\ Lacks(worker.todo, {"drop"})
               /\ worker' = Idle \/ (worker'.kind = worker.kind /\ Lacks(worker'.todo, {"drop"}))
    <2>1. Busy /\ worker.todo # <<>>
      BY <1>4 DEF Asks
    <2>2. worker.kind \in {"create", "add"} /\ Node \in ToSet(worker.copy)
      BY <1>3, <1>4, <2>1 DEF Scope, Verb, Node
    <2>3. record # NoRecord /\ ToSet(worker.copy) \subseteq ToSet(record)
      BY <2>1, <2>2 DEF BaseInv, RecordInv
    <2>4. Lacks(worker.todo, {"drop"})
      BY <1>3, <2>1, <2>2, Scopes
    <2>5. worker' = Idle \/ (worker'.kind = worker.kind /\ Lacks(worker'.todo, {"drop"}))
      <3>1. {"drop"} \cap Again = {}
        BY DEF Again
      <3> QED
        BY <1>4, <2>4, <3>1, PassesAre DEF Passes
    <2> QED
      BY <1>4, <2>2, <2>3, <2>4, <2>5 DEF Asks
  <1>5. Kept1'
    <2> SUFFICES ASSUME NEW n \in Nodes, Left(n)'
                 PROVE  record' # NoRecord /\ n \in ToSet(record')
      OBVIOUS
    <2>1. CASE Asks /\ Verb = "create" /\ Node = n
      BY <1>4, <2>1
    <2>2. CASE Left(n)
      <3>1. record # NoRecord /\ n \in ToSet(record) /\ record \in Seq(Nodes)
        BY <1>0, <1>1, <2>2
      <3>2. CASE UNCHANGED record
        BY <3>1, <3>2
      <3>3. CASE Handles
        <4>1. CASE UNCHANGED record
          BY <3>1, <4>1
        <4>2. CASE \E m \in Nodes : record' = Append(record, m)
          <5>1. PICK m \in Nodes : record' = Append(record, m)
            BY <4>2
          <5>2. PICK k \in 1..Len(record) : record[k] = n
            BY <3>1, InToSet
          <5> DEFINE r == record'
          <5>3. r \in Seq(Nodes) /\ k \in 1..Len(r) /\ r[k] = n
            BY <3>1, <5>1, <5>2
          <5> HIDE DEF r
          <5>4. n \in ToSet(r) /\ r # NoRecord
            BY <5>3, InToSet, NoRecordAssumption
          <5> QED
            BY <5>4 DEF r
        <4> QED
          BY <3>1, <3>3, <4>1, <4>2 DEF Handles
      <3>4. CASE Drops
        <4>1. Busy /\ worker.todo # <<>> /\ Verb = "drop" /\ record' = Others(record, Node)
          BY <3>4 DEF Drops, Moves
        <4>2. record' \in Seq(Nodes) /\ ToSet(record') = ToSet(record) \ {Node}
          BY <3>1, <4>1, OthersAre
        <4>3. Node = worker.node /\ worker.node \in Nodes
          BY <1>1, <1>3, <4>1 DEF Scope, Verb, Node
        <4>4. ASSUME n = worker.node PROVE FALSE
          <5>1. ~Lacks(worker.todo, {"drop"}) /\ ~Ahead(worker.todo, "delete", n)
            <6>1. Lacks(Tail(worker.todo), {"delete"})
              BY <1>3, <4>1, OrderedTail DEF Verb
            <6>2. Head(worker.todo) # Instr("delete", n)
              BY <4>1 DEF Verb, Instr
            <6>3. ~Ahead(Tail(worker.todo), "delete", n)
              BY <6>1 DEF Lacks, Ahead, Instr
            <6>4. ~Ahead(worker.todo, "delete", n)
              BY <1>3, <4>1, <6>2, <6>3, AheadTail
            <6>5. ~Lacks(worker.todo, {"drop"})
              BY <1>3, <4>1, LacksTail DEF Verb
            <6> QED
              BY <6>4, <6>5
          <5> QED
            BY <1>0, <2>2, <4>1, <4>4, <5>1
        <4> QED
          BY <3>1, <4>2, <4>3, <4>4, NoRecordAssumption
      <3>5. CASE Erases
        <4>1. Busy /\ worker.todo # <<>> /\ Verb = "erase"
          BY <3>5 DEF Erases, Moves
        <4>2. worker.kind = "delete"
          BY <1>3, <4>1 DEF Scope, Verb
        <4>3. Tail(worker.todo) = <<>>
          BY <1>3, <4>1, OrderedTail DEF Verb
        <4>4. ~Ahead(Tail(worker.todo), "delete", n) /\ Lacks(Tail(worker.todo), {"findAll"})
          BY <4>3, NothingAhead
        <4>5. Head(worker.todo) # Instr("delete", n)
          BY <4>1 DEF Verb, Instr
        <4>6. ~Ahead(worker.todo, "delete", n) /\ Lacks(worker.todo, {"findAll"})
          BY <1>3, <4>1, <4>4, <4>5, AheadTail, LacksTail DEF Verb
        <4> QED
          BY <1>0, <2>2, <4>1, <4>2, <4>6
      <3>6. Begins \/ Declines \/ Halts \/ Waits \/ Asks \/ Looks \/ Commands \/ Drifting => UNCHANGED record
        BY DEF Begins, Declines, Halts, Waits, Kept, Asks, Looks, Commands, Drifting
      <3> QED
        BY <3>2, <3>3, <3>4, <3>5, <3>6, StepCases
    <2> QED
      BY <1>2, <2>1, <2>2
  <1>6. Kept2'
    <2> SUFFICES ASSUME Busy', worker'.kind = "delete", worker'.todo # <<>>, NEW n \in Nodes, Left(n)'
                 PROVE  \/ Ahead(worker'.todo, "delete", n)
                        \/ ~Lacks(worker'.todo, {"findAll"}) /\ n \in ToSet(worker'.copy)
      OBVIOUS
    <2>0. worker' # Idle
      BY IdleIs DEF Busy
    <2>1. CASE UNCHANGED worker
      <3>1. Left(n)
        BY <1>2, <1>4, <2>1
      <3> QED
        BY <1>0, <2>1, <3>1 DEF Busy
    <2>2. CASE Begins
      <3>1. PICK e \in Events :
               /\ CanBegin(e)
               /\ worker' = [kind |-> e.kind, node |-> e.node, copy |-> record, used |-> {}, todo |-> Begin(e)]
        BY <2>2 DEF Begins
      <3> DEFINE w == worker'
      <3>2. /\ record # NoRecord /\ w.copy = record
            /\ w.kind = "delete" => ~Lacks(w.todo, {"findAll"})
        <4>1. TypeInv /\ KeepsMaster
          BY DEF BaseInv, RecordInv
        <4> HIDE DEF w
        <4> QED
          BY <3>1, <4>1, BeginIs DEF w
      <3>3. ~Asks
        BY <2>2, IdleIs DEF Begins, Asks, Busy
      <3>4. n \in ToSet(record)
        BY <1>0, <1>2, <3>3
      <3> QED
        BY <3>2, <3>4
    <2>3. CASE Waits \/ Asks \/ Commands \/ Drops \/ Erases
      <3>1. Passes
        BY <2>0, <2>3, PassesAre
      <3>2. worker.kind = "delete" /\ Busy /\ worker.todo # <<>> /\ worker'.copy = worker.copy
        BY <3>1 DEF Passes
      <3>3. Left(n)
        BY <1>2, <1>4, <3>2
      <3>4. CASE Ahead(worker.todo, "delete", n)
        <4>1. Ahead(worker'.todo, "delete", n) \/ (Verb = "delete" /\ Node = n)
          BY <3>1, <3>4 DEF Passes
        <4>2. CASE Verb = "delete" /\ Node = n
          <5>1. Asks
            BY <2>3, <4>2 DEF Waits, Asks, Commands, Drops, Erases, Requests
          <5> QED
            BY <2>0, <4>2, <5>1, DeleteAsked
        <4> QED
          BY <4>1, <4>2
      <3>5. CASE ~Lacks(worker.todo, {"findAll"}) /\ n \in ToSet(worker.copy)
        <4>1. {"findAll"} \cap Again = {}
          BY DEF Again
        <4>2. Verb # "findAll"
          BY <2>3 DEF Waits, Asks, Commands, Drops, Erases, Requests, Finds
        <4> QED
          BY <3>1, <3>2, <3>5, <4>1, <4>2 DEF Passes
      <3> QED
        BY <1>0, <3>2, <3>3, <3>4, <3>5
    <2>4. CASE Looks
      <3> DEFINE p == Then(Verb, Node)
      <3>1. /\ Verb \in Finds /\ Moves(p) /\ worker'.todo = p
            /\ Verb = "findAll" => overlooked' = overlooked \cup {m \in Nodes : InCreation(m)}
            /\ UNCHANGED vm
        BY <2>4 DEF Looks
      <3>2. Busy /\ worker.todo # <<>> /\ worker.kind = "delete" /\ worker # Idle
        BY <3>1, IdleIs DEF Moves, Busy
      <3>3. Verb = "findAll"
        BY <1>3, <3>1, <3>2 DEF Scope, Verb, Finds
      <3>4. Left(n)
        BY <1>2, <1>4, <3>2
      <3>5. n \in ToSet(worker.copy)
        <4>1. Tail(worker.todo) = <<>>
          BY <1>3, <3>1, <3>2, OrderedTail DEF Verb
        <4>2. Head(worker.todo) # Instr("delete", n)
          BY <3>3 DEF Verb, Instr
        <4>3. ~Ahead(Tail(worker.todo), "delete", n)
          BY <4>1, NothingAhead
        <4>4. ~Ahead(worker.todo, "delete", n)
          BY <1>3, <3>2, <4>2, <4>3, AheadTail
        <4> QED
          BY <1>0, <3>2, <3>4, <4>4
      <3>6. Named(vm[n], n)
        <4>1. n \notin overlooked' /\ Own(n)
          BY <3>4 DEF Left
        <4> QED
          BY <3>1, <3>3, <4>1 DEF InCreation, Own
      <3>7. n \in ToSet(Existing(worker.copy))
        BY <1>1, <3>2, <3>5, <3>6, ExistingAre
      <3>8. AnyNode \in Nodes
        BY DEF AnyNode
      <3>9. Ahead(p, "delete", n)
        <4>1. TypeInv /\ ShapeInv
          BY DEF BaseInv
        <4>2. worker.kind # "deleteNode"
          BY <3>2
        <4> HIDE DEF p
        <4> QED
          BY <3>1, <3>2, <3>3, <3>7, <3>8, <4>1, <4>2, ThenIs DEF p
      <3> QED
        BY <3>1, <3>9
    <2>5. Declines \/ Halts => worker' = Idle
      BY DEF Declines, Halts
    <2>6. Handles \/ Drifting => UNCHANGED worker
      BY DEF Handles, Drifting
    <2> QED
      BY <2>0, <2>1, <2>2, <2>3, <2>4, <2>5, <2>6, StepCases
  <1>7. Kept3'
    <2> SUFFICES ASSUME Busy', ~Lacks(worker'.todo, {"drop"}), Left(worker.node)'
                 PROVE  Ahead(worker'.todo, "delete", worker'.node)
      OBVIOUS
    <2>0. worker' # Idle /\ worker'.node \in Nodes
      BY IdleIs DEF Busy, Workers
    <2> DEFINE x == worker'.node
    <2>00. PICK n \in Nodes : n = worker'.node
      BY <2>0
    <2>01. Left(n)'
      BY <2>00
    <2>1. CASE UNCHANGED worker
      <3>1. Left(n)
        BY <1>2, <1>4, <2>01, <2>1
      <3> QED
        BY <1>0, <2>00, <2>1, <3>1 DEF Busy
    <2>2. CASE Begins
      <3>1. PICK e \in Events :
               /\ CanBegin(e)
               /\ worker' = [kind |-> e.kind, node |-> e.node, copy |-> record, used |-> {}, todo |-> Begin(e)]
        BY <2>2 DEF Begins
      <3> DEFINE w == worker'
      <3>2. Lacks(w.todo, {"drop", "unhost", "delete"})
        <4>1. TypeInv /\ KeepsMaster
          BY DEF BaseInv, RecordInv
        <4> HIDE DEF w
        <4> QED
          BY <3>1, <4>1, BeginIs DEF w
      <3> QED
        BY <3>2 DEF Lacks
    <2>3. CASE Waits \/ Asks \/ Commands \/ Drops \/ Erases
      <3>1. Passes
        BY <2>0, <2>3, PassesAre
      <3>2. /\ Busy /\ worker.todo # <<>> /\ worker'.node = worker.node /\ worker.node = n
            /\ ~Lacks(worker.todo, {"drop"})
        <4>1. {"drop"} \cap Again = {}
          BY DEF Again
        <4> QED
          BY <2>00, <3>1, <4>1 DEF Passes
      <3>3. Left(n)
        BY <1>2, <1>4, <2>01, <3>2
      <3>4. Ahead(worker.todo, "delete", n)
        BY <1>0, <3>2, <3>3
      <3>5. Ahead(worker'.todo, "delete", n) \/ (Verb = "delete" /\ Node = n)
        BY <3>1, <3>4 DEF Passes
      <3>6. CASE Verb = "delete" /\ Node = n
        <4>1. Asks
          BY <2>3, <3>6 DEF Waits, Asks, Commands, Drops, Erases, Requests
        <4> QED
          BY <2>0, <2>01, <3>6, <4>1, DeleteAsked
      <3> QED
        BY <2>00, <3>5, <3>6
    <2>4. CASE Looks
      <3> DEFINE p == Then(Verb, Node)
      <3>1. /\ Verb \in Finds /\ Moves(p) /\ worker'.todo = p
            /\ Verb \in {"findNode", "findAgain"} =>
                   overlooked' = overlooked \cup {m \in Nodes : InCreation(m)}
            /\ UNCHANGED vm
        BY <2>4 DEF Looks
      <3>2. Busy /\ worker.todo # <<>> /\ worker # Idle /\ worker'.kind = worker.kind
            /\ worker'.node = worker.node /\ worker.node = n
        BY <2>00, <3>1, IdleIs DEF Moves, Busy
      <3>3. worker.kind = "deleteNode"
        <4> DEFINE w == worker'
        <4>1. w.todo \in Seq(Scoped(w))
          BY DEF BaseInv, ShapeInv, Shaped
        <4> HIDE DEF w
        <4>2. w.kind = "deleteNode"
          BY <4>1, Scopes DEF w
        <4> QED
          BY <3>2, <4>2 DEF w
      <3>4. Verb \in {"findNode", "findAgain", "findRest"} /\ Node = n
        BY <1>3, <3>1, <3>2, <3>3 DEF Scope, Verb, Node, Finds
      <3>5. Left(n)
        BY <1>2, <1>4, <2>01, <3>2, <3>3
      <3>6. Verb \in {"findNode", "findAgain"} => ExistsVm(n)
        <4>1. n \notin overlooked' /\ Own(n)
          BY <2>01, <3>5 DEF Left
        <4> QED
          BY <3>1, <4>1 DEF InCreation, Own, ExistsVm
      <3>7. /\ Verb = "findNode" => (ExistsVm(Node) => Lacks(p, {"drop", "unhost", "delete"}))
            /\ Verb = "findAgain" => (ExistsVm(Node) => Ahead(p, "delete", Node))
            /\ Verb = "findRest" => Lacks(p, {"drop"})
        <4>1. TypeInv /\ ShapeInv /\ record # NoRecord
          BY <3>2, <3>3 DEF BaseInv, RecordInv
        <4>2. AnyNode \in Nodes
          BY DEF AnyNode
        <4> HIDE DEF p
        <4> QED
          BY <3>1, <3>2, <4>1, <4>2, ThenIs DEF p
      <3> HIDE DEF p
      <3>8. CASE Verb = "findNode"
        <4>1. Lacks(p, {"drop"})
          BY <3>4, <3>6, <3>7, <3>8 DEF Lacks
        <4> QED
          BY <3>1, <4>1
      <3>9. CASE Verb = "findAgain"
        BY <2>00, <3>1, <3>4, <3>6, <3>7, <3>9
      <3>10. CASE Verb = "findRest"
        BY <3>1, <3>7, <3>10
      <3> QED
        BY <3>4, <3>8, <3>9, <3>10
    <2>5. Declines \/ Halts => worker' = Idle
      BY DEF Declines, Halts
    <2>6. Handles \/ Drifting => UNCHANGED worker
      BY DEF Handles, Drifting
    <2> QED
      BY <2>0, <2>1, <2>2, <2>3, <2>4, <2>5, <2>6, StepCases
  <1> QED
    BY <1>5, <1>6, <1>7 DEF GoneInv

LEMMA GoneInit ==
    ASSUME Init PROVE GoneInv
  <1>1. \A n \in Nodes : ~Left(n)
    BY DEF Init, Left, Own
  <1>2. worker \notin Workers
    BY IdleIs DEF Init
  <1> QED
    BY <1>1, <1>2 DEF GoneInv, Busy

(* The record of a cluster is erased only when none of its VMs will be     *)
(* left: whatever fails, is retried or killed, a VM that is left behind was*)
(* still being created when a deletion listed the VMs.                     *)
THEOREM ErasedRecordLeavesNoVM == Spec => []ErasedMeansGone
  <1>1. Init => BaseInv /\ GoneInv
    BY BaseInit, GoneInit
  <1>2. BaseInv /\ GoneInv /\ [Next]_vars => BaseInv' /\ GoneInv'
    BY BaseNext, GoneNext
  <1>3. GoneInv => ErasedMeansGone
    BY DEF GoneInv, ErasedMeansGone, Left
  <1> QED
    BY <1>1, <1>2, <1>3, PTL DEF Spec

-----------------------------------------------------------------------------
(* Nothing is asked of a VM of somebody else. *)

LEMMA CreateRefused ==
    ASSUME NEW v, v # NoVM, NEW n, NEW a \in Answers("create", v, n)
    PROVE  ~a.ok
  <1>1. a \in Refused(v)
    BY DEF Answers, CreateVM
  <1> QED
    BY <1>1 DEF Refused, Answer

\* The instruction at hand asks nothing of a stranger, if it is no creation.
LEMMA HeadGuarded ==
    ASSUME BaseInv, StrangerInv, Busy, worker.todo # <<>>, worker.kind # "change", Verb \in Touches
    PROVE  Node \notin strangers
  <1>1. worker.todo \in Seq(Scoped(worker)) /\ Guarded(worker.todo, strangers)
    BY TailShape DEF BaseInv, StrangerInv
  <1>2. Head(worker.todo) = worker.todo[1] /\ 1 \in 1..Len(worker.todo) /\ 1..(1 - 1) = {}
    BY <1>1, TailIs
  <1> QED
    BY <1>1, <1>2 DEF Guarded, Verb, Node

LEMMA StrangerNext ==
    ASSUME BaseInv, BaseInv', StrangerInv, [Next]_vars
    PROVE  StrangerInv'
  <1> DEFINE Theirs(n) == vm[n] # NoVM /\ vm[n].owner = Foreign
  <1>1. /\ vm \in [Nodes -> VM \cup {NoVM}] /\ strangers \subseteq Nodes
        /\ \A n \in strangers : Theirs(n)
        /\ worker = Idle \/ worker \in Workers
        /\ ShapeInv
    BY DEF BaseInv, TypeInv, StrangerInv
  <1>2. \A n \in strangers : ~Reachable(n) /\ ~Named(vm[n], n)
    BY <1>1, ForeignAssumption DEF Reachable, Named
  <1>3. Busy /\ worker.todo # <<>> => worker.todo \in Seq(Scoped(worker)) /\ Node \in Nodes
    BY <1>1, TailShape
  <1>4. \A n \in strangers' : vm'[n] # NoVM /\ vm'[n].owner = Foreign
    <2> SUFFICES ASSUME NEW n \in strangers' PROVE vm'[n] # NoVM /\ vm'[n].owner = Foreign
      OBVIOUS
    <2>1. CASE Begins \/ Declines
      BY <2>1 DEF Begins, Declines
    <2>2. CASE Handles \/ Halts \/ Waits \/ Looks \/ Drops \/ Erases
      BY <1>1, <2>2 DEF Handles, Halts, Waits, Kept, Looks, Drops, Erases
    <2>3. CASE Commands
      <3>1. strangers' = strangers /\ Node \notin strangers
        BY <1>2, <2>3 DEF Commands
      <3>2. \E v : vm' = [vm EXCEPT ![Node] = v]
        BY <2>3 DEF Commands
      <3> QED
        BY <1>1, <3>1, <3>2
    <2>4. CASE Asks
      <3>1. strangers' = strangers /\ Node \in Nodes /\ n \in Nodes
        BY <1>1, <1>3, <2>4 DEF Asks
      <3>2. PICK a \in Answers(Verb, vm[Node], Node) : vm' = [vm EXCEPT ![Node] = a.vm]
        BY <2>4 DEF Asks
      <3>3. CASE n # Node
        BY <1>1, <3>1, <3>2, <3>3
      <3>4. CASE n = Node
        <4> DEFINE v == vm[n]
                   w == a.vm
        <4>1. v \in VM /\ v # NoVM /\ v.owner = Foreign /\ vm'[n] = w
          BY <1>1, <3>1, <3>2, <3>4
        <4>2. w = v \/ w = [v EXCEPT !.task = w.task]
          BY <2>4, <3>1, <3>4, <4>1, AnswerIs DEF Asks
        <4>3. w.owner = v.owner /\ w.state = v.state /\ v.state # "none"
          <5> HIDE DEF v, w
          <5> QED
            BY <4>1, <4>2 DEF VM
        <4> QED
          BY <4>1, <4>3 DEF NoVM
      <3> QED
        BY <3>3, <3>4
    <2>5. CASE Drifting
      <3>1. PICK m \in Nodes : \E v \in Drifts(vm[m]) :
               vm' = [vm EXCEPT ![m] = v] /\ strangers' = strangers \ {m}
        BY <2>5 DEF Drifting
      <3> QED
        BY <1>1, <3>1
    <2> QED
      BY <2>1, <2>2, <2>3, <2>4, <2>5, StepCases
  <1>5. Busy' /\ worker'.kind # "change" => Guarded(worker'.todo, strangers')
    <2> SUFFICES ASSUME Busy', worker'.kind # "change" PROVE Guarded(worker'.todo, strangers')
      OBVIOUS
    <2>0. worker' # Idle
      BY IdleIs DEF Busy
    <2>1. CASE Handles \/ Drifting
      <3>1. UNCHANGED worker /\ strangers' \subseteq strangers
        BY <2>1 DEF Handles, Drifting
      <3>2. Guarded(worker.todo, strangers)
        BY <3>1 DEF StrangerInv, Busy
      <3> QED
        BY <3>1, <3>2 DEF Guarded
    <2>2. CASE Begins
      <3>1. PICK e \in Events :
               /\ CanBegin(e)
               /\ worker' = [kind |-> e.kind, node |-> e.node, copy |-> record, used |-> {}, todo |-> Begin(e)]
        BY <2>2 DEF Begins
      <3> DEFINE w == worker'
      <3>2. w.kind # "change" => \A S : Guarded(w.todo, S)
        <4>1. TypeInv /\ KeepsMaster
          BY DEF BaseInv, RecordInv
        <4> HIDE DEF w
        <4> QED
          BY <3>1, <4>1, BeginIs DEF w
      <3> QED
        BY <3>2
    <2>3. ASSUME Moves(<<>>), strangers' = strangers, \A n \in strangers : Head(worker.todo) # Instr("create", n)
          PROVE  Guarded(worker'.todo, strangers')
      <3>1. Busy /\ worker.todo # <<>> /\ worker.kind # "change"
        BY <2>3 DEF Moves
      <3>2. worker.todo \in Seq(Scoped(worker)) /\ Guarded(worker.todo, strangers)
        BY <1>3, <3>1 DEF StrangerInv
      <3>3. Guarded(Tail(worker.todo), strangers)
        BY <2>3, <3>1, <3>2, GuardedTail
      <3>4. worker'.todo = Tail(worker.todo)
        BY <1>1, <2>3, ProceedShape
      <3> QED
        BY <2>3, <3>3, <3>4
    <2>4. \A n : Head(worker.todo) = Instr("create", n) => Verb = "create" /\ Node = n
      BY DEF Instr, Verb, Node
    <2>5. CASE Commands \/ Drops \/ Erases
      <3>1. Moves(<<>>) /\ strangers' = strangers /\ Verb # "create"
        BY <2>0, <2>5 DEF Commands, Drops, Erases
      <3> QED
        BY <2>3, <2>4, <3>1
    <2>6. CASE Asks
      <3>1. PICK a \in Answers(Verb, vm[Node], Node) : a.ok /\ Moves(<<>>)
        BY <2>0, <2>6 DEF Asks
      <3>2. strangers' = strangers
        BY <2>6 DEF Asks
      <3>3. \A n \in strangers : Verb = "create" /\ Node = n => FALSE
        BY <1>1, <3>1, CreateRefused
      <3> QED
        BY <2>3, <2>4, <3>1, <3>2, <3>3
    <2>7. CASE Waits
      <3>1. PICK q \in Seq(About(Again, {Node})) :
               Moves(q) /\ (q = <<>> \/ Reachable(Node) \/ Verb \in Touches)
        BY <2>7 DEF Waits
      <3>2. strangers' = strangers /\ Verb # "create"
        BY <2>7 DEF Waits, Kept, Requests
      <3>3. CASE q = <<>>
        BY <2>3, <2>4, <3>1, <3>2, <3>3
      <3>4. CASE q # <<>>
        <4> DEFINE t == Tail(worker.todo)
        <4>1. Busy /\ worker.todo # <<>> /\ worker.kind # "change" /\ worker'.todo = q \o t
          BY <3>1 DEF Moves
        <4>2. Node \notin strangers
          BY <1>2, <3>1, <3>4, <4>1, HeadGuarded
        <4>3. Guarded(q, strangers)
          <5>1. {Node} \cap strangers = {}
            BY <4>2
          <5> QED
            BY <5>1, GuardedPlain
        <4>4. worker.todo \in Seq(Scoped(worker)) /\ Guarded(worker.todo, strangers) /\ Node \in Nodes
          BY <1>3, <4>1 DEF StrangerInv
        <4>5. Guarded(t, strangers) /\ t \in Seq(Scoped(worker))
          <5>1. \A n \in strangers : Head(worker.todo) # Instr("create", n)
            BY <2>4, <3>2
          <5>2. Guarded(t, strangers)
            BY <4>1, <4>4, <5>1, GuardedTail
          <5>3. t \in Seq(Scoped(worker))
            BY <4>1, <4>4, TailIs
          <5> QED
            BY <5>2, <5>3
        <4>6. q \in Seq(Scoped(worker))
          BY <4>4, AgainIs
        <4> HIDE DEF t
        <4>7. \A k \in 1..Len(t) : t[k].do \in Touches /\ t[k].node \in strangers =>
                 \E j \in 1..(k - 1) : t[j] = Instr("create", t[k].node)
          BY <4>5 DEF Guarded
        <4>8. Guarded(q \o t, strangers)
          BY <4>3, <4>5, <4>6, <4>7, GuardedConcat
        <4> QED
          BY <3>2, <4>1, <4>8
      <3> QED
        BY <3>3, <3>4
    <2>8. CASE Looks
      <3> DEFINE p == Then(Verb, Node)
      <3>1. Verb \in Finds /\ Moves(p) /\ worker'.todo = p /\ strangers' = strangers
        BY <2>8 DEF Looks
      <3>2. Busy /\ worker.todo # <<>> /\ worker # Idle
        BY <3>1, IdleIs DEF Moves, Busy
      <3>3. TypeInv /\ ShapeInv /\ (record # NoRecord \/ worker.kind # "deleteNode")
        BY <3>2 DEF BaseInv, RecordInv
      <3>4. AnyNode \in Nodes
        BY <1>3, <3>2 DEF AnyNode
      <3> HIDE DEF p
      <3>5. \A S : (\A n \in S : ~Named(vm[n], n)) => Guarded(p, S)
        BY <3>1, <3>2, <3>3, <3>4, ThenIs DEF p
      <3> QED
        BY <1>2, <3>1, <3>5
    <2>9. Declines \/ Halts => worker' = Idle
      BY DEF Declines, Halts
    <2> QED
      BY <2>0, <2>1, <2>2, <2>5, <2>6, <2>7, <2>8, <2>9, StepCases
  <1> QED
    BY <1>4, <1>5 DEF StrangerInv

(* A VM of somebody else that has the id of a node when a use case begins   *)
(* is left alone: a creation there is refused, and no other request is made *)
(* but behind one.  Only change_resources goes by the id alone.             *)
THEOREM ForeignVmsAreSafe == Spec => []ForeignIsSafe
  <1>1. Init => BaseInv /\ StrangerInv
    <2>1. Init => StrangerInv
      BY IdleIs DEF Init, StrangerInv, Busy
    <2> QED
      BY <2>1, BaseInit
  <1>2. BaseInv /\ StrangerInv /\ [Next]_vars => BaseInv' /\ StrangerInv'
    BY BaseNext, StrangerNext
  <1>3. BaseInv /\ StrangerInv => ForeignIsSafe
    <2> SUFFICES ASSUME BaseInv, StrangerInv, NEW n \in strangers, NEW d \in Requests \ {"create"},
                        worker # Idle, worker.kind # "change", Current(d), Node = n
                 PROVE  FALSE
      BY DEF ForeignIsSafe
    <2>1. Busy /\ worker.todo # <<>> /\ Verb \in Touches
      BY DEF BaseInv, TypeInv, Busy, Current, Verb, Touches
    <2> QED
      BY <2>1, HeadGuarded
  <1> QED
    BY <1>1, <1>2, <1>3, PTL DEF Spec

-----------------------------------------------------------------------------
(* The members of the Kubernetes cluster have their VMs. *)

\* A VM that is there to stay stays, until it is asked to be deleted.
LEMMA SettledNext ==
    ASSUME BaseInv, [Next]_vars, NEW n \in Nodes, Settled(n), ~(Asks /\ Verb = "delete" /\ Node = n)
    PROVE  /\ Settled(n)'
           /\ \/ vm[n].hosts \subseteq vm'[n].hosts
              \/ /\ Commands /\ Verb = "unhost" /\ Node = n
                 /\ vm'[n].hosts = vm[n].hosts \ Matched[worker.node]
  <1> DEFINE v == vm[n]
             w == vm'[n]
             Goal == /\ w # NoVM /\ w.owner = n /\ w.state \in {"stopped", "running"} /\ w.task # "delete"
                     /\ \/ v.hosts \subseteq w.hosts
                        \/ /\ Commands /\ Verb = "unhost" /\ Node = n
                           /\ w.hosts = v.hosts \ Matched[worker.node]
  <1> SUFFICES Goal
    BY DEF Settled, Own
  <1>1. /\ vm' \in [Nodes -> VM \cup {NoVM}] /\ vm \in [Nodes -> VM \cup {NoVM}] /\ VmOK(v)
        /\ v \in VM /\ v # NoVM /\ v.owner = n /\ v.state \in {"stopped", "running"} /\ v.task # "delete"
    BY VmTypes DEF BaseInv, TypeInv, VmInv, VmOK, Settled, Own
  <1>2. CASE w = v
    BY <1>1, <1>2
  <1>3. CASE w # v /\ Asks
    <2>1. Node = n /\ Verb \in Requests
      BY <1>1, <1>3 DEF Asks
    <2>2. PICK a \in Answers(Verb, v, n) : vm' = [vm EXCEPT ![n] = a.vm]
      BY <1>3, <2>1 DEF Asks
    <2>3. w = a.vm
      BY <1>1, <2>2
    <2>4. w = [v EXCEPT !.task = w.task] /\ w.task # "delete"
      <3>1. Verb # "delete"
        BY <1>3, <2>1
      <3> QED
        BY <1>1, <1>3, <2>1, <2>2, <2>3, <3>1, AnswerIs
    <2>5. w.owner = v.owner /\ w.state = v.state /\ w.hosts = v.hosts
      <3> HIDE DEF v, w
      <3> QED
        BY <1>1, <2>4 DEF VM
    <2> QED
      BY <1>1, <2>4, <2>5 DEF NoVM
  <1>4. CASE w # v /\ Commands
    <2>1. Node = n
      BY <1>1, <1>4 DEF Commands
    <2>2. PICK u \in VM : /\ vm' = [vm EXCEPT ![n] = u]
                          /\ u.owner = n /\ u.state = "running" /\ u.task = v.task /\ HostsOf(u)
      BY <1>4, <2>1 DEF Commands
    <2>3. w = u /\ u # NoVM
      BY <1>1, <2>2 DEF NoVM
    <2> QED
      BY <1>1, <1>4, <2>1, <2>2, <2>3 DEF HostsOf
  <1>5. CASE w # v /\ Drifting
    <2>1. PICK m \in Nodes : \E u \in Drifts(vm[m]) : vm' = [vm EXCEPT ![m] = u]
      BY <1>5 DEF Drifting
    <2>2. m = n /\ w \in Drifts(v)
      BY <1>1, <1>5, <2>1
    <2>3. w.state \in {"stopped", "running"} /\ w = [v EXCEPT !.state = w.state, !.task = "none"]
      BY <1>1, <2>2, DriftIs, ForeignAssumption
    <2>4. w.owner = v.owner /\ w.hosts = v.hosts /\ w.task = "none"
      <3> HIDE DEF v, w
      <3> QED
        BY <1>1, <2>3 DEF VM
    <2> QED
      BY <1>1, <2>3, <2>4 DEF NoVM
  <1>6. Handles \/ Begins \/ Declines \/ Halts \/ Waits \/ Looks \/ Drops \/ Erases => w = v
    BY DEF Handles, Begins, Declines, Halts, Waits, Kept, Looks, Drops, Erases
  <1> QED
    BY <1>2, <1>3, <1>4, <1>5, <1>6, StepCases

\* The node at hand has a VM that runs.
LEMMA ReachableSettled ==
    ASSUME BaseInv, Commands
    PROVE  Node \in Nodes /\ Settled(Node) /\ ~Asks
  <1>1. Node \in Nodes /\ Reachable(Node)
    BY TailShape DEF Commands, BaseInv
  <1>2. VmInv
    BY DEF BaseInv
  <1>3. ~Asks
    BY DEF Commands, Asks, Requests
  <1> QED
    BY <1>1, <1>2, <1>3 DEF Reachable, Running, VmInv, Settled, Own

LEMMA MemberNext ==
    ASSUME BaseInv, BaseInv', MemberInv, [Next]_vars
    PROVE  MemberInv'
  <1> SUFFICES ASSUME ~demolished' PROVE MemberInv'
    BY DEF MemberInv
  <1> DEFINE Gone == {"drop", "unhost", "delete"}
  <1>1. ~demolished
    BY StepCases DEF Handles, Begins, Declines, Halts, Waits, Kept, Asks, Looks, Commands, Drops, Erases,
          Drifting
  <1>2. /\ \A n \in members : Settled(n)
        /\ Busy => worker.kind # "delete"
        /\ members # {} => record # NoRecord /\ members \subseteq ToSet(record)
        /\ Busy /\ worker.kind \in {"create", "add"} => members \subseteq ToSet(worker.copy)
        /\ Busy /\ worker.kind = "deleteNode" /\ worker.todo # <<>>
              /\ Lacks(worker.todo, {"findNode", "remove"}) => worker.node \notin members
        /\ Busy /\ worker.kind = "deleteNode" /\ ~Lacks(worker.todo, Gone) => worker.node \notin members
    BY <1>1 DEF MemberInv
  <1>3. /\ members \subseteq Nodes /\ ShapeInv
        /\ record = NoRecord \/ record \in Seq(Nodes)
        /\ worker = Idle \/ worker \in Workers
    BY DEF BaseInv, TypeInv
  <1>4. Busy /\ worker.todo # <<>> =>
            /\ Scope(worker, Head(worker.todo)) /\ Node \in Nodes
            /\ worker.todo \in Seq(Scoped(worker)) /\ Ordered(worker.todo)
    BY <1>3, TailShape
  <1>5. Gone \cap Again = {} /\ {"findNode", "remove"} \cap Again = {}
    BY DEF Again
  <1>6. Busy /\ worker.todo # <<>> /\ Verb \in Gone => ~Lacks(worker.todo, Gone)
    <2> HIDE DEF Gone
    <2> QED
      BY <1>4, LacksTail DEF Verb
  <1>7. ASSUME Asks, Verb = "delete" PROVE Node \notin members
    <2>1. Busy /\ worker.todo # <<>>
      BY <1>7 DEF Asks
    <2>2. worker.kind = "deleteNode" /\ Node = worker.node
      BY <1>2, <1>4, <1>7, <2>1 DEF Scope, Verb, Node
    <2> QED
      BY <1>2, <1>6, <1>7, <2>1, <2>2
  <1>8. \A n \in members : Settled(n)'
    BY <1>2, <1>3, <1>7, SettledNext
  \* Who becomes a member
  <1>9. \/ members' \subseteq members
        \/ /\ Commands /\ members' \subseteq members \cup {Node}
           /\ worker.kind \in {"create", "add"} /\ Node \in ToSet(worker.copy)
           /\ worker.kind = "add" => Node = worker.node
    <2>1. CASE Commands
      <3>1. Busy /\ worker.todo # <<>>
        BY <2>1 DEF Commands
      <3>2. Verb \in {"ready", "join"} =>
               /\ worker.kind \in {"create", "add"} /\ Node \in ToSet(worker.copy)
               /\ worker.kind = "add" => Node = worker.node
        BY <1>4, <3>1 DEF Scope, Verb, Node
      <3>3. \/ members' \subseteq members
            \/ Verb \in {"ready", "join"} /\ members' \subseteq members \cup {Node}
        BY <2>1 DEF Commands, MembersOf
      <3> QED
        BY <2>1, <3>2, <3>3
    <2>2. \/ Handles \/ Begins \/ Declines \/ Halts \/ Waits \/ Asks \/ Looks \/ Drops \/ Erases \/ Drifting
          => members' = members
      BY DEF Handles, Begins, Declines, Halts, Waits, Kept, Asks, Looks, Drops, Erases, Drifting
    <2> QED
      BY <2>1, <2>2, StepCases
  <1>10. \A n \in members' : Settled(n)'
    <2> SUFFICES ASSUME NEW n \in members', n \notin members PROVE Settled(n)'
      BY <1>8
    <2>1. Commands /\ n = Node
      BY <1>9
    <2>2. n \in Nodes /\ Settled(n) /\ ~Asks
      BY <2>1, ReachableSettled
    <2> QED
      BY <2>2, SettledNext
  <1>11. Busy' => worker'.kind # "delete"
    <2>1. CASE Begins
      <3>1. PICK e \in Events :
               /\ worker' = [kind |-> e.kind, node |-> e.node, copy |-> record, used |-> {}, todo |-> Begin(e)]
               /\ demolished' = (demolished \/ e.kind = "delete")
        BY <2>1 DEF Begins
      <3>2. e.kind # "delete"
        BY <3>1
      <3> QED
        BY <3>1, <3>2
    <2> QED
      BY <1>2, <2>1, MovesOn, IdleIs DEF Busy
  <1>12. members' # {} => record' # NoRecord /\ members' \subseteq ToSet(record')
    <2> SUFFICES ASSUME NEW n \in members' PROVE record' # NoRecord /\ n \in ToSet(record')
      OBVIOUS
    <2>1. CASE n \notin members
      <3>1. Commands /\ n = Node /\ worker.kind \in {"create", "add"} /\ Node \in ToSet(worker.copy)
        BY <1>9, <2>1
      <3>2. Busy /\ UNCHANGED record
        BY <3>1 DEF Commands
      <3> QED
        BY <3>1, <3>2 DEF BaseInv, RecordInv
    <2>2. CASE n \in members
      <3>1. record # NoRecord /\ n \in ToSet(record) /\ record \in Seq(Nodes)
        BY <1>2, <1>3, <2>2
      <3>2. CASE UNCHANGED record
        BY <3>1, <3>2
      <3>3. CASE Handles
        <4>1. CASE \E m \in Nodes : record' = Append(record, m)
          <5>1. PICK m \in Nodes : record' = Append(record, m)
            BY <4>1
          <5>2. PICK k \in 1..Len(record) : record[k] = n
            BY <3>1, InToSet
          <5> DEFINE r == record'
          <5>3. r \in Seq(Nodes) /\ k \in 1..Len(r) /\ r[k] = n
            BY <3>1, <5>1, <5>2
          <5> HIDE DEF r
          <5>4. n \in ToSet(r) /\ r # NoRecord
            BY <5>3, InToSet, NoRecordAssumption
          <5> QED
            BY <5>4 DEF r
        <4> QED
          BY <3>1, <3>2, <3>3, <4>1 DEF Handles
      <3>4. CASE Drops
        <4>1. Busy /\ worker.todo # <<>> /\ Verb = "drop" /\ record' = Others(record, Node)
          BY <3>4 DEF Drops, Moves
        <4>2. record' \in Seq(Nodes) /\ ToSet(record') = ToSet(record) \ {Node}
          BY <3>1, <4>1, OthersAre
        <4>3. Node = worker.node /\ worker.kind = "deleteNode"
          BY <1>4, <4>1 DEF Scope, Verb, Node
        <4>4. n # worker.node
          BY <1>2, <1>6, <2>2, <4>1, <4>3
        <4> QED
          BY <3>1, <4>2, <4>3, <4>4, NoRecordAssumption
      <3>5. CASE Erases
        <4>1. Busy /\ worker.todo # <<>> /\ Verb = "erase"
          BY <3>5 DEF Erases, Moves
        <4> QED
          BY <1>2, <1>4, <4>1 DEF Scope, Verb
      <3>6. Begins \/ Declines \/ Halts \/ Waits \/ Asks \/ Looks \/ Commands \/ Drifting => UNCHANGED record
        BY DEF Begins, Declines, Halts, Waits, Kept, Asks, Looks, Commands, Drifting
      <3> QED
        BY <3>2, <3>3, <3>4, <3>5, <3>6, StepCases
    <2> QED
      BY <2>1, <2>2
  <1>13. Busy' /\ worker'.kind \in {"create", "add"} => members' \subseteq ToSet(worker'.copy)
    <2> SUFFICES ASSUME Busy', worker'.kind \in {"create", "add"}
                 PROVE  members' \subseteq ToSet(worker'.copy)
      OBVIOUS
    <2>1. CASE Begins
      <3>1. PICK e \in Events : worker' = [kind |-> e.kind, node |-> e.node, copy |-> record,
                                           used |-> {}, todo |-> Begin(e)]
        BY <2>1 DEF Begins
      <3>2. worker'.copy = record /\ members' = members
        BY <2>1, <3>1 DEF Begins
      <3> QED
        BY <1>2, <3>2
    <2>2. CASE Busy /\ worker'.kind = worker.kind /\ worker'.copy = worker.copy
      BY <1>2, <1>9, <2>2
    <2> QED
      BY <2>1, <2>2, MovesOn, IdleIs DEF Busy
  \* While a node is deleted, nobody becomes a member.
  <1>14. Busy /\ worker.kind = "deleteNode" => members' \subseteq members
    BY <1>9
  <1>15. Busy' /\ worker'.kind = "deleteNode" /\ worker'.todo # <<>>
            /\ Lacks(worker'.todo, {"findNode", "remove"}) => worker'.node \notin members'
    <2> SUFFICES ASSUME Busy', worker'.kind = "deleteNode", worker'.todo # <<>>,
                        Lacks(worker'.todo, {"findNode", "remove"})
                 PROVE  worker'.node \notin members'
      OBVIOUS
    <2>0. worker' # Idle
      BY IdleIs DEF Busy
    <2>1. CASE Begins
      <3>1. PICK e \in Events :
               /\ CanBegin(e)
               /\ worker' = [kind |-> e.kind, node |-> e.node, copy |-> record, used |-> {}, todo |-> Begin(e)]
        BY <2>1 DEF Begins
      <3> DEFINE w == worker'
      <3>2. w.kind = "deleteNode" /\ w.todo # <<>> => ~Lacks(w.todo, {"findNode"})
        <4>1. TypeInv /\ KeepsMaster
          BY DEF BaseInv, RecordInv
        <4> HIDE DEF w
        <4> QED
          BY <3>1, <4>1, BeginIs DEF w
      <3>3. Lacks(w.todo, {"findNode"})
        BY DEF Lacks
      <3> QED
        BY <3>2, <3>3
    <2>2. CASE Handles \/ Drifting
      BY <1>2, <2>2 DEF Handles, Drifting, Busy
    <2>3. CASE Waits \/ Asks \/ Commands \/ Drops \/ Erases
      <3>1. Passes
        BY <2>0, <2>3, PassesAre
      <3>2. Busy /\ worker.kind = "deleteNode" /\ worker.todo # <<>> /\ worker'.node = worker.node
        BY <3>1 DEF Passes
      <3>3. CASE Verb = "remove"
        BY <2>0, <2>3, <3>2, <3>3 DEF Waits, Asks, Commands, Drops, Erases, Requests
      <3>4. CASE Verb # "remove"
        <4>1. Verb # "findNode"
          BY <2>3 DEF Waits, Asks, Commands, Drops, Erases, Requests, Finds
        <4>2. Lacks(worker.todo, {"findNode", "remove"})
          BY <1>5, <3>1, <3>4, <4>1 DEF Passes
        <4> QED
          BY <1>2, <1>14, <3>2, <4>2
      <3> QED
        BY <3>3, <3>4
    <2>4. CASE Looks
      <3> DEFINE p == Then(Verb, Node)
      <3>1. Verb \in Finds /\ Moves(p) /\ worker'.todo = p /\ members' = members
        BY <2>4 DEF Looks
      <3>2. /\ Busy /\ worker.todo # <<>> /\ worker # Idle /\ worker'.node = worker.node
            /\ worker.kind = "deleteNode" /\ worker.node \in Nodes
        BY <3>1, IdleIs DEF Moves, Busy, Workers
      <3>3. Verb \in {"findNode", "findAgain", "findRest"} /\ Node = worker.node
        BY <1>4, <3>1, <3>2 DEF Scope, Verb, Node, Finds
      <3>4. CASE Verb = "findNode"
        <4>1. Verb = "findNode" => (ExistsVm(Node) => ~Lacks(p, {"remove"}))
          <5>1. TypeInv /\ ShapeInv /\ record # NoRecord
            BY <3>2 DEF BaseInv, RecordInv
          <5>2. AnyNode \in Nodes
            BY <3>2 DEF AnyNode
          <5> HIDE DEF p
          <5> QED
            BY <3>1, <3>2, <5>1, <5>2, ThenIs DEF p
        <4>2. Lacks(p, {"remove"})
          BY <3>1 DEF Lacks
        <4>3. ~ExistsVm(worker.node)
          BY <3>3, <3>4, <4>1, <4>2
        <4> QED
          BY <1>2, <3>1, <3>2, <4>3 DEF ExistsVm, Named, Listed, Settled, Own
      <3>5. CASE Verb # "findNode"
        <4>1. Tail(worker.todo) = <<>>
          BY <1>4, <3>1, <3>2, OrderedTail DEF Verb
        <4>2. Lacks(Tail(worker.todo), {"findNode", "remove"}) /\ Verb \notin {"findNode", "remove"}
          BY <3>3, <3>5, <4>1, NothingAhead
        <4>3. Lacks(worker.todo, {"findNode", "remove"})
          BY <1>4, <3>2, <4>2, LacksTail DEF Verb
        <4> QED
          BY <1>2, <3>1, <3>2, <4>3
      <3> QED
        BY <3>4, <3>5
    <2>5. Declines \/ Halts => worker' = Idle
      BY DEF Declines, Halts
    <2> QED
      BY <2>0, <2>1, <2>2, <2>3, <2>4, <2>5, StepCases
  <1>16. Busy' /\ worker'.kind = "deleteNode" /\ ~Lacks(worker'.todo, Gone) => worker'.node \notin members'
    <2> SUFFICES ASSUME Busy', worker'.kind = "deleteNode", ~Lacks(worker'.todo, Gone)
                 PROVE  worker'.node \notin members'
      OBVIOUS
    <2>0. worker' # Idle
      BY IdleIs DEF Busy
    <2>1. CASE Begins
      <3>1. PICK e \in Events :
               /\ CanBegin(e)
               /\ worker' = [kind |-> e.kind, node |-> e.node, copy |-> record, used |-> {}, todo |-> Begin(e)]
        BY <2>1 DEF Begins
      <3> DEFINE w == worker'
      <3>2. Lacks(w.todo, Gone)
        <4>1. TypeInv /\ KeepsMaster
          BY DEF BaseInv, RecordInv
        <4> HIDE DEF w
        <4> QED
          BY <3>1, <4>1, BeginIs DEF w
      <3> QED
        BY <3>2
    <2>2. CASE Handles \/ Drifting
      BY <1>2, <2>2 DEF Handles, Drifting, Busy
    <2>3. CASE Waits \/ Asks \/ Commands \/ Drops \/ Erases
      <3>1. Passes
        BY <2>0, <2>3, PassesAre
      <3>2. Busy /\ worker.kind = "deleteNode" /\ worker'.node = worker.node
        BY <3>1 DEF Passes
      <3>3. ~Lacks(worker.todo, Gone)
        BY <1>5, <3>1 DEF Passes
      <3> QED
        BY <1>2, <1>14, <3>2, <3>3
    <2>4. CASE Looks
      <3> DEFINE p == Then(Verb, Node)
      <3>1. Verb \in Finds /\ Moves(p) /\ worker'.todo = p /\ members' = members
        BY <2>4 DEF Looks
      <3>2. /\ Busy /\ worker.todo # <<>> /\ worker # Idle /\ worker'.node = worker.node
            /\ worker.kind = "deleteNode" /\ worker.node \in Nodes
        BY <3>1, IdleIs DEF Moves, Busy, Workers
      <3>3. Verb \in {"findNode", "findAgain", "findRest"} /\ Node = worker.node
        BY <1>4, <3>1, <3>2 DEF Scope, Verb, Node, Finds
      <3>4. CASE Verb = "findNode"
        <4>1. Verb = "findNode" => (ExistsVm(Node) => Lacks(p, Gone))
          <5>1. TypeInv /\ ShapeInv /\ record # NoRecord
            BY <3>2 DEF BaseInv, RecordInv
          <5>2. AnyNode \in Nodes
            BY <3>2 DEF AnyNode
          <5> HIDE DEF p
          <5> QED
            BY <3>1, <3>2, <5>1, <5>2, ThenIs DEF p
        <4>2. ~ExistsVm(worker.node)
          BY <3>1, <3>3, <3>4, <4>1
        <4> QED
          BY <1>2, <3>1, <3>2, <4>2 DEF ExistsVm, Named, Listed, Settled, Own
      <3>5. CASE Verb # "findNode"
        <4>1. Tail(worker.todo) = <<>>
          BY <1>4, <3>1, <3>2, OrderedTail DEF Verb
        <4>2. Lacks(Tail(worker.todo), {"findNode", "remove"}) /\ Verb \notin {"findNode", "remove"}
          BY <3>3, <3>5, <4>1, NothingAhead
        <4>3. Lacks(worker.todo, {"findNode", "remove"})
          BY <1>4, <3>2, <4>2, LacksTail DEF Verb
        <4> QED
          BY <1>2, <3>1, <3>2, <4>3
      <3> QED
        BY <3>4, <3>5
    <2>5. Declines \/ Halts => worker' = Idle
      BY DEF Declines, Halts
    <2> QED
      BY <2>0, <2>1, <2>2, <2>3, <2>4, <2>5, StepCases
  <1> QED
    BY <1>10, <1>11, <1>12, <1>13, <1>15, <1>16 DEF MemberInv

LEMMA MemberInit ==
    ASSUME Init PROVE MemberInv
  <1>1. worker \notin Workers
    BY IdleIs DEF Init
  <1> QED
    BY <1>1 DEF MemberInv, Init, Busy

(* The Kubernetes cluster has no node whose VM is gone, unless the whole   *)
(* cluster is being deleted: a node leaves it before its VM is deleted.    *)
THEOREM MembersHaveVMs == Spec => []NoGhostMember
  <1>1. Init => BaseInv /\ MemberInv
    BY BaseInit, MemberInit
  <1>2. BaseInv /\ MemberInv /\ [Next]_vars => BaseInv' /\ MemberInv'
    BY BaseNext, MemberNext
  <1>3. MemberInv => NoGhostMember
    BY DEF MemberInv, NoGhostMember, Settled
  <1> QED
    BY <1>1, <1>2, <1>3, PTL DEF Spec

-----------------------------------------------------------------------------
(* The members of the Kubernetes cluster know each other's addresses. *)

\* What a node of a cluster that is built knows, or will be told
LEMMA InformedNext ==
    ASSUME BaseInv, [Next]_vars, Busy, worker.kind \in {"create", "add"}, NEW n \in Nodes, Informed(n),
           UNCHANGED worker \/ Passes
    PROVE  Informed(n)'
  <1>1. worker.todo # <<>> => Scope(worker, Head(worker.todo))
    BY TailShape DEF BaseInv
  <1>2. worker'.copy = worker.copy /\ Busy'
    BY DEF Passes, Busy
  <1>3. CASE Settled(n) /\ ToSet(worker.copy) \subseteq vm[n].hosts
    <2>1. ~(Asks /\ Verb = "delete") /\ ~(Commands /\ Verb = "unhost")
      BY <1>1 DEF Asks, Commands, Scope, Verb
    <2>2. Settled(n)' /\ vm[n].hosts \subseteq vm'[n].hosts
      BY <1>3, <2>1, SettledNext
    <2> QED
      BY <1>2, <1>3, <2>2 DEF Informed
  <1>4. CASE Ahead(worker'.todo, "setHosts", n)
    BY <1>4 DEF Informed
  <1>5. CASE Ahead(worker.todo, "setHosts", n) /\ ~Ahead(worker'.todo, "setHosts", n)
    <2>1. Verb = "setHosts" /\ Node = n /\ worker' # worker
      BY <1>5 DEF Passes
    <2>2. worker' # Idle /\ worker # Idle
      BY <1>2, IdleIs DEF Busy
    <2>3. Commands
      BY <2>1, <2>2, StepCases DEF Handles, Begins, Declines, Halts, Waits, Asks, Looks, Drops, Erases,
            Drifting, Requests, Finds
    <2>4. PICK v \in VM : vm' = [vm EXCEPT ![n] = v] /\ ToSet(worker.copy) \subseteq v.hosts
      BY <2>1, <2>2, <2>3 DEF Commands
    <2>5. Settled(n)'
      BY <2>1, <2>3, ReachableSettled, SettledNext
    <2>6. vm'[n] = v
      BY <2>4 DEF BaseInv, TypeInv
    <2> QED
      BY <1>2, <2>4, <2>5, <2>6 DEF Informed
  <1> QED
    BY <1>3, <1>4, <1>5 DEF Informed

LEMMA HostsNext ==
    ASSUME \A n \in Nodes : Matched[n] = {n},
           BaseInv, BaseInv', MemberInv, MemberInv', HostsInv, [Next]_vars
    PROVE  HostsInv'
  <1> SUFFICES ASSUME ~demolished' PROVE HostsInv'
    BY DEF HostsInv
  <1>1. ~demolished
    BY StepCases DEF Handles, Begins, Declines, Halts, Waits, Kept, Asks, Looks, Commands, Drops, Erases,
          Drifting
  <1>2. /\ \A a, b \in members : b \in vm[a].hosts
        /\ Busy /\ worker.kind = "create" => \A n \in ToSet(worker.copy) : Informed(n)
        /\ Busy /\ worker.kind = "add" /\ ~Lacks(worker.todo, {"join"}) =>
              \A n \in members \cup {worker.node} : Informed(n)
    BY <1>1 DEF HostsInv, MembersResolve
  <1>3. /\ \A n \in members : Settled(n) /\ n \in Nodes
        /\ Busy /\ worker.kind \in {"create", "add"} => members \subseteq ToSet(worker.copy)
        /\ Busy /\ worker.kind = "deleteNode" /\ ~Lacks(worker.todo, {"drop", "unhost", "delete"}) =>
              worker.node \notin members
    BY <1>1 DEF MemberInv, BaseInv, TypeInv
  <1>4. /\ ShapeInv
        /\ (worker = Idle \/ worker \in Workers)
        /\ Busy => /\ worker.node \in Nodes /\ worker.copy \in Seq(Nodes)
                   /\ ToSet(worker.copy) \subseteq Nodes
                   /\ worker.todo \in Seq(Scoped(worker))
    BY InToSet DEF BaseInv, TypeInv, Busy, Workers, ShapeInv, Shaped
  <1>5. Busy /\ worker.todo # <<>> =>
            /\ Scope(worker, Head(worker.todo)) /\ Node \in Nodes /\ Ordered(worker.todo)
            /\ Tail(worker.todo) \in Seq(Scoped(worker))
    BY <1>4, TailShape
  \* Who is a member still knows the others.
  <1>6. ASSUME NEW a \in members, NEW b \in members PROVE b \in vm'[a].hosts
    <2>1. ~(Asks /\ Verb = "delete" /\ Node = a)
      <3>1. ASSUME Asks, Verb = "delete" PROVE Node \notin members
        <4>1. Busy /\ worker.todo # <<>>
          BY <3>1 DEF Asks
        <4>2. worker.kind = "deleteNode" /\ Node = worker.node
          BY <1>1, <1>5, <3>1, <4>1 DEF Scope, Verb, Node, MemberInv
        <4>3. ~Lacks(worker.todo, {"drop", "unhost", "delete"})
          BY <1>4, <3>1, <4>1, LacksTail DEF Verb
        <4> QED
          BY <1>3, <4>1, <4>2, <4>3
      <3> QED
        BY <3>1
    <2>2. CASE vm[a].hosts \subseteq vm'[a].hosts
      BY <1>2, <2>2
    <2>3. CASE Commands /\ Verb = "unhost" /\ vm'[a].hosts = vm[a].hosts \ Matched[worker.node]
      <3>1. Busy /\ worker.todo # <<>>
        BY <2>3 DEF Commands
      <3>2. worker.kind = "deleteNode"
        BY <1>5, <2>3, <3>1 DEF Scope, Verb
      <3>3. ~Lacks(worker.todo, {"drop", "unhost", "delete"})
        BY <1>4, <2>3, <3>1, LacksTail DEF Verb
      <3>4. worker.node \notin members /\ Matched[worker.node] = {worker.node}
        BY <1>3, <1>4, <3>1, <3>2, <3>3
      <3> QED
        BY <1>2, <2>3, <3>4
    <2> QED
      BY <1>3, <2>1, <2>2, <2>3, SettledNext
  \* Behind a join, nobody is left to be told.
  <1>7. ASSUME Busy, worker.todo # <<>>, Verb \in {"ready", "join"}, NEW n \in Nodes, Informed(n)
        PROVE  ToSet(worker.copy) \subseteq vm[n].hosts
    <2>1. Lacks(Tail(worker.todo), {"setHosts"})
      BY <1>4, <1>5, <1>7, OrderedTail DEF Verb
    <2>2. ~Ahead(Tail(worker.todo), "setHosts", n)
      BY <2>1 DEF Lacks, Ahead, Instr
    <2>3. Head(worker.todo) # Instr("setHosts", n)
      BY <1>7 DEF Verb, Instr
    <2>4. ~Ahead(worker.todo, "setHosts", n)
      BY <1>4, <1>7, <2>2, <2>3, AheadTail
    <2> QED
      BY <1>7, <2>4 DEF Informed
  \* Who is told by a command knows no less.
  <1>8. ASSUME Commands, Verb \in {"ready", "join"}, NEW n \in Nodes, Informed(n)
        PROVE  ToSet(worker.copy) \subseteq vm'[n].hosts
    <2>1. Busy /\ worker.todo # <<>>
      BY <1>8 DEF Commands
    <2>2. ToSet(worker.copy) \subseteq vm[n].hosts
      BY <1>7, <1>8, <2>1
    <2>3. PICK v \in VM : vm' = [vm EXCEPT ![Node] = v] /\ v.hosts = vm[Node].hosts
      BY <1>8 DEF Commands, HostsOf
    <2>4. vm'[n].hosts = vm[n].hosts
      BY <2>3 DEF BaseInv, TypeInv
    <2> QED
      BY <2>2, <2>4
  <1>9. \A a, b \in members' : b \in vm'[a].hosts
    <2>1. CASE members' \subseteq members
      BY <1>6, <2>1
    <2>2. CASE Commands /\ Verb = "ready" /\ worker.kind = "create" /\ members' = {Node}
      <3>1. Busy /\ Node \in Nodes /\ Node \in ToSet(worker.copy)
        BY <1>5, <2>2 DEF Commands, Scope, Verb, Node
      <3>2. PICK n \in Nodes : n = Node
        BY <3>1
      <3>3. ToSet(worker.copy) \subseteq vm'[n].hosts
        BY <1>2, <1>8, <2>2, <3>1, <3>2
      <3> QED
        BY <2>2, <3>1, <3>2, <3>3
    <2>3. CASE Commands /\ Verb = "join" /\ members' = members \cup {Node}
      <3>1. /\ Busy /\ worker.todo # <<>> /\ Node \in Nodes /\ Node \in ToSet(worker.copy)
            /\ worker.kind \in {"create", "add"} /\ (worker.kind = "add" => Node = worker.node)
        BY <1>5, <2>3 DEF Commands, Scope, Verb, Node
      <3>2. ~Lacks(worker.todo, {"join"})
        BY <1>4, <2>3, <3>1, LacksTail DEF Verb
      <3>3. members \cup {Node} \subseteq ToSet(worker.copy)
        BY <1>3, <3>1
      <3>4. \A n \in members \cup {Node} : n \in Nodes /\ Informed(n)
        BY <1>2, <1>3, <3>1, <3>2, <3>3
      <3>5. \A n \in members \cup {Node} : ToSet(worker.copy) \subseteq vm'[n].hosts
        BY <1>8, <2>3, <3>4
      <3> QED
        BY <2>3, <3>3, <3>5
    <2>4. Commands => MembersOf
      BY DEF Commands
    <2>5. \/ Handles \/ Begins \/ Declines \/ Halts \/ Waits \/ Asks \/ Looks \/ Drops \/ Erases \/ Drifting
          => members' = members
      BY DEF Handles, Begins, Declines, Halts, Waits, Kept, Asks, Looks, Drops, Erases, Drifting
    <2> QED
      BY <2>1, <2>2, <2>3, <2>4, <2>5, StepCases DEF MembersOf
  \* A worker that has begun a creation or an addition
  <1>10. ASSUME Busy', worker'.kind \in {"create", "add"}
         PROVE  \/ Begins
                \/ Looks /\ worker.kind = "add"
                \/ /\ Busy /\ worker'.kind = worker.kind /\ worker'.node = worker.node
                   /\ worker'.copy = worker.copy /\ (UNCHANGED worker \/ Passes)
    <2>1. worker' # Idle
      BY <1>10, IdleIs DEF Busy
    <2>2. CASE Waits \/ Asks \/ Commands \/ Drops \/ Erases
      BY <2>1, <2>2, PassesAre DEF Passes
    <2>3. CASE Handles \/ Drifting
      BY <1>10, <2>3 DEF Handles, Drifting, Busy
    <2>4. CASE Looks
      <3>1. Busy /\ worker.todo # <<>> /\ Verb \in Finds /\ worker'.kind = worker.kind
        BY <2>4 DEF Looks, Moves
      <3>2. worker.kind = "add"
        BY <1>5, <1>10, <3>1 DEF Scope, Verb, Finds
      <3> QED
        BY <2>4, <3>2
    <2> QED
      BY <2>1, <2>2, <2>3, <2>4, StepCases DEF Declines, Halts
  <1>11. Begins => \E e \in Events :
            /\ CanBegin(e)
            /\ worker' = [kind |-> e.kind, node |-> e.node, copy |-> record, used |-> {}, todo |-> Begin(e)]
    BY DEF Begins
  <1>12. Busy' /\ worker'.kind = "create" => \A n \in ToSet(worker'.copy) : Informed(n)'
    <2> SUFFICES ASSUME Busy', worker'.kind = "create", NEW n \in ToSet(worker'.copy) PROVE Informed(n)'
      OBVIOUS
    <2>1. CASE Begins
      <3>1. PICK e \in Events :
               /\ CanBegin(e)
               /\ worker' = [kind |-> e.kind, node |-> e.node, copy |-> record, used |-> {}, todo |-> Begin(e)]
        BY <1>11, <2>1
      <3> DEFINE w == worker'
      <3>2. w.kind = "create" => \A m \in ToSet(w.copy) : Ahead(w.todo, "setHosts", m)
        <4>1. TypeInv /\ KeepsMaster
          BY DEF BaseInv, RecordInv
        <4> HIDE DEF w
        <4> QED
          BY <3>1, <4>1, BeginIs DEF w
      <3> QED
        BY <3>2 DEF Informed
    <2>2. CASE /\ Busy /\ worker'.kind = worker.kind /\ worker'.copy = worker.copy
               /\ UNCHANGED worker \/ Passes
      <3>1. Informed(n) /\ n \in Nodes
        BY <1>2, <1>4, <2>2
      <3> QED
        BY <2>2, <3>1, InformedNext
    <2>3. CASE Looks /\ worker.kind = "add"
      BY <2>3 DEF Looks, Moves
    <2> QED
      BY <1>10, <2>1, <2>2, <2>3
  <1>13. Busy' /\ worker'.kind = "add" /\ ~Lacks(worker'.todo, {"join"}) =>
             \A n \in members' \cup {worker'.node} : Informed(n)'
    <2> SUFFICES ASSUME Busy', worker'.kind = "add", ~Lacks(worker'.todo, {"join"}),
                        NEW n \in members' \cup {worker'.node}
                 PROVE  Informed(n)'
      OBVIOUS
    <2>1. CASE Begins
      <3>1. PICK e \in Events :
               /\ CanBegin(e)
               /\ worker' = [kind |-> e.kind, node |-> e.node, copy |-> record, used |-> {}, todo |-> Begin(e)]
        BY <1>11, <2>1
      <3> DEFINE w == worker'
      <3>2. w.kind = "add" => Lacks(w.todo, {"join"})
        <4>1. TypeInv /\ KeepsMaster
          BY DEF BaseInv, RecordInv
        <4> HIDE DEF w
        <4> QED
          BY <3>1, <4>1, BeginIs DEF w
      <3> QED
        BY <3>2
    <2>2. CASE /\ Busy /\ worker'.kind = worker.kind /\ worker'.copy = worker.copy
               /\ worker'.node = worker.node /\ (UNCHANGED worker \/ Passes)
      <3>1. ~Lacks(worker.todo, {"join"})
        <4>1. {"join"} \cap Again = {}
          BY DEF Again
        <4> QED
          BY <2>2, <4>1 DEF Passes
      <3>2. n \in members \cup {worker.node}
        <4>1. CASE Commands
          <5>1. Verb = "join" => Node = worker.node
            BY <1>5, <2>2, <4>1 DEF Commands, Scope, Verb, Node
          <5> QED
            BY <2>2, <4>1, <5>1 DEF Commands, MembersOf
        <4>2. \/ Handles \/ Begins \/ Declines \/ Halts \/ Waits \/ Asks \/ Looks \/ Drops \/ Erases \/ Drifting
              => members' = members
          BY DEF Handles, Begins, Declines, Halts, Waits, Kept, Asks, Looks, Drops, Erases, Drifting
        <4> QED
          BY <2>2, <4>1, <4>2, StepCases
      <3>3. Informed(n) /\ n \in Nodes
        BY <1>2, <1>3, <1>4, <2>2, <3>1, <3>2
      <3> QED
        BY <2>2, <3>3, InformedNext
    <2>3. CASE Looks /\ worker.kind = "add"
      <3> DEFINE p == Then(Verb, Node)
      <3>1. Verb \in Finds /\ Moves(p) /\ worker'.todo = p /\ members' = members /\ worker'.node = worker.node
        BY <2>3 DEF Looks, Moves
      <3>2. Busy /\ worker.todo # <<>> /\ worker # Idle /\ worker.node \in Nodes
        BY <1>4, <3>1, IdleIs DEF Moves, Busy
      <3>3. Verb = "findPeers" /\ Node = worker.node
        BY <1>5, <2>3, <3>1, <3>2 DEF Scope, Verb, Node, Finds
      <3>4. Verb = "findPeers" =>
               \A m \in ToSet(Existing(worker.copy)) \cup {Node} : Ahead(p, "setHosts", m)
        <4>1. TypeInv /\ ShapeInv /\ worker.kind # "deleteNode"
          BY <2>3 DEF BaseInv
        <4>2. AnyNode \in Nodes
          BY <3>2 DEF AnyNode
        <4> HIDE DEF p
        <4> QED
          BY <3>1, <3>2, <4>1, <4>2, ThenIs DEF p
      <3>5. CASE n = worker.node
        BY <3>1, <3>3, <3>4, <3>5 DEF Informed
      <3>6. CASE n \in members
        <4>1. n \in ToSet(worker.copy) /\ Named(vm[n], n)
          BY <1>3, <2>3, <3>2, <3>6 DEF Settled, Own, Named, Listed
        <4>2. n \in ToSet(Existing(worker.copy))
          BY <1>4, <3>2, <4>1, ExistingAre
        <4> QED
          BY <3>1, <3>3, <3>4, <4>2 DEF Informed
      <3> QED
        BY <3>1, <3>5, <3>6
    <2> QED
      BY <1>10, <2>1, <2>2, <2>3
  <1> QED
    BY <1>9, <1>12, <1>13 DEF HostsInv, MembersResolve

LEMMA HostsInit ==
    ASSUME Init PROVE HostsInv
  <1>1. worker \notin Workers
    BY IdleIs DEF Init
  <1> QED
    BY <1>1 DEF HostsInv, MembersResolve, Init, Busy

(* Any two nodes of the Kubernetes cluster know each other's address, unless *)
(* the whole cluster is being deleted, if no host name is part of another    *)
(* one: the lines sed removes with a node are its own.                       *)
THEOREM MembersKnowEachOther ==
    ASSUME \A n \in Nodes : Matched[n] = {n}
    PROVE  Spec => []MembersResolve
  <1>1. Init => BaseInv /\ MemberInv /\ HostsInv
    BY BaseInit, MemberInit, HostsInit
  <1>2. BaseInv /\ MemberInv /\ HostsInv /\ [Next]_vars => BaseInv' /\ MemberInv' /\ HostsInv'
    BY BaseNext, MemberNext, HostsNext
  <1>3. HostsInv => MembersResolve
    BY DEF HostsInv, MembersResolve
  <1> QED
    BY <1>1, <1>2, <1>3, PTL DEF Spec
-----------------------------------------------------------------------------
(* The rest of a program is in order. *)
\* What makes a VM stop
Stops == {"shutdown", "stop", "down", "halt"}

\* What is stopped is started again.
Restarted(p) ==
    \A k \in 1..Len(p) :
        p[k].do \in Stops => \E j \in (k + 1)..Len(p) : p[j] = Instr("start", p[k].node)

\* No VM is created behind a start, and no node made ready behind a join.
Orderly(p) ==
    \A j, k \in 1..Len(p) :
        j < k => /\ p[j].do \in {"start", "reboot"} => p[k].do # "create"
                 /\ p[j].do = "join" => p[k].do # "ready"

\* No VM but that of n is stopped, and none started.
Confined(p, n) ==
    \A k \in 1..Len(p) :
        p[k].do \notin {"start", "reboot"} /\ (p[k].do \in Stops => p[k].node = n)

Tidy(w) ==
    /\ w.kind \notin {"delete", "deleteNode"} => Restarted(w.todo)
    /\ Orderly(w.todo)
    /\ w.kind = "deleteNode" => Confined(w.todo, w.node)

TidyInv == Busy => Tidy(worker)

LEMMA TidyTail ==
    ASSUME NEW A, NEW p \in Seq(A), p # <<>>
    PROVE  /\ Restarted(p) => /\ Restarted(Tail(p))
                              /\ Head(p).do \in Stops => Ahead(Tail(p), "start", Head(p).node)
           /\ Orderly(p) => /\ Orderly(Tail(p))
                            /\ Head(p).do \in {"start", "reboot"} => Lacks(Tail(p), {"create"})
                            /\ Head(p).do = "join" => Lacks(Tail(p), {"ready"})
           /\ \A n : Confined(p, n) => /\ Confined(Tail(p), n)
                                       /\ Head(p).do \notin {"start", "reboot"}
                                       /\ Head(p).do \in Stops => Head(p).node = n
  <1> DEFINE t == Tail(p)
  <1>1. /\ Head(p) = p[1] /\ 1 \in 1..Len(p) /\ Len(t) = Len(p) - 1 /\ Len(t) \in Nat
        /\ \A k \in 1..Len(t) : k + 1 \in 1..Len(p) /\ t[k] = p[k + 1] /\ 1 < k + 1
    BY TailIs
  <1> HIDE DEF t
  <1>2. ASSUME Restarted(p)
        PROVE  Restarted(t) /\ (p[1].do \in Stops => Ahead(t, "start", p[1].node))
    <2>1. ASSUME NEW k \in 1..Len(t), t[k].do \in Stops
          PROVE  \E j \in (k + 1)..Len(t) : t[j] = Instr("start", t[k].node)
      <3>1. PICK i \in ((k + 1) + 1)..Len(p) : p[i] = Instr("start", p[k + 1].node)
        BY <1>1, <1>2, <2>1 DEF Restarted
      <3>2. i - 1 \in (k + 1)..Len(t) /\ i - 1 \in 1..Len(t) /\ (i - 1) + 1 = i
        BY <1>1, <3>1
      <3>3. t[i - 1] = Instr("start", t[k].node)
        BY <1>1, <3>1, <3>2
      <3> QED
        BY <3>2, <3>3
    <2>2. ASSUME p[1].do \in Stops PROVE Ahead(t, "start", p[1].node)
      <3>1. PICK i \in (1 + 1)..Len(p) : p[i] = Instr("start", p[1].node)
        BY <1>1, <1>2, <2>2 DEF Restarted
      <3>2. i - 1 \in 1..Len(t) /\ (i - 1) + 1 = i
        BY <1>1, <3>1
      <3>3. t[i - 1] = Instr("start", p[1].node)
        BY <1>1, <3>1, <3>2
      <3> QED
        BY <3>2, <3>3 DEF Ahead
    <2> QED
      BY <2>1, <2>2 DEF Restarted
  <1>3. ASSUME Orderly(p)
        PROVE  /\ Orderly(t)
               /\ p[1].do \in {"start", "reboot"} => Lacks(t, {"create"})
               /\ p[1].do = "join" => Lacks(t, {"ready"})
    <2>1. ASSUME NEW j \in 1..Len(t), NEW k \in 1..Len(t), j < k
          PROVE  /\ t[j].do \in {"start", "reboot"} => t[k].do # "create"
                 /\ t[j].do = "join" => t[k].do # "ready"
      <3>1. j + 1 < k + 1 /\ j + 1 \in 1..Len(p) /\ k + 1 \in 1..Len(p)
        BY <1>1, <2>1
      <3> QED
        BY <1>1, <1>3, <3>1 DEF Orderly
    <2> QED
      BY <1>1, <1>3, <2>1 DEF Orderly, Lacks
  <1>4. ASSUME NEW n, Confined(p, n)
        PROVE  Confined(t, n) /\ p[1].do \notin {"start", "reboot"} /\ (p[1].do \in Stops => p[1].node = n)
    BY <1>1, <1>4 DEF Confined
  <1> QED
    BY <1>1, <1>2, <1>3, <1>4 DEF t

LEMMA RestartedConcat ==
    ASSUME NEW A, NEW p \in Seq(A), NEW q \in Seq(A), Restarted(q),
           Restarted(p) \/ \A k \in 1..Len(p) : p[k].do \in Stops => Ahead(q, "start", p[k].node)
    PROVE  Restarted(p \o q)
  <1> DEFINE r == p \o q
  <1>1. /\ Len(r) = Len(p) + Len(q) /\ Len(p) \in Nat /\ Len(q) \in Nat
        /\ \A k \in 1..Len(r) : \/ k \in 1..Len(p) /\ r[k] = p[k]
                                \/ k - Len(p) \in 1..Len(q) /\ r[k] = q[k - Len(p)]
        /\ \A k \in 1..Len(p) : r[k] = p[k]
        /\ \A k \in 1..Len(q) : r[k + Len(p)] = q[k]
    BY ConcatIs
  <1> HIDE DEF r
  <1> SUFFICES ASSUME NEW k \in 1..Len(r), r[k].do \in Stops
               PROVE  \E j \in (k + 1)..Len(r) : r[j] = Instr("start", r[k].node)
    BY DEF Restarted, r
  <1>2. CASE k \in 1..Len(p) /\ r[k] = p[k]
    <2>1. CASE \E i \in (k + 1)..Len(p) : p[i] = Instr("start", p[k].node)
      <3>1. PICK i \in (k + 1)..Len(p) : p[i] = Instr("start", p[k].node)
        BY <2>1
      <3>2. i \in 1..Len(p) /\ i \in (k + 1)..Len(r)
        BY <1>1, <1>2
      <3> QED
        BY <1>1, <1>2, <3>1, <3>2
    <2>2. CASE Ahead(q, "start", p[k].node)
      <3>1. PICK i \in 1..Len(q) : q[i] = Instr("start", p[k].node)
        BY <2>2 DEF Ahead
      <3>2. i + Len(p) \in (k + 1)..Len(r)
        BY <1>1, <1>2
      <3> QED
        BY <1>1, <1>2, <3>1, <3>2
    <2> QED
      BY <1>2, <2>1, <2>2 DEF Restarted
  <1>3. CASE k - Len(p) \in 1..Len(q) /\ r[k] = q[k - Len(p)]
    <2>1. PICK i \in ((k - Len(p)) + 1)..Len(q) : q[i] = Instr("start", q[k - Len(p)].node)
      BY <1>3 DEF Restarted
    <2>2. i \in 1..Len(q) /\ i + Len(p) \in (k + 1)..Len(r)
      BY <1>1, <1>3
    <2> QED
      BY <1>1, <1>3, <2>1, <2>2
  <1> QED
    BY <1>1, <1>2, <1>3

LEMMA OrderlyConcat ==
    ASSUME NEW A, NEW p \in Seq(A), NEW q \in Seq(A), Orderly(p), Orderly(q),
           Lacks(p, {"start", "reboot"}) \/ Lacks(q, {"create"}),
           Lacks(p, {"join"}) \/ Lacks(q, {"ready"})
    PROVE  Orderly(p \o q)
  <1> DEFINE r == p \o q
  <1>1. /\ Len(r) = Len(p) + Len(q) /\ Len(p) \in Nat /\ Len(q) \in Nat
        /\ \A k \in 1..Len(r) : \/ k \in 1..Len(p) /\ r[k] = p[k]
                                \/ k - Len(p) \in 1..Len(q) /\ r[k] = q[k - Len(p)]
    BY ConcatIs
  <1> HIDE DEF r
  <1> SUFFICES ASSUME NEW j \in 1..Len(r), NEW k \in 1..Len(r), j < k
               PROVE  /\ r[j].do \in {"start", "reboot"} => r[k].do # "create"
                      /\ r[j].do = "join" => r[k].do # "ready"
    BY DEF Orderly, r
  <1>2. CASE k \in 1..Len(p) /\ r[k] = p[k]
    <2>1. j \in 1..Len(p) /\ r[j] = p[j]
      BY <1>1, <1>2
    <2> QED
      BY <1>2, <2>1 DEF Orderly
  <1>3. CASE k - Len(p) \in 1..Len(q) /\ r[k] = q[k - Len(p)]
    <2>1. CASE j \in 1..Len(p) /\ r[j] = p[j]
      BY <1>3, <2>1 DEF Lacks
    <2>2. CASE j - Len(p) \in 1..Len(q) /\ r[j] = q[j - Len(p)]
      <3>1. j - Len(p) < k - Len(p)
        BY <1>1
      <3> QED
        BY <1>3, <2>2, <3>1 DEF Orderly
    <2> QED
      BY <1>1, <2>1, <2>2
  <1> QED
    BY <1>1, <1>2, <1>3

LEMMA ConfinedConcat ==
    ASSUME NEW A, NEW p \in Seq(A), NEW q \in Seq(A), NEW n, Confined(p, n), Confined(q, n)
    PROVE  Confined(p \o q, n)
  <1> DEFINE r == p \o q
  <1>1. \A k \in 1..Len(r) : \/ k \in 1..Len(p) /\ r[k] = p[k]
                             \/ k - Len(p) \in 1..Len(q) /\ r[k] = q[k - Len(p)]
    BY ConcatIs
  <1> HIDE DEF r
  <1> QED
    BY <1>1 DEF Confined, r

LEMMA TidyPlain ==
    ASSUME NEW ds, NEW A, NEW p \in Seq(About(ds, A))
    PROVE  /\ ds \cap Stops = {} => Restarted(p)
           /\ (ds \cap {"start", "reboot"} = {} \/ "create" \notin ds) /\ (ds \cap {"join"} = {} \/ "ready" \notin ds)
                => Orderly(p)
           /\ \A n : ds \cap {"start", "reboot"} = {} /\ (ds \cap Stops = {} \/ A \subseteq {n}) => Confined(p, n)
  <1>1. \A k \in 1..Len(p) : p[k] \in About(ds, A)
    OBVIOUS
  <1>2. \A k \in 1..Len(p) : p[k].do \in ds /\ p[k].node \in A
    BY <1>1 DEF About
  <1>3. ds \cap Stops = {} => Restarted(p)
    BY <1>2 DEF Restarted
  <1>4. (ds \cap {"start", "reboot"} = {} \/ "create" \notin ds) /\ (ds \cap {"join"} = {} \/ "ready" \notin ds)
                => Orderly(p)
    BY <1>2 DEF Orderly
  <1>5. \A n : ds \cap {"start", "reboot"} = {} /\ (ds \cap Stops = {} \/ A \subseteq {n}) => Confined(p, n)
    BY <1>2 DEF Confined
  <1> QED
    BY <1>3, <1>4, <1>5

-----------------------------------------------------------------------------
(* The programs of the use cases once more *)
LEMMA TidyMore ==
    ASSUME NEW A, NEW T, T = Seq(About(CreateVerbs, A)),
           NEW p \in T, Orderly(p), Lacks(p, {"join"}),
           NEW ds \in SUBSET CreateVerbs, ds \cap {"create", "join"} = {}, NEW q \in Seq(About(ds, A))
    PROVE  /\ p \o q \in T /\ Orderly(p \o q) /\ Lacks(p \o q, {"join"})
           /\ \A d, n : Ahead(p, d, n) \/ Ahead(q, d, n) => Ahead(p \o q, d, n)
  <1>1. q \in T
    BY AboutMore
  <1>2. Lacks(q, {"create", "join"})
    BY LacksOthers
  <1>3. Lacks(q, {"create"}) /\ Lacks(q, {"join"})
    BY <1>2 DEF Lacks
  <1>4. "create" \notin ds /\ ds \cap {"join"} = {}
    OBVIOUS
  <1>5. Orderly(q)
    BY <1>4, TidyPlain
  <1> QED
    BY <1>1, <1>3, <1>5, OrderlyConcat, LacksConcat, AheadConcat, ConcatIs

LEMMA CreateOrder ==
    ASSUME NEW ns \in Seq(Nodes), HasMaster(ns, Foreign)
    PROVE  LET p == CreateCluster(ns)
           IN  /\ Restarted(p) /\ Orderly(p) /\ Lacks(p, Stops \cup Finds)
               /\ \A n \in ToSet(ns) : Ahead(p, "create", n) /\ Ahead(p, "start", n) /\ Ahead(p, "ready", n)
               /\ \A n \in ToSet(ns) \ {Master(ns, Foreign)} : Ahead(p, "join", n)
  <1> DEFINE A  == ToSet(ns)
             m  == Master(ns, Foreign)
             T  == Seq(About(CreateVerbs, A))
             a0 == <<Instr("usedIds", m)>>
             a1 == CreateVms(ns)
             a2 == Each("start", ns)
             a3 == Each("up", ns)
             a4 == Each("reboot", ns)
             a5 == Each("setHosts", ns)
             a6 == Each("install", ns)
             b1 == Each("ready", ns)
             b2 == Each("join", Others(ns, m))
             b3 == <<Instr("ssh", m)>>
             C  == {"unused", "create", "unlocked", "resize"}
  <1>1. m \in A /\ ns \in Seq(A) /\ A \subseteq Nodes
    BY MasterIsNode, SeqOfToSet, InToSet
  <1>2. Others(ns, m) \in Seq(A) /\ ToSet(Others(ns, m)) = A \ {m}
    BY <1>1, OnlyProperties, OthersAre DEF Others
  <1>3. /\ a0 \in Seq(About({"usedIds"}, A)) /\ a1 \in Seq(About(C, A))
        /\ a2 \in Seq(About({"start"}, A)) /\ a3 \in Seq(About({"up"}, A)) /\ a4 \in Seq(About({"reboot"}, A))
        /\ a5 \in Seq(About({"setHosts"}, A)) /\ a6 \in Seq(About({"install"}, A))
        /\ b1 \in Seq(About({"ready"}, A)) /\ b2 \in Seq(About({"join"}, A)) /\ b3 \in Seq(About({"ssh"}, A))
    <2>1. a1 \in Seq(About(C, A))
      BY <1>1, CreateVmsAre
    <2>2. Instr("usedIds", m) \in About({"usedIds"}, A) /\ Instr("ssh", m) \in About({"ssh"}, A)
      BY <1>1, InstrIs
    <2>3. a0 \in Seq(About({"usedIds"}, A)) /\ b3 \in Seq(About({"ssh"}, A))
      BY <2>2
    <2>4. \A d : Each(d, ns) \in Seq(About({d}, A)) /\ Each(d, Others(ns, m)) \in Seq(About({d}, A))
      BY <1>1, <1>2, EachIs
    <2> HIDE DEF A, m
    <2> QED
      BY <2>1, <2>3, <2>4
  <1>4. /\ \A n \in A : Ahead(a1, "create", n) /\ Ahead(a2, "start", n) /\ Ahead(b1, "ready", n)
        /\ \A n \in A \ {m} : Ahead(b2, "join", n)
    <2>1. \A n \in A : Ahead(a1, "create", n)
      BY <1>1, CreateVmsAre
    <2>2. \A d : \A n \in A : Ahead(Each(d, ns), d, n)
      BY <1>1, EachIs
    <2>3. \A n \in ToSet(Others(ns, m)) : Ahead(b2, "join", n)
      <3> HIDE DEF A, m
      <3> QED
        BY <1>2, EachIs
    <2> HIDE DEF A, m
    <2> QED
      BY <1>2, <2>1, <2>2, <2>3
  <1>5. CreateCluster(ns) = a0 \o a1 \o a2 \o a3 \o a4 \o a5 \o a6 \o b1 \o b2 \o b3
    BY DEF CreateCluster
  <1>6. CreateCluster(ns) \in T
    BY CreateClusterIs
  <1>7. CreateVerbs \cap (Stops \cup Finds) = {}
    BY DEF CreateVerbs, Stops, Finds
  <1>8. Restarted(CreateCluster(ns)) /\ Lacks(CreateCluster(ns), Stops \cup Finds)
    <2>1. CreateVerbs \cap Stops = {}
      BY <1>7
    <2> QED
      BY <1>6, <1>7, <2>1, TidyPlain, LacksOthers
  <1> HIDE DEF a0, a1, a2, a3, a4, a5, a6, b1, b2, b3, A, m
  <1> DEFINE p1 == a0 \o a1
             p2 == p1 \o a2
             p3 == p2 \o a3
             p4 == p3 \o a4
             p5 == p4 \o a5
             p6 == p5 \o a6
             p7 == p6 \o b1
             p8 == p7 \o b2
             p9 == p8 \o b3
             Ok(p) == p \in T /\ Orderly(p) /\ Lacks(p, {"join"})
  <1>9. /\ {"usedIds"} \in SUBSET CreateVerbs /\ C \in SUBSET CreateVerbs
        /\ \A d \in {"start", "up", "reboot", "setHosts", "install", "ready", "ssh", "join"} :
              {d} \in SUBSET CreateVerbs
    BY DEF CreateVerbs
  <1>10. Ok(p1) /\ \A n \in A : Ahead(p1, "create", n)
    <2>1. a0 \in T /\ a1 \in T
      BY <1>3, <1>9, AboutMore
    <2>2. Orderly(a0) /\ Orderly(a1)
      <3>1. {"usedIds"} \cap {"start", "reboot"} = {} /\ {"usedIds"} \cap {"join"} = {}
        OBVIOUS
      <3>2. C \cap {"start", "reboot"} = {} /\ C \cap {"join"} = {}
        OBVIOUS
      <3> HIDE DEF C
      <3> QED
        BY <1>3, <3>1, <3>2, TidyPlain
    <2>3. Lacks(a0, {"start", "reboot"}) /\ Lacks(a0, {"join"}) /\ Lacks(a1, {"join"})
      <3>1. {"usedIds"} \cap {"start", "reboot"} = {} /\ {"usedIds"} \cap {"join"} = {} /\ C \cap {"join"} = {}
        OBVIOUS
      <3> HIDE DEF C
      <3> QED
        BY <1>3, <3>1, LacksOthers
    <2> QED
      BY <1>4, <2>1, <2>2, <2>3, OrderlyConcat, LacksConcat, AheadConcat, ConcatIs
  <1>11. ASSUME NEW p, Ok(p), NEW d \in {"start", "up", "reboot", "setHosts", "install", "ready", "ssh"},
                NEW q \in Seq(About({d}, A))
         PROVE  Ok(p \o q) /\ \A e, n : Ahead(p, e, n) \/ Ahead(q, e, n) => Ahead(p \o q, e, n)
    <2>1. {d} \cap {"create", "join"} = {} /\ {d} \in SUBSET CreateVerbs
      BY <1>9
    <2> HIDE DEF T
    <2>2. T = Seq(About(CreateVerbs, A))
      BY DEF T
    <2> QED
      BY <1>11, <2>1, <2>2, TidyMore
  <1> HIDE DEF Ok, T, p1
  <1>12. Ok(p2) /\ \A n \in A : Ahead(p2, "create", n) /\ Ahead(p2, "start", n)
    BY <1>3, <1>4, <1>10, <1>11
  <1> HIDE DEF p2
  <1>13. Ok(p3) /\ \A n \in A : Ahead(p3, "create", n) /\ Ahead(p3, "start", n)
    BY <1>3, <1>12, <1>11
  <1> HIDE DEF p3
  <1>14. Ok(p4) /\ \A n \in A : Ahead(p4, "create", n) /\ Ahead(p4, "start", n)
    BY <1>3, <1>13, <1>11
  <1> HIDE DEF p4
  <1>15. Ok(p5) /\ \A n \in A : Ahead(p5, "create", n) /\ Ahead(p5, "start", n)
    BY <1>3, <1>14, <1>11
  <1> HIDE DEF p5
  <1>16. Ok(p6) /\ \A n \in A : Ahead(p6, "create", n) /\ Ahead(p6, "start", n)
    BY <1>3, <1>15, <1>11
  <1> HIDE DEF p6
  <1>17. Ok(p7) /\ \A n \in A : Ahead(p7, "create", n) /\ Ahead(p7, "start", n) /\ Ahead(p7, "ready", n)
    BY <1>3, <1>4, <1>16, <1>11
  <1> HIDE DEF p7
  <1>18. b2 \in T /\ b3 \in T
    BY <1>3, <1>9, AboutMore DEF T
  <1>19. /\ Orderly(b2) /\ Orderly(b3)
         /\ Lacks(b2, {"create"}) /\ Lacks(b2, {"ready"}) /\ Lacks(b3, {"create"}) /\ Lacks(b3, {"ready"})
    <2>1. /\ "create" \notin {"join"} /\ "ready" \notin {"join"} /\ "create" \notin {"ssh"} /\ "ready" \notin {"ssh"}
      OBVIOUS
    <2> QED
      BY <1>3, <2>1, TidyPlain, LacksOthers
  <1>20. /\ p8 \in T /\ Orderly(p8) /\ \A n \in A \ {m} : Ahead(p8, "join", n)
         /\ \A n \in A : Ahead(p8, "create", n) /\ Ahead(p8, "start", n) /\ Ahead(p8, "ready", n)
    BY <1>4, <1>17, <1>18, <1>19, OrderlyConcat, AheadConcat, ConcatIs DEF Ok, T
  <1> HIDE DEF p8
  <1>21. /\ Orderly(p9) /\ \A n \in A \ {m} : Ahead(p9, "join", n)
         /\ \A n \in A : Ahead(p9, "create", n) /\ Ahead(p9, "start", n) /\ Ahead(p9, "ready", n)
    BY <1>18, <1>19, <1>20, OrderlyConcat, AheadConcat DEF T
  <1>22. CreateCluster(ns) = p9
    BY <1>5 DEF p1, p2, p3, p4, p5, p6, p7, p8, p9
  <1> QED
    BY <1>8, <1>21, <1>22 DEF A, m

LEMMA AddOrder ==
    ASSUME NEW n \in Nodes, NEW peers \in Seq(Nodes)
    PROVE  LET p == AddToPeers(n, peers)
           IN  /\ Restarted(p) /\ Orderly(p) /\ Lacks(p, Stops \cup Finds)
               /\ Ahead(p, "create", n) /\ Ahead(p, "start", n) /\ Ahead(p, "join", n)
  <1> DEFINE d1 == <<"create", "unlocked", "resize">>
             d2 == <<"start">>
             d3 == <<"up", "reboot">>
             d4 == <<"setHosts">>
             e1 == d1 \o d2
             e2 == e1 \o d3
             ds == e2 \o d4
             es == <<"install", "ready", "join">>
             D  == {"create", "unlocked", "resize", "start", "up", "reboot", "setHosts"}
             E  == {"install", "ready", "join"}
             a  == Program(ds, n)
             b  == Each("setHosts", peers)
             c  == Program(es, n)
             T  == Seq(About(D \cup E, Nodes))
  <1>1. /\ d1 \in Seq(D) /\ d2 \in Seq(D) /\ d3 \in Seq(D) /\ d4 \in Seq(D) /\ es \in Seq(E)
        /\ Len(d1) = 3 /\ Len(d2) = 1 /\ Len(d3) = 2 /\ Len(d4) = 1 /\ Len(es) = 3
        /\ d1[1] = "create" /\ d1[2] = "unlocked" /\ d1[3] = "resize" /\ d2[1] = "start"
        /\ d3[1] = "up" /\ d3[2] = "reboot" /\ d4[1] = "setHosts"
        /\ es[1] = "install" /\ es[2] = "ready" /\ es[3] = "join"
    OBVIOUS
  <1>2. AddToPeers(n, peers) = a \o b \o c
    BY DEF AddToPeers, VmCreate, NodeUp
  <1> HIDE DEF d1, d2, d3, d4, es
  <1>3. /\ ds \in Seq(D) /\ Len(ds) = 7
        /\ \A k \in 1..7 : ds[k] = "create" <=> k = 1
        /\ ds[4] = "start"
    <2>0. d1 \in Seq(D) /\ d2 \in Seq(D) /\ d3 \in Seq(D) /\ d4 \in Seq(D)
      BY <1>1
    <2>1. e1 \in Seq(D) /\ e2 \in Seq(D) /\ ds \in Seq(D)
      <3> HIDE DEF D
      <3> QED
        BY <1>1, ConcatIs
    <2>2. /\ Len(e1) = 3 + 1 /\ \A k \in 1..3 : e1[k] = d1[k]
          /\ \A k \in 1..1 : e1[k + 3] = d2[k]
          /\ Len(e2) = Len(e1) + 2 /\ \A k \in 1..Len(e1) : e2[k] = e1[k]
          /\ \A k \in 1..2 : e2[k + Len(e1)] = d3[k]
          /\ Len(ds) = Len(e2) + 1 /\ \A k \in 1..Len(e2) : ds[k] = e2[k]
          /\ \A k \in 1..1 : ds[k + Len(e2)] = d4[k]
      <3> HIDE DEF e1, e2, ds, D
      <3>1. /\ Len(e1) = Len(d1) + Len(d2) /\ \A k \in 1..Len(d1) : e1[k] = d1[k]
            /\ \A k \in 1..Len(d2) : e1[k + Len(d1)] = d2[k]
        BY <2>0, <2>1, ConcatIs DEF e1
      <3>2. /\ Len(e2) = Len(e1) + Len(d3) /\ \A k \in 1..Len(e1) : e2[k] = e1[k]
            /\ \A k \in 1..Len(d3) : e2[k + Len(e1)] = d3[k]
        BY <2>0, <2>1, ConcatIs DEF e2
      <3>3. /\ Len(ds) = Len(e2) + Len(d4) /\ \A k \in 1..Len(e2) : ds[k] = e2[k]
            /\ \A k \in 1..Len(d4) : ds[k + Len(e2)] = d4[k]
        BY <2>0, <2>1, ConcatIs DEF ds
      <3> QED
        BY <1>1, <3>1, <3>2, <3>3
    <2> HIDE DEF e1, e2, ds
    <2>3. /\ Len(e2) = 6 /\ e2[1] = "create" /\ e2[2] = "unlocked" /\ e2[3] = "resize" /\ e2[4] = "start"
          /\ e2[5] = "up" /\ e2[6] = "reboot"
      BY <1>1, <2>2
    <2>4. /\ Len(ds) = 7 /\ ds[1] = "create" /\ ds[2] = "unlocked" /\ ds[3] = "resize" /\ ds[4] = "start"
          /\ ds[5] = "up" /\ ds[6] = "reboot" /\ ds[7] = "setHosts"
      BY <1>1, <2>2, <2>3
    <2>5. \A k \in 1..7 : k \in {1, 2, 3, 4, 5, 6, 7}
      OBVIOUS
    <2> HIDE DEF ds, D
    <2> QED
      BY <2>1, <2>4, <2>5
  <1> HIDE DEF ds, D, E
  <1>4. /\ a \in Seq(About(D, {n})) /\ Len(a) = 7 /\ \A k \in 1..7 : a[k] = Instr(ds[k], n)
        /\ c \in Seq(About(E, {n})) /\ Len(c) = 3 /\ \A k \in 1..3 : c[k] = Instr(es[k], n)
        /\ b \in Seq(About({"setHosts"}, Nodes))
    <2>1. /\ a \in Seq(About(D, {n})) /\ Len(a) = Len(ds)
          /\ \A k \in 1..Len(ds) : a[k] = Instr(ds[k], n)
      BY <1>3, ProgramIs
    <2>2. /\ c \in Seq(About(E, {n})) /\ Len(c) = Len(es)
          /\ \A k \in 1..Len(es) : c[k] = Instr(es[k], n)
      BY <1>1, ProgramIs
    <2>3. b \in Seq(About({"setHosts"}, Nodes))
      BY EachIs
    <2> HIDE DEF a, c
    <2> QED
      BY <1>1, <1>3, <2>1, <2>2, <2>3
  <1> HIDE DEF a, b, c
  <1>5. Ahead(a, "create", n) /\ Ahead(a, "start", n) /\ Ahead(c, "join", n)
    BY <1>1, <1>3, <1>4 DEF Ahead
  <1>6. Orderly(a) /\ Orderly(b) /\ Orderly(c)
    <2>1. Orderly(a)
      <3>1. \A k \in 1..7 : a[k].do = ds[k] /\ ds[k] \in D
        <4>1. \A k \in 1..7 : a[k].do = ds[k]
          BY <1>4 DEF Instr
        <4>2. \A k \in 1..Len(ds) : ds[k] \in D
          <5>1. ds \in Seq(D)
            BY <1>3
          <5> QED
            BY <5>1, ElementOfSeq
        <4> QED
          BY <1>3, <4>1, <4>2
      <3>2. "join" \notin D
        BY DEF D
      <3> QED
        BY <1>3, <1>4, <3>1, <3>2 DEF Orderly
    <2>2. Orderly(b)
      <3>1. {"setHosts"} \cap {"start", "reboot"} = {} /\ {"setHosts"} \cap {"join"} = {}
        OBVIOUS
      <3> QED
        BY <1>4, <3>1, TidyPlain
    <2>3. Orderly(c)
      <3>1. \A k \in 1..3 : c[k].do = es[k]
        BY <1>4 DEF Instr
      <3>2. \A k \in 1..3 : k \in {1, 2, 3}
        OBVIOUS
      <3> QED
        BY <1>1, <1>4, <3>1, <3>2 DEF Orderly
    <2> QED
      BY <2>1, <2>2, <2>3
  <1>7. /\ D \cap (Stops \cup Finds \cup {"join"}) = {} /\ {"setHosts"} \cap (Stops \cup Finds \cup {"join", "create", "ready"}) = {}
        /\ E \cap (Stops \cup Finds \cup {"create"}) = {}
    BY DEF D, E, Stops, Finds
  <1>8. /\ Lacks(a, Stops \cup Finds \cup {"join"})
        /\ Lacks(b, Stops \cup Finds \cup {"join", "create", "ready"})
        /\ Lacks(c, Stops \cup Finds \cup {"create"})
    BY <1>4, <1>7, LacksOthers
  <1>9. a \in T /\ b \in T /\ c \in T
    <2>1. D \subseteq D \cup E /\ E \subseteq D \cup E /\ {n} \subseteq Nodes
      OBVIOUS
    <2>2. {"setHosts"} \subseteq D \cup E
      BY DEF D
    <2> QED
      BY <1>4, <2>1, <2>2, AboutMore
  <1> HIDE DEF T
  <1>10. /\ a \o b \in T /\ Orderly(a \o b)
         /\ Lacks(a \o b, Stops \cup Finds) /\ Lacks(a \o b, {"join"})
    <2>1. /\ Lacks(b, {"create"}) /\ Lacks(b, {"ready"}) /\ Lacks(a, {"join"}) /\ Lacks(b, {"join"})
          /\ Lacks(a, Stops \cup Finds) /\ Lacks(b, Stops \cup Finds)
      BY <1>8 DEF Lacks
    <2> QED
      BY <1>6, <1>9, <2>1, OrderlyConcat, LacksConcat, ConcatIs DEF T
  <1>11. Ahead(a \o b, "create", n) /\ Ahead(a \o b, "start", n)
    BY <1>5, <1>9, AheadConcat DEF T
  <1> DEFINE ab == a \o b
             p  == ab \o c
  <1> HIDE DEF ab
  <1>12. /\ Orderly(p) /\ Lacks(p, Stops \cup Finds)
         /\ Ahead(p, "create", n) /\ Ahead(p, "start", n) /\ Ahead(p, "join", n)
    <2>1. Lacks(c, {"create"}) /\ Lacks(c, Stops \cup Finds)
      BY <1>8 DEF Lacks
    <2> QED
      BY <1>5, <1>6, <1>9, <1>10, <1>11, <2>1, OrderlyConcat, LacksConcat, AheadConcat DEF T, ab
  <1>13. Restarted(p)
    <2> HIDE DEF p
    <2> QED
      BY <1>12 DEF Restarted, Lacks
  <1> QED
    BY <1>2, <1>12, <1>13 DEF ab

LEMMA DeleteOrder ==
    ASSUME NEW A \in SUBSET Nodes, NEW ns \in Seq(A)
    PROVE  /\ DeleteVm(ns) \in Seq(About({"shutdown", "down", "delete"}, A))
           /\ Orderly(DeleteVm(ns)) /\ Orderly(DeleteVms(ns)) /\ ~Lacks(DeleteVms(ns), {"erase"})
  <1> DEFINE D == {"shutdown", "down", "delete"}
             a == Each("shutdown", ns)
             b == Each("down", ns)
             c == Each("delete", ns)
             T == Seq(About(D, A))
             p == DeleteVm(ns)
             i == Instr("erase", AnyNode)
             q == <<i>>
  <1>1. a \in T /\ b \in T /\ c \in T
    <2>1. \A d \in D : Each(d, ns) \in Seq(About(D, A))
      BY EachIs
    <2> QED
      BY <2>1
  <1>2. p = a \o b \o c
    BY DEF DeleteVm
  <1>3. p \in T
    <2> HIDE DEF T, a, b, c
    <2> QED
      BY <1>1, <1>2, ConcatIs DEF T
  <1>4. "create" \notin D /\ "join" \notin D /\ D \cap {"start", "reboot"} = {} /\ D \cap {"join"} = {}
    OBVIOUS
  <1>5. DeleteVms(ns) = p \o q
    BY DEF DeleteVms
  <1>6. i.do = "erase"
    BY DEF Instr
  <1> HIDE DEF p, D, i
  <1>7. Orderly(p)
    BY <1>3, <1>4, TidyPlain
  <1>8. q \in Seq({i}) /\ Len(q) = 1 /\ q[1] = i
    OBVIOUS
  <1> HIDE DEF q
  <1>9. Orderly(q) /\ Lacks(q, {"create"}) /\ Lacks(q, {"ready"}) /\ ~Lacks(q, {"erase"})
    BY <1>6, <1>8 DEF Orderly, Lacks
  <1>10. Orderly(p \o q) /\ ~Lacks(p \o q, {"erase"})
    <2> DEFINE U == About(D, A) \cup {i}
    <2>1. p \in Seq(U) /\ q \in Seq(U)
      BY <1>3, <1>8, SeqMonotonic
    <2> HIDE DEF U
    <2> QED
      BY <1>7, <1>9, <2>1, OrderlyConcat, LacksConcat
  <1> QED
    BY <1>3, <1>5, <1>7, <1>10 DEF p, D

LEMMA LiteralIs ==
    ASSUME NEW p, NEW d, NEW m, p = <<Instr(d, m)>>
    PROVE  /\ Orderly(p) /\ \A ds : Lacks(p, ds) <=> d \notin ds
           /\ d \notin Stops => Restarted(p)
           /\ \A n : d \notin {"start", "reboot"} \cup Stops => Confined(p, n)
  <1> DEFINE i == Instr(d, m)
  <1>1. i.do = d
    BY DEF Instr
  <1> HIDE DEF i
  <1>2. Len(p) = 1 /\ p[1] = i
    BY DEF i
  <1>3. \A k \in 1..Len(p) : p[k].do = d
    BY <1>1, <1>2
  <1>4. Orderly(p) /\ \A ds : Lacks(p, ds) <=> d \notin ds
    BY <1>2, <1>3 DEF Orderly, Lacks
  <1>5. d \notin Stops => Restarted(p)
    BY <1>3 DEF Restarted
  <1>6. \A n : d \notin {"start", "reboot"} \cup Stops => Confined(p, n)
    BY <1>3 DEF Confined
  <1> QED
    BY <1>4, <1>5, <1>6

Ends == {"drop", "delete", "shutdown", "down", "halt", "stop"}

LEMMA DetachOrder ==
    ASSUME NEW n \in Nodes, NEW m \in Nodes
    PROVE  LET p == DetachNode(n, m)
           IN  /\ Orderly(p) /\ Confined(p, n) /\ Lacks(p, Ends)
               /\ ~Lacks(p, {"remove"}) /\ ~Lacks(p, {"findAgain"})
  <1> DEFINE i1 == Instr("drain", m)
             i2 == Instr("ssh", n)
             i3 == Instr("remove", m)
             i4 == Instr("findAgain", n)
             p  == <<i1, i2, i3, i4>>
  <1>1. DetachNode(n, m) = p
    BY DEF DetachNode
  <1>2. i1.do = "drain" /\ i2.do = "ssh" /\ i3.do = "remove" /\ i4.do = "findAgain"
    BY DEF Instr
  <1> HIDE DEF i1, i2, i3, i4
  <1>3. /\ Len(p) = 4 /\ p[1].do = "drain" /\ p[2].do = "ssh" /\ p[3].do = "remove" /\ p[4].do = "findAgain"
    BY <1>2
  <1> HIDE DEF p
  <1>4. \A k \in 1..Len(p) : k \in {1, 2, 3, 4}
    BY <1>3
  <1>5. \A k \in 1..Len(p) : p[k].do \in {"drain", "ssh", "remove", "findAgain"}
    BY <1>3, <1>4
  <1>6. Orderly(p) /\ Confined(p, n) /\ Lacks(p, Ends)
    BY <1>5 DEF Orderly, Confined, Lacks, Ends, Stops
  <1>7. ~Lacks(p, {"remove"}) /\ ~Lacks(p, {"findAgain"})
    BY <1>3 DEF Lacks
  <1> QED
    BY <1>1, <1>6, <1>7

LEMMA ForgetOrder ==
    ASSUME NEW n \in Nodes
    PROVE  LET p == ForgetNode(n)
           IN  /\ p \in Seq(About({"drop", "findRest"}, {n})) /\ Orderly(p) /\ Confined(p, n)
               /\ ~Lacks(p, {"drop"})
  <1> DEFINE i1 == Instr("drop", n)
             i2 == Instr("findRest", n)
             p  == <<i1, i2>>
             B  == About({"drop", "findRest"}, {n})
  <1>1. ForgetNode(n) = p
    BY DEF ForgetNode
  <1>2. i1.do = "drop" /\ i2.do = "findRest" /\ i1 \in B /\ i2 \in B
    BY InstrIs DEF Instr
  <1> HIDE DEF i1, i2, B
  <1>3. p \in Seq(B) /\ Len(p) = 2 /\ p[1].do = "drop" /\ p[2].do = "findRest"
    BY <1>2
  <1> HIDE DEF p
  <1>4. \A k \in 1..Len(p) : p[k].do \in {"drop", "findRest"}
    <2>1. \A k \in 1..Len(p) : k \in {1, 2}
      BY <1>3
    <2> QED
      BY <1>3, <2>1
  <1>5. Orderly(p) /\ Confined(p, n)
    BY <1>4 DEF Orderly, Confined, Stops
  <1>6. ~Lacks(p, {"drop"})
    BY <1>3 DEF Lacks
  <1> QED
    BY <1>1, <1>3, <1>5, <1>6 DEF B

LEMMA FindAgainOrder ==
    ASSUME NEW n \in Nodes, NEW ns \in Seq({n})
    PROVE  LET p == DeleteVm(ns) \o ForgetNode(n)
           IN  Orderly(p) /\ Confined(p, n) /\ ~Lacks(p, {"drop"})
  <1> DEFINE D == {"shutdown", "down", "delete"}
             E == {"drop", "findRest"}
             T == Seq(About(D \cup E, {n}))
             a == DeleteVm(ns)
             b == ForgetNode(n)
  <1>1. a \in Seq(About(D, {n})) /\ Orderly(a)
    <2>1. {n} \in SUBSET Nodes
      OBVIOUS
    <2> QED
      BY <2>1, DeleteOrder
  <1>2. b \in Seq(About(E, {n})) /\ Orderly(b) /\ Confined(b, n) /\ ~Lacks(b, {"drop"})
    BY ForgetOrder
  <1>3. D \cap {"start", "reboot"} = {} /\ {n} \subseteq {n} /\ E \cap {"create", "ready"} = {}
    OBVIOUS
  <1>4. D \subseteq D \cup E /\ E \subseteq D \cup E
    OBVIOUS
  <1> HIDE DEF a, b, D, E
  <1>5. Confined(a, n)
    BY <1>1, <1>3, TidyPlain
  <1>6. Lacks(b, {"create", "ready"})
    BY <1>2, <1>3, LacksOthers
  <1>7. Lacks(b, {"create"}) /\ Lacks(b, {"ready"})
    BY <1>6 DEF Lacks
  <1>8. a \in T /\ b \in T
    BY <1>1, <1>2, <1>4, AboutMore
  <1> QED
    BY <1>1, <1>2, <1>5, <1>7, <1>8, OrderlyConcat, ConfinedConcat, LacksConcat DEF a, b

LEMMA ChangeOrder ==
    ASSUME NEW n \in Nodes
    PROVE  Restarted(ChangeResources(n)) /\ Orderly(ChangeResources(n))
  <1> DEFINE d1 == <<"config">>
             d2 == <<"shutdown", "halt">>
             d3 == <<"start">>
             e1 == d1 \o d2
             ds == e1 \o d3
             D  == {"config", "shutdown", "halt", "start"}
             p  == Program(ds, n)
  <1>1. ChangeResources(n) = p
    BY DEF ChangeResources, VmStop
  <1>2. d1 \in Seq(D) /\ d2 \in Seq(D) /\ d3 \in Seq(D)
    OBVIOUS
  <1>3. Len(d1) = 1 /\ Len(d2) = 2 /\ Len(d3) = 1 /\ d3[1] = "start"
    OBVIOUS
  <1> HIDE DEF p
  <1> HIDE DEF d1, d2, d3, D
  <1>4. e1 \in Seq(D) /\ ds \in Seq(D) /\ Len(e1) = Len(d1) + Len(d2) /\ Len(ds) = Len(e1) + Len(d3)
        /\ \A k \in 1..Len(d3) : ds[k + Len(e1)] = d3[k]
    <2>1. e1 \in Seq(D) /\ Len(e1) = Len(d1) + Len(d2)
      BY <1>2, ConcatIs
    <2> HIDE DEF e1, ds
    <2>2. e1 \in Seq(D) /\ d3 \in Seq(D)
      BY <1>2, <2>1
    <2>3. ds \in Seq(D) /\ Len(ds) = Len(e1) + Len(d3) /\ \A k \in 1..Len(d3) : ds[k + Len(e1)] = d3[k]
      BY <2>2, ConcatIs DEF ds
    <2> QED
      BY <2>1, <2>3
  <1> HIDE DEF e1, ds
  <1>5. ds[4] = "start" /\ Len(ds) = 4
    BY <1>3, <1>4
  <1>6. p \in Seq(About(D, {n})) /\ Len(p) = 4 /\ \A k \in 1..4 : p[k] = Instr(ds[k], n)
    <2>1. p \in Seq(About(D, {n})) /\ Len(p) = Len(ds) /\ \A k \in 1..Len(ds) : p[k] = Instr(ds[k], n)
      BY <1>4, ProgramIs DEF p
    <2> QED
      BY <1>5, <2>1
  <1>7. Orderly(p)
    <2>1. "create" \notin D /\ D \cap {"join"} = {}
      BY DEF D
    <2> QED
      BY <1>6, <2>1, TidyPlain
  <1>8. Restarted(p)
    <2> SUFFICES ASSUME NEW k \in 1..4, p[k].do \in Stops
                 PROVE  \E j \in (k + 1)..4 : p[j] = Instr("start", p[k].node)
      BY <1>6 DEF Restarted
    <2>1. p[k].do = ds[k] /\ p[k].node = n
      BY <1>6 DEF Instr
    <2>2. k # 4
      BY <1>5, <2>1 DEF Stops
    <2>3. 4 \in (k + 1)..4 /\ p[4] = Instr("start", n)
      BY <1>5, <1>6, <2>2
    <2> QED
      BY <2>1, <2>3
  <1> QED
    BY <1>1, <1>7, <1>8

\* What a use case begins with
LEMMA BeginOrder ==
    ASSUME TypeInv, KeepsMaster, NEW e \in Events, CanBegin(e), NEW w,
           w = [kind |-> e.kind, node |-> e.node, copy |-> record, used |-> {}, todo |-> Begin(e)]
    PROVE  /\ Tidy(w)
           /\ w.kind = "create" =>
                 /\ Lacks(w.todo, Stops \cup Finds)
                 /\ \A n \in ToSet(w.copy) :
                       Ahead(w.todo, "create", n) /\ Ahead(w.todo, "start", n) /\ Ahead(w.todo, "ready", n)
                 /\ \A n \in ToSet(w.copy) \ {Master(w.copy, Foreign)} : Ahead(w.todo, "join", n)
           /\ w.kind = "add" => Lacks(w.todo, Stops) /\ ~Lacks(w.todo, {"findPeers"})
           /\ w.kind = "delete" => ~Lacks(w.todo, {"findAll"})
           /\ w.kind = "deleteNode" => /\ w.todo = <<>> \/ ~Lacks(w.todo, {"findNode"})
                                       /\ Lacks(w.todo, Ends)
  <1>1. record # NoRecord /\ record \in Seq(Nodes) /\ HasMaster(record, Foreign)
    BY DEF CanBegin, TypeInv, KeepsMaster
  <1>2. e.kind \in Kinds /\ e.node \in Nodes
    BY DEF Events
  <1>3. /\ w.kind = e.kind /\ w.node = e.node /\ w.copy = record /\ w.todo = Begin(e)
    OBVIOUS
  <1>4. CASE e.kind = "create"
    <2>1. w.todo = CreateCluster(record)
      BY <1>3, <1>4 DEF Begin
    <2> QED
      BY <1>1, <1>3, <1>4, <2>1, CreateOrder DEF Tidy
  <1>5. CASE e.kind = "add"
    <2>1. w.todo = <<Instr("findPeers", e.node)>>
      BY <1>3, <1>5 DEF Begin, AddNode
    <2>2. /\ Orderly(w.todo) /\ Restarted(w.todo) /\ Lacks(w.todo, Stops) /\ ~Lacks(w.todo, {"findPeers"})
      BY <2>1, LiteralIs DEF Stops
    <2> QED
      BY <1>3, <1>5, <2>2 DEF Tidy
  <1>6. CASE e.kind = "delete"
    <2>1. w.todo = <<Instr("findAll", e.node)>>
      BY <1>3, <1>6 DEF Begin, DeleteCluster
    <2>2. /\ Orderly(w.todo) /\ ~Lacks(w.todo, {"findAll"})
      BY <2>1, LiteralIs
    <2> QED
      BY <1>3, <1>6, <2>2 DEF Tidy
  <1>7. CASE e.kind = "deleteNode" /\ LastNode(e)
    <2>1. w.todo = <<>> /\ Len(w.todo) = 0
      BY <1>3, <1>7 DEF Begin
    <2>2. Orderly(w.todo) /\ Confined(w.todo, w.node) /\ Lacks(w.todo, Ends)
      BY <2>1 DEF Orderly, Confined, Lacks
    <2> QED
      BY <1>3, <1>7, <2>1, <2>2 DEF Tidy
  <1>8. CASE e.kind = "deleteNode" /\ ~LastNode(e)
    <2>1. w.todo = <<Instr("findNode", e.node)>>
      BY <1>3, <1>8 DEF Begin, DeleteNode
    <2>2. /\ Orderly(w.todo) /\ Confined(w.todo, w.node) /\ Lacks(w.todo, Ends) /\ ~Lacks(w.todo, {"findNode"})
      BY <2>1, LiteralIs DEF Stops, Ends
    <2> QED
      BY <1>3, <1>8, <2>2 DEF Tidy
  <1>9. CASE e.kind = "change"
    <2>1. w.todo = ChangeResources(e.node)
      BY <1>3, <1>9 DEF Begin
    <2>2. Restarted(w.todo) /\ Orderly(w.todo)
      BY <1>2, <2>1, ChangeOrder
    <2> QED
      BY <1>3, <1>9, <2>2 DEF Tidy
  <1> QED
    BY <1>2, <1>4, <1>5, <1>6, <1>7, <1>8, <1>9 DEF Kinds

\* What a search is followed by
LEMMA ThenOrder ==
    ASSUME BaseInv, Busy, worker.todo # <<>>, Verb \in Finds
    PROVE  LET p == Then(Verb, Node)
           IN  /\ Orderly(p)
               /\ Verb = "findAll" => worker.kind = "delete" /\ ~Lacks(p, {"erase"})
               /\ Verb = "findPeers" =>
                     /\ worker.kind = "add" /\ Node = worker.node
                     /\ Restarted(p) /\ Lacks(p, Stops)
                     /\ Ahead(p, "create", Node) /\ Ahead(p, "start", Node) /\ Ahead(p, "join", Node)
               /\ Verb \in {"findNode", "findAgain", "findRest"} =>
                     worker.kind = "deleteNode" /\ Node = worker.node /\ Confined(p, Node)
               /\ Verb = "findNode" => \/ /\ ExistsVm(Node) /\ Lacks(p, Ends)
                                          /\ ~Lacks(p, {"remove"}) /\ ~Lacks(p, {"findAgain"})
                                       \/ ~ExistsVm(Node) /\ ~Lacks(p, {"drop"})
               /\ Verb = "findAgain" => ~Lacks(p, {"drop"})
               /\ Verb = "findRest" => Lacks(p, Ends)
  <1> DEFINE p == Then(Verb, Node)
             n == Node
             w == worker
             ns == Existing(w.copy)
  <1>1. n \in Nodes /\ w.copy \in Seq(Nodes) /\ w.node \in Nodes /\ Scope(w, Head(w.todo)) /\ ShapeInv
    BY TailShape DEF BaseInv, Busy, Workers
  <1>2. /\ Verb = "findAll" => w.kind = "delete"
        /\ Verb = "findPeers" => w.kind = "add" /\ n = w.node
        /\ Verb \in {"findNode", "findAgain", "findRest"} => w.kind = "deleteNode" /\ n = w.node
    BY <1>1 DEF Scope, Verb, Node
  <1>3. w.kind = "deleteNode" => HasMaster(w.copy, w.node) /\ record \in Seq(Nodes)
    BY <1>1 DEF ShapeInv, Shaped, BaseInv, RecordInv, TypeInv
  <1>4. ns \in Seq(Nodes)
    BY <1>1, ExistingAre
  <1>5. CASE Verb = "findAll"
    <2>1. p = DeleteVms(ns)
      BY <1>5 DEF Then
    <2> HIDE DEF p, ns, w
    <2>2. Orderly(p) /\ ~Lacks(p, {"erase"})
      BY <1>4, <2>1, DeleteOrder
    <2> QED
      BY <1>2, <1>5, <2>2 DEF p, w
  <1>6. CASE Verb = "findPeers"
    <2> DEFINE ps == Others(ns, n)
    <2>1. p = AddToPeers(n, ps)
      BY <1>6 DEF Then
    <2>2. ps \in Seq(Nodes)
      BY <1>4, OthersAre
    <2> HIDE DEF p, ps, n, w
    <2>3. /\ Restarted(p) /\ Orderly(p) /\ Lacks(p, Stops \cup Finds)
          /\ Ahead(p, "create", n) /\ Ahead(p, "start", n) /\ Ahead(p, "join", n)
      BY <1>1, <2>1, <2>2, AddOrder
    <2>4. Lacks(p, Stops)
      BY <2>3 DEF Lacks
    <2> QED
      BY <1>2, <1>6, <2>3, <2>4 DEF p, n, w
  <1>7. CASE Verb = "findNode" /\ ExistsVm(n)
    <2> DEFINE m == Master(w.copy, n)
    <2>1. p = DetachNode(n, m)
      BY <1>7 DEF Then
    <2>2. m \in Nodes
      BY <1>1, <1>2, <1>3, <1>7, MasterIsNode, InToSet
    <2> HIDE DEF p, m, n, w
    <2>3. Orderly(p) /\ Confined(p, n) /\ Lacks(p, Ends) /\ ~Lacks(p, {"remove"}) /\ ~Lacks(p, {"findAgain"})
      BY <1>1, <2>1, <2>2, DetachOrder
    <2> QED
      BY <1>2, <1>7, <2>3 DEF p, n, w
  <1>8. CASE Verb = "findNode" /\ ~ExistsVm(n)
    <2>1. p = ForgetNode(n)
      BY <1>8 DEF Then
    <2> HIDE DEF p, n, w
    <2>2. Orderly(p) /\ Confined(p, n) /\ ~Lacks(p, {"drop"})
      BY <1>1, <2>1, ForgetOrder
    <2> QED
      BY <1>2, <1>8, <2>2 DEF p, n, w
  <1>9. CASE Verb = "findAgain"
    <2> DEFINE v == IF ExistsVm(n) THEN <<n>> ELSE <<>>
    <2>1. p = DeleteVm(v) \o ForgetNode(n)
      BY <1>9 DEF Then
    <2>2. v \in Seq({n})
      <3> HIDE DEF n
      <3>1. <<n>> \in Seq({n}) /\ <<>> \in Seq({n})
        OBVIOUS
      <3> QED
        BY <3>1
    <2> HIDE DEF p, v, n, w
    <2>3. Orderly(p) /\ Confined(p, n) /\ ~Lacks(p, {"drop"})
      BY <1>1, <2>1, <2>2, FindAgainOrder
    <2> QED
      BY <1>2, <1>9, <2>3 DEF p, n, w
  <1>10. CASE Verb = "findRest"
    <2>1. p = Each("unhost", Existing(record))
      BY <1>10 DEF Then
    <2>2. Existing(record) \in Seq(Nodes)
      BY <1>2, <1>3, <1>10, ExistingAre
    <2>3. p \in Seq(About({"unhost"}, Nodes))
      BY <2>1, <2>2, EachIs
    <2>4. "create" \notin {"unhost"} /\ {"unhost"} \cap {"start", "reboot"} = {} /\ {"unhost"} \cap {"join"} = {}
          /\ {"unhost"} \cap Stops = {} /\ {"unhost"} \cap Ends = {}
      BY DEF Stops, Ends
    <2> HIDE DEF p, n, w
    <2>5. Orderly(p) /\ Confined(p, n) /\ Lacks(p, Ends)
      BY <2>3, <2>4, TidyPlain, LacksOthers
    <2> QED
      BY <1>2, <1>10, <2>5 DEF p, n, w
  <1> QED
    BY <1>5, <1>6, <1>7, <1>8, <1>9, <1>10 DEF Finds

\* What the worker does to go on, more closely
Passing ==
    /\ Kept /\ Moves(<<>>)
    /\ Verb \notin Requests \cup Finds \cup {"setHosts", "ready", "join", "remove", "unhost", "drop", "erase"}

Reboots ==
    Kept /\ Verb = "reboot" /\ Reachable(Node) /\ Moves(Program(VmStop \o <<"start", "up">>, Node))

Insists ==
    Kept /\ Verb \in {"down", "halt"} /\ \E x \in {"again", "halted"} : Moves(Program(<<"stop", x>>, Node))

\* Who is a member after a command that succeeded
Enters ==
    /\ Verb = "join" => members' = members \cup {Node}
    /\ Verb = "ready" =>
          members' = IF worker.kind = "create" /\ Node = Master(worker.copy, Foreign) THEN {Node} ELSE members
    /\ Verb = "remove" => members' = members \ {worker.node}
    /\ Verb \notin {"join", "ready", "remove"} => UNCHANGED members

Works ==
    /\ worker' # Idle /\ UNCHANGED <<queue, failed>>
    /\ \/ Passing \/ Reboots \/ Insists \/ Asks \/ Looks
       \/ (Commands /\ Enters) \/ Drops \/ Erases

\* The worker leaves the queue alone; it ends a program by Finish, or with a failure.
LEMMA StepEnds ==
    ASSUME TypeInv, Step
    PROVE  /\ worker # Idle
           /\ worker' = Idle => Finish \/ failed'
           /\ worker' # Idle => UNCHANGED <<queue, failed>>
  <1> DEFINE Good == /\ worker # Idle /\ UNCHANGED queue
                     /\ (worker' = Idle /\ failed') \/ (worker' # Idle /\ UNCHANGED failed)
  <1>1. \A d : Current(d) => worker # Idle /\ worker.todo # <<>>
    BY DEF Current
  <1>2. worker # Idle => worker \in Workers
    BY DEF TypeInv, Busy
  <1>3. \A p : worker # Idle /\ Goto(p) => worker' # Idle /\ UNCHANGED failed
    <2> SUFFICES ASSUME NEW p, worker # Idle, Goto(p) PROVE worker' # Idle /\ UNCHANGED failed
      OBVIOUS
    <2>1. worker'.kind \in Kinds
      BY <1>2 DEF Goto, Workers
    <2> QED
      BY <2>1 DEF Goto, Idle, Kinds
  <1>4. Proceed => \E p : Goto(p)
    BY DEF Proceed
  <1>5. worker # Idle /\ Proceed => worker' # Idle /\ UNCHANGED failed
    BY <1>3, <1>4
  <1>6. Abort => worker' = Idle /\ failed'
    BY DEF Abort
  <1>7. Unchanged => UNCHANGED queue
    BY DEF Unchanged
  <1>8. \A d, v, ms : Run(d, v, ms) => Good
    BY <1>1, <1>5, <1>6 DEF Run
  <1>9. Finish => worker # Idle /\ worker' = Idle
    BY DEF Finish
  <1>10. ASSUME Request PROVE Good
    <2>1. PICK d \in Requests :
          /\ Current(d)
          /\ \E a \in Answers(d, vm[Node], Node) :
                /\ vm' = [vm EXCEPT ![Node] = a.vm]
                /\ IF a.ok THEN Proceed ELSE Abort
      BY <1>10 DEF Request
    <2>2. Proceed \/ Abort
      BY <2>1
    <2>3. UNCHANGED queue
      BY <1>10 DEF Request
    <2> QED
      BY <1>1, <1>5, <1>6, <2>1, <2>2, <2>3
  <1>11. ASSUME UsedIds PROVE Good
    <2>1. Current("usedIds") /\ UNCHANGED queue
      BY <1>7, <1>11 DEF UsedIds
    <2>2. CASE Abort
      BY <1>1, <1>6, <2>1, <2>2
    <2>3. CASE ~Abort
      <3>1. worker' = [worker EXCEPT !.todo = Rest, !.used = {n \in Nodes : Listed(vm[n])}] /\ UNCHANGED failed
        BY <1>11, <2>3 DEF UsedIds
      <3>2. worker'.kind \in Kinds
        BY <1>1, <1>2, <2>1, <3>1 DEF Workers
      <3>3. worker' # Idle
        BY <3>2 DEF Idle, Kinds
      <3> QED
        BY <1>1, <2>1, <3>1, <3>3
    <2> QED
      BY <2>2, <2>3
  <1>12. ASSUME CheckUnused PROVE Good
    BY <1>1, <1>5, <1>6, <1>7, <1>12 DEF CheckUnused
  <1>13. ASSUME WaitUnlocked PROVE Good
    BY <1>1, <1>5, <1>6, <1>7, <1>13 DEF WaitUnlocked
  <1>14. ASSUME WaitDown PROVE Good
    <2>1. PICK w \in {<<"down", "again">>, <<"halt", "halted">>} :
             /\ Current(w[1])
             /\ Proceed \/ Abort \/ \E p : Goto(p)
      BY <1>14 DEF WaitDown
    <2> QED
      BY <1>1, <1>3, <1>5, <1>6, <1>7, <1>14, <2>1 DEF WaitDown
  <1>15. ASSUME WaitStopped PROVE Good
    BY <1>1, <1>5, <1>6, <1>7, <1>15 DEF WaitStopped
  <1>16. ASSUME Find PROVE Good
    <2>1. PICK d : Current(d) /\ \E p : Goto(p)
      BY <1>16 DEF Find
    <2>2. UNCHANGED queue
      BY <1>16 DEF Find
    <2> QED
      BY <1>1, <1>3, <2>1, <2>2
  <1>17. ASSUME FindFails PROVE Good
    BY <1>1, <1>6, <1>7, <1>17 DEF FindFails
  <1>18. ASSUME Ssh PROVE Good
    <2>1. CASE Reboot
      <3>1. Current("reboot") /\ (\E p : Goto(p)) /\ UNCHANGED queue
        BY <1>7, <2>1 DEF Reboot
      <3> QED
        BY <1>1, <1>3, <3>1
    <2>2. CASE Join
      BY <1>1, <1>6, <1>7, <1>8, <2>2 DEF Join
    <2>3. CASE SetHosts
      <3>1. CASE Run("setHosts", [vm[Node] EXCEPT !.hosts = @ \cup ToSet(worker.copy)], members)
        BY <1>8, <3>1
      <3>2. CASE Current("setHosts") /\ Abort /\ UNCHANGED queue
        BY <1>1, <1>6, <3>2
      <3> QED
        BY <2>3, <3>1, <3>2 DEF SetHosts
    <2>4. CASE \E d \in {"up", "reboot", "ssh", "drain"} : Current(d) /\ Plain(d)
      BY <1>8, <2>4 DEF Plain
    <2>5. CASE RemoveHosts \/ Install
      BY <1>8, <2>5 DEF RemoveHosts, Install
    <2>6. CASE WaitReady
      BY <1>8, <2>6 DEF WaitReady
    <2>7. CASE RemoveNode
      BY <1>8, <2>7 DEF RemoveNode
    <2> QED
      BY <1>18, <2>1, <2>2, <2>3, <2>4, <2>5, <2>6, <2>7 DEF Ssh
  <1>19. ASSUME DropNode \/ Erase PROVE Good
    BY <1>1, <1>5, <1>19 DEF DropNode, Erase
  <1>20. Step => Finish \/ Good
    BY <1>10, <1>11, <1>12, <1>13, <1>14, <1>15, <1>16, <1>17, <1>18, <1>19 DEF Step
  <1>21. Good => /\ worker # Idle
                 /\ worker' = Idle => failed'
                 /\ worker' # Idle => UNCHANGED <<queue, failed>>
    OBVIOUS
  <1> HIDE DEF Good
  <1> QED
    BY <1>9, <1>20, <1>21

LEMMA WaitsMore ==
    ASSUME TypeInv, worker' # Idle, UsedIds \/ CheckUnused \/ WaitUnlocked \/ WaitDown \/ WaitStopped \/ Reboot
    PROVE  Passing \/ Reboots \/ Insists
  <1> DEFINE Other == Requests \cup Finds
                      \cup {"setHosts", "ready", "join", "remove", "unhost", "drop", "erase"}
  <1>1. \A d : Current(d) => worker # Idle /\ worker.todo # <<>> /\ Verb = d
    BY DEF Current, Verb
  <1>2. {"usedIds", "unused", "unlocked", "down", "again", "halt", "halted", "reboot"} \cap Other = {}
    BY DEF Requests, Finds
  <1>3. Unchanged => Kept
    BY DEF Unchanged, Kept
  <1>4. ~Abort
    BY DEF Abort
  <1> HIDE DEF Other
  <1>5. ASSUME worker # Idle, worker.todo # <<>>, Kept, Verb \notin Other, Proceed
        PROVE  Passing
    BY <1>5, ProceedMoves DEF Passing, Other
  <1>6. ASSUME worker # Idle, worker.todo # <<>>, NEW ds \in Seq(Again), Goto(Program(ds, Node) \o Rest)
        PROVE  Moves(Program(ds, Node))
    <2> DEFINE q == Program(ds, Node)
    <2>1. q \in Seq(About(Again, {Node}))
      BY ProgramIs
    <2>2. Node \in Nodes /\ Again \subseteq Verbs /\ {Node} \subseteq Nodes
      BY <1>6, BusyIs DEF Again, Verbs, Requests
    <2>3. q \in Seq(About(Verbs, Nodes))
      BY <2>1, <2>2, AboutMore
    <2>4. worker' = [worker EXCEPT !.todo = q \o Tail(worker.todo)]
      BY <1>6 DEF Goto, Rest
    <2>5. q \in Seq(Instruction)
      BY <2>3 DEF About, Instruction
    <2> HIDE DEF q
    <2>6. Moves(q)
      BY <1>6, <2>4, <2>5, GotoMoves
    <2> QED
      BY <2>6 DEF q
  <1>7. CASE UsedIds
    <2>1. Kept /\ worker # Idle /\ worker.todo # <<>> /\ Verb \notin Other
      BY <1>1, <1>2, <1>3, <1>7 DEF UsedIds
    <2>2. worker' = [worker EXCEPT !.todo = Rest, !.used = {n \in Nodes : Listed(vm[n])}]
      BY <1>4, <1>7 DEF UsedIds
    <2>3. Busy /\ Tail(worker.todo) \in Seq(Instruction)
      BY <2>1, BusyIs
    <2> DEFINE p == Tail(worker.todo)
               u == {n \in Nodes : Listed(vm[n])}
    <2>4. p \in Seq(Instruction) /\ u \in SUBSET Nodes
      BY <2>3
    <2>5. worker' = [worker EXCEPT !.todo = p, !.used = u]
      BY <2>2 DEF Rest
    <2> HIDE DEF p, u
    <2>6. /\ worker' \in Workers /\ worker'.kind = worker.kind /\ worker'.node = worker.node
          /\ worker'.copy = worker.copy /\ worker'.todo = p
      BY <2>3, <2>4, <2>5 DEF Busy, Workers
    <2>7. p = <<>> \o Tail(worker.todo)
      BY <2>3, EmptyIs DEF p
    <2>8. Moves(<<>>)
      BY <2>1, <2>3, <2>6, <2>7 DEF Moves, Busy
    <2> QED
      BY <2>1, <2>8 DEF Passing, Other
  <1>8. CASE CheckUnused
    BY <1>1, <1>2, <1>3, <1>4, <1>5, <1>8 DEF CheckUnused
  <1>9. CASE WaitUnlocked
    BY <1>1, <1>2, <1>3, <1>4, <1>5, <1>9 DEF WaitUnlocked
  <1>10. CASE WaitDown
    <2>1. PICK w \in {<<"down", "again">>, <<"halt", "halted">>} :
             /\ Current(w[1])
             /\ \/ Proceed
                \/ Goto(Program(<<"stop", w[2]>>, Node) \o Rest)
      BY <1>4, <1>10 DEF WaitDown
    <2>2. w[1] \in {"down", "halt"} /\ w[2] \in {"again", "halted"}
      OBVIOUS
    <2>3. Kept /\ worker # Idle /\ worker.todo # <<>> /\ Verb = w[1]
      BY <1>1, <1>3, <1>10, <2>1 DEF WaitDown
    <2>4. CASE Proceed
      BY <1>2, <1>5, <2>2, <2>3, <2>4
    <2>5. CASE Goto(Program(<<"stop", w[2]>>, Node) \o Rest)
      <3>1. <<"stop", w[2]>> \in Seq(Again)
        BY <2>2 DEF Again
      <3>2. Moves(Program(<<"stop", w[2]>>, Node))
        BY <1>6, <2>3, <2>5, <3>1
      <3> QED
        BY <2>2, <2>3, <3>2 DEF Insists
    <2> QED
      BY <2>1, <2>4, <2>5
  <1>11. CASE WaitStopped
    BY <1>1, <1>2, <1>3, <1>4, <1>5, <1>11 DEF WaitStopped
  <1>12. CASE Reboot
    <2>1. Kept /\ worker # Idle /\ worker.todo # <<>> /\ Verb = "reboot"
      BY <1>1, <1>3, <1>12 DEF Reboot
    <2>2. Reachable(Node) /\ Goto(Program(VmStop \o <<"start", "up">>, Node) \o Rest)
      BY <1>12 DEF Reboot
    <2>3. VmStop \in Seq(Again) /\ <<"start", "up">> \in Seq(Again)
      BY DEF Again, VmStop
    <2>4. VmStop \o <<"start", "up">> \in Seq(Again)
      BY <2>3, ConcatIs
    <2>5. Moves(Program(VmStop \o <<"start", "up">>, Node))
      BY <1>6, <2>1, <2>2, <2>4
    <2> QED
      BY <2>1, <2>2, <2>5 DEF Reboots
  <1> QED
    BY <1>7, <1>8, <1>9, <1>10, <1>11, <1>12

LEMMA SshEnters ==
    ASSUME Ssh, ~Reboot, worker' # Idle
    PROVE  Enters
  <1>1. \A d, v, ms : Run(d, v, ms) => Verb = d /\ members' = ms
    BY DEF Run, Abort, Current, Verb
  <1>2. CASE \E d \in {"up", "reboot", "ssh", "drain"} : Current(d) /\ Plain(d)
    <2>1. PICK d \in {"up", "reboot", "ssh", "drain"} : Run(d, vm[Node], members)
      BY <1>2 DEF Plain
    <2>2. Verb = d /\ members' = members
      BY <1>1, <2>1
    <2> QED
      BY <2>2 DEF Enters
  <1>3. CASE SetHosts
    <2>1. Verb = "setHosts" /\ members' = members
      BY <1>1, <1>3 DEF SetHosts, Abort
    <2> QED
      BY <2>1 DEF Enters
  <1>4. CASE RemoveHosts
    <2>1. Verb = "unhost" /\ members' = members
      BY <1>1, <1>4 DEF RemoveHosts
    <2> QED
      BY <2>1 DEF Enters
  <1>5. CASE Install
    <2>1. Verb = "install" /\ members' = members
      BY <1>1, <1>5 DEF Install
    <2> QED
      BY <2>1 DEF Enters
  <1>6. CASE WaitReady
    <2> DEFINE ms == IF worker.kind = "create" /\ Node = Master(worker.copy, Foreign) THEN {Node} ELSE members
    <2>1. Verb = "ready" /\ members' = ms
      <3>1. Run("ready", [vm[Node] EXCEPT !.kube = "ready"], ms)
        BY <1>6 DEF WaitReady
      <3> HIDE DEF ms
      <3> QED
        BY <1>1, <3>1
    <2> QED
      BY <2>1 DEF Enters
  <1>7. CASE Join
    <2>1. Run("join", vm[Node], members \cup {Node})
      BY <1>7 DEF Join, Abort
    <2>2. Verb = "join" /\ members' = members \cup {Node}
      BY <1>1, <2>1
    <2> QED
      BY <2>2 DEF Enters
  <1>8. CASE RemoveNode
    <2>1. Verb = "remove" /\ members' = members \ {worker.node}
      BY <1>1, <1>8 DEF RemoveNode
    <2> QED
      BY <2>1 DEF Enters
  <1> QED
    BY <1>2, <1>3, <1>4, <1>5, <1>6, <1>7, <1>8 DEF Ssh

LEMMA WorkIs ==
    ASSUME BaseInv, Step, worker' # Idle
    PROVE  Works
  <1> USE DEF BaseInv
  <1>1. worker # Idle /\ UNCHANGED <<queue, failed>>
    BY StepEnds
  <1>2. ~Halts /\ ~Abort /\ ~Finish /\ ~FindFails
    BY DEF Halts, Abort, Finish, FindFails
  <1>3. CASE Request
    BY <1>1, <1>3, RequestAsks DEF Works
  <1>4. CASE UsedIds \/ CheckUnused \/ WaitUnlocked \/ WaitDown \/ WaitStopped \/ Reboot
    BY <1>1, <1>4, WaitsMore DEF Works
  <1>5. CASE Find
    <2>1. record # NoRecord \/ worker.kind # "deleteNode"
      BY <1>1 DEF RecordInv, TypeInv, Busy
    <2>2. AnyNode \in Nodes
      <3>1. worker.node \in Nodes
        BY <1>1 DEF TypeInv, Workers
      <3> QED
        BY <3>1 DEF AnyNode
    <2> QED
      BY <1>1, <1>5, <2>1, <2>2, FindLooks DEF Works
  <1>6. CASE Ssh /\ ~Reboot
    BY <1>1, <1>2, <1>6, SshCommands, SshEnters DEF Works
  <1>7. CASE DropNode
    <2>1. worker # Idle /\ worker.todo # <<>> /\ Verb = "drop" /\ Proceed
      BY <1>7 DEF DropNode, Current, Verb
    <2>2. Drops
      BY <1>7, <2>1, ProceedMoves DEF DropNode, Drops
    <2> QED
      BY <1>1, <2>2 DEF Works
  <1>8. CASE Erase
    <2>1. worker # Idle /\ worker.todo # <<>> /\ Verb = "erase" /\ Proceed
      BY <1>8 DEF Erase, Current, Verb
    <2>2. Erases
      BY <1>8, <2>1, ProceedMoves DEF Erase, Erases
    <2> QED
      BY <1>1, <2>2 DEF Works
  <1> QED
    BY <1>2, <1>3, <1>4, <1>5, <1>6, <1>7, <1>8 DEF Step

\* What comes first when the worker goes on, but after a search
Inserted(q) ==
    \/ q = <<>>
    \/ Verb = "reboot" /\ Reachable(Node) /\ q = Program(VmStop \o <<"start", "up">>, Node)
    \/ Verb \in {"down", "halt"} /\ \E x \in {"again", "halted"} : q = Program(<<"stop", x>>, Node)

LEMMA WorksMove ==
    ASSUME Works
    PROVE  Looks \/ \E q : Moves(q) /\ Inserted(q)
  <1>1. CASE Passing \/ Asks \/ Commands \/ Drops \/ Erases
    <2>1. Moves(<<>>)
      BY <1>1 DEF Passing, Asks, Commands, Drops, Erases, Works
    <2> QED
      BY <2>1 DEF Inserted
  <1>2. CASE Reboots
    <2> DEFINE q == Program(VmStop \o <<"start", "up">>, Node)
    <2>1. Moves(q) /\ Inserted(q)
      BY <1>2 DEF Reboots, Inserted
    <2> QED
      BY <2>1
  <1>3. CASE Insists
    <2>1. PICK x \in {"again", "halted"} : Moves(Program(<<"stop", x>>, Node))
      BY <1>3 DEF Insists
    <2> DEFINE q == Program(<<"stop", x>>, Node)
    <2>2. Moves(q) /\ Inserted(q)
      BY <1>3, <2>1 DEF Insists, Inserted
    <2> QED
      BY <2>2
  <1> QED
    BY <1>1, <1>2, <1>3 DEF Works

LEMMA InsertedIs ==
    ASSUME NEW q, Inserted(q), Node \in Nodes
    PROVE  /\ q \in Seq(About(Again, {Node})) /\ Orderly(q) /\ Lacks(q, {"create", "join", "ready"})
           /\ q = <<>> \/ Verb \in {"reboot", "down", "halt"}
           /\ Verb # "reboot" => Lacks(q, {"start", "reboot"}) /\ Confined(q, Node)
           /\ Verb = "reboot" => Restarted(q)
           /\ \A d \in Stops : \A n : Ahead(q, d, n) =>
                 n = Node /\ ((Verb = "reboot" /\ Reachable(Node)) \/ Verb \in {"down", "halt"})
  <1>1. CASE q = <<>>
    <2>1. Len(q) = 0 /\ q \in Seq(About(Again, {Node}))
      BY <1>1
    <2> QED
      BY <1>1, <2>1 DEF Lacks, Ahead, Orderly, Restarted, Confined
  <1>2. CASE Verb \in {"down", "halt"} /\ q # <<>>
    <2>1. PICK x \in {"again", "halted"} : q = Program(<<"stop", x>>, Node)
      BY <1>2 DEF Inserted
    <2> DEFINE D == {"stop", "again", "halted"}
    <2>2. <<"stop", x>> \in Seq(D)
      BY <2>1
    <2>3. q \in Seq(About(D, {Node}))
      BY <2>1, <2>2, ProgramIs
    <2>4. D \subseteq Again /\ D \cap {"create", "join", "ready"} = {} /\ D \cap {"start", "reboot"} = {}
          /\ D \cap {"join"} = {}
      BY DEF Again
    <2> HIDE DEF D
    <2>5. q \in Seq(About(Again, {Node}))
      BY <2>3, <2>4, AboutMore
    <2>6. Orderly(q) /\ Confined(q, Node)
      BY <2>3, <2>4, TidyPlain
    <2>7. Lacks(q, {"create", "join", "ready"}) /\ Lacks(q, {"start", "reboot"})
      BY <2>3, <2>4, LacksOthers
    <2>8. \A d \in Stops : \A n : Ahead(q, d, n) => n = Node
      <3>0. \A k \in 1..Len(q) : q[k] \in About(D, {Node})
        BY <2>3
      <3>1. \A k \in 1..Len(q) : q[k].node = Node
        BY <3>0 DEF About
      <3> QED
        BY <3>1 DEF Ahead, Instr
    <2> QED
      BY <1>2, <2>5, <2>6, <2>7, <2>8
  <1>3. CASE Verb = "reboot" /\ q # <<>>
    <2> DEFINE a  == VmStop
               b  == <<"start", "up">>
               ds == a \o b
               D  == {"shutdown", "halt", "start", "up"}
    <2>1. q = Program(ds, Node) /\ Reachable(Node)
      BY <1>3 DEF Inserted
    <2>2. a \in Seq(D) /\ b \in Seq(D) /\ Len(a) = 2 /\ Len(b) = 2 /\ b[1] = "start" /\ b[2] = "up"
      BY DEF VmStop
    <2>3. D \subseteq Again /\ D \cap {"create", "join", "ready"} = {} /\ D \cap {"join"} = {}
          /\ "create" \notin D
      BY DEF Again
    <2> HIDE DEF a, b, D
    <2>0. a \in Seq(D) /\ b \in Seq(D)
      BY <2>2
    <2> HIDE DEF ds
    <2>4. /\ ds \in Seq(D) /\ Len(ds) = Len(a) + Len(b)
          /\ \A k \in 1..Len(b) : ds[k + Len(a)] = b[k]
      BY <2>0, ConcatIs DEF ds
    <2>5. Len(ds) = 4 /\ ds[3] = "start" /\ ds[4] = "up"
      BY <2>2, <2>4
    <2>6. q \in Seq(About(D, {Node})) /\ Len(q) = 4 /\ \A k \in 1..4 : q[k] = Instr(ds[k], Node)
      <3>1. q \in Seq(About(D, {Node})) /\ Len(q) = Len(ds) /\ \A k \in 1..Len(ds) : q[k] = Instr(ds[k], Node)
        BY <2>1, <2>4, ProgramIs
      <3> QED
        BY <2>5, <3>1
    <2>7. q \in Seq(About(Again, {Node})) /\ Orderly(q) /\ Lacks(q, {"create", "join", "ready"})
      BY <2>3, <2>6, AboutMore, TidyPlain, LacksOthers
    <2>8. Restarted(q)
      <3> SUFFICES ASSUME NEW k \in 1..4, q[k].do \in Stops
                   PROVE  \E j \in (k + 1)..4 : q[j] = Instr("start", q[k].node)
        BY <2>6 DEF Restarted
      <3>1. q[k].do = ds[k] /\ q[k].node = Node
        BY <2>6 DEF Instr
      <3>2. k # 3 /\ k # 4
        BY <2>5, <3>1 DEF Stops
      <3>3. 3 \in (k + 1)..4 /\ q[3] = Instr("start", Node)
        BY <2>5, <2>6, <3>2
      <3> QED
        BY <3>1, <3>3
    <2>9. \A d \in Stops : \A n : Ahead(q, d, n) => n = Node
      BY <2>6 DEF Ahead, Instr
    <2> QED
      BY <1>3, <2>1, <2>7, <2>8, <2>9
  <1> QED
    BY <1>1, <1>2, <1>3 DEF Inserted

\* What is left of a program is as orderly as the whole.
LEMMA TidyNext ==
    ASSUME BaseInv, BaseInv', TidyInv, [Next]_vars
    PROVE  TidyInv'
  <1> SUFFICES ASSUME Busy' PROVE Tidy(worker')
    BY DEF TidyInv
  <1>1. CASE UNCHANGED worker
    <2>1. Busy
      BY <1>1 DEF Busy
    <2>2. Tidy(worker)
      BY <2>1 DEF TidyInv
    <2> QED
      BY <1>1, <2>2
  <1>2. CASE Receive
    <2> DEFINE e == Head(queue)
    <2>1. e \in Events /\ CanBegin(e)
      BY <1>2, IdleIs DEF Receive, Abort, BaseInv, TypeInv, Busy
    <2>2. worker' = [kind |-> e.kind, node |-> e.node, copy |-> record, used |-> {}, todo |-> Begin(e)]
      BY <1>2, <2>1 DEF Receive
    <2>3. TypeInv /\ KeepsMaster
      BY DEF BaseInv, RecordInv
    <2> DEFINE w == worker'
    <2>4. w = [kind |-> e.kind, node |-> e.node, copy |-> record, used |-> {}, todo |-> Begin(e)]
      BY <2>2
    <2> HIDE DEF e, w
    <2>5. Tidy(w)
      BY <2>1, <2>3, <2>4, BeginOrder
    <2> QED
      BY <2>5 DEF w
  <1>3. CASE Step
    <2>1. worker' # Idle
      BY IdleIs DEF Busy
    <2>2. Works
      BY <1>3, <2>1, WorkIs
    <2>3. CASE Looks
      <3> DEFINE p == Then(Verb, Node)
      <3>1. /\ Busy /\ worker.todo # <<>> /\ Verb \in Finds
            /\ worker'.kind = worker.kind /\ worker'.node = worker.node /\ worker'.todo = p
        BY <2>3 DEF Looks, Moves
      <3>2. /\ Orderly(p)
            /\ Verb = "findAll" => worker.kind = "delete"
            /\ Verb = "findPeers" => worker.kind = "add" /\ Restarted(p)
            /\ Verb \in {"findNode", "findAgain", "findRest"} =>
                     worker.kind = "deleteNode" /\ Node = worker.node /\ Confined(p, Node)
        BY <3>1, ThenOrder
      <3> HIDE DEF p
      <3> QED
        BY <3>1, <3>2 DEF Tidy, Finds
    <2>4. ASSUME NEW q, Moves(q), Inserted(q)
          PROVE  Tidy(worker')
      <3> DEFINE p == worker.todo
                 t == Tail(worker.todo)
                 r == worker'.todo
      <3>1. /\ Busy /\ p # <<>> /\ r = q \o t
            /\ worker'.kind = worker.kind /\ worker'.node = worker.node
        BY <2>4 DEF Moves
      <3>2. p \in Seq(Scoped(worker)) /\ t \in Seq(Scoped(worker)) /\ Node \in Nodes
        BY <3>1, TailShape DEF BaseInv
      <3>3. q \in Seq(Scoped(worker))
        <4>1. q \in Seq(About(Again, {Node}))
          BY <2>4, <3>2, InsertedIs
        <4> QED
          BY <3>1, <3>2, <4>1, AgainIs DEF BaseInv
      <3>4. /\ Orderly(q) /\ Lacks(q, {"create", "join", "ready"})
            /\ q = <<>> \/ Verb \in {"reboot", "down", "halt"}
            /\ Verb # "reboot" => Lacks(q, {"start", "reboot"}) /\ Confined(q, Node)
            /\ Verb = "reboot" => Restarted(q)
            /\ \A d \in Stops : \A n : Ahead(q, d, n) => n = Node
        BY <2>4, <3>2, InsertedIs
      <3>5. /\ Restarted(p) => /\ Restarted(t)
                               /\ Verb \in Stops => Ahead(t, "start", Node)
            /\ Orderly(p) => /\ Orderly(t)
                             /\ Verb \in {"start", "reboot"} => Lacks(t, {"create"})
            /\ \A n : Confined(p, n) => /\ Confined(t, n)
                                        /\ Verb \notin {"start", "reboot"}
                                        /\ Verb \in Stops => Node = n
        <4>1. /\ Restarted(p) => /\ Restarted(t)
                                 /\ Head(p).do \in Stops => Ahead(t, "start", Head(p).node)
              /\ Orderly(p) => /\ Orderly(t)
                               /\ Head(p).do \in {"start", "reboot"} => Lacks(t, {"create"})
              /\ \A n : Confined(p, n) => /\ Confined(t, n)
                                          /\ Head(p).do \notin {"start", "reboot"}
                                          /\ Head(p).do \in Stops => Head(p).node = n
          BY <3>1, <3>2, TidyTail
        <4> QED
          BY <4>1 DEF Verb, Node
      <3>6. Tidy(worker)
        BY <3>1 DEF TidyInv
      <3> HIDE DEF p, t, r
      <3>7. Orderly(p) /\ (worker.kind \notin {"delete", "deleteNode"} => Restarted(p))
            /\ (worker.kind = "deleteNode" => Confined(p, worker.node))
        BY <3>6 DEF Tidy, p
      <3>8. \A k \in 1..Len(q) : q[k].do \in Stops => Ahead(q, q[k].do, q[k].node)
        BY <3>3 DEF Ahead, Instr, Scoped, Instruction
      <3>9. Orderly(r)
        <4>1. Lacks(q, {"start", "reboot"}) \/ Lacks(t, {"create"})
          BY <3>4, <3>5, <3>7
        <4>2. Lacks(q, {"join"})
          BY <3>4 DEF Lacks
        <4> QED
          BY <3>1, <3>2, <3>3, <3>4, <3>5, <3>7, <4>1, <4>2, OrderlyConcat
      <3>10. worker.kind \notin {"delete", "deleteNode"} => Restarted(r)
        <4> SUFFICES ASSUME worker.kind \notin {"delete", "deleteNode"} PROVE Restarted(r)
          OBVIOUS
        <4>1. Restarted(t)
          BY <3>5, <3>7
        <4>2. Restarted(q) \/ \A k \in 1..Len(q) : q[k].do \in Stops => Ahead(t, "start", q[k].node)
          <5>1. CASE q = <<>>
            <6>1. Len(q) = 0
              BY <5>1
            <6> QED
              BY <6>1
          <5>2. CASE Verb \in {"down", "halt"}
            <6>1. Ahead(t, "start", Node)
              BY <3>5, <3>7, <5>2 DEF Stops
            <6> QED
              BY <3>4, <3>8, <6>1
          <5> QED
            BY <3>4, <5>1, <5>2
        <4> QED
          BY <3>1, <3>2, <3>3, <4>1, <4>2, RestartedConcat
      <3>11. worker.kind = "deleteNode" => Confined(r, worker.node)
        <4> SUFFICES ASSUME worker.kind = "deleteNode" PROVE Confined(r, worker.node)
          OBVIOUS
        <4>1. Confined(t, worker.node) /\ Verb # "reboot" /\ (Verb \in {"down", "halt"} => Node = worker.node)
          BY <3>5, <3>7 DEF Stops
        <4>2. Confined(q, worker.node)
          <5>1. CASE q = <<>>
            <6>1. Len(q) = 0
              BY <5>1
            <6> QED
              BY <6>1 DEF Confined
          <5> QED
            BY <3>4, <4>1, <5>1
        <4> QED
          BY <3>1, <3>2, <3>3, <4>1, <4>2, ConfinedConcat
      <3> QED
        BY <3>1, <3>9, <3>10, <3>11 DEF Tidy, r
    <2> QED
      BY <2>2, <2>3, <2>4, WorksMove
  <1>4. CASE Crash
    BY <1>4, IdleIs DEF Crash, Busy
  <1>5. Call \/ Drift \/ UNCHANGED vars => UNCHANGED worker
    BY DEF Call, Handle, Drift, vars, state
  <1> QED
    BY <1>1, <1>2, <1>3, <1>4, <1>5 DEF Next

-----------------------------------------------------------------------------
(* While nothing fails, a cluster ends up in Sync and whole. *)

Creating  == \E k \in 1..Len(queue) : queue[k].kind = "create"
Adding(n) == \E k \in 1..Len(queue) : queue[k] = [kind |-> "add", node |-> n]

\* Nothing has gone wrong with the cluster in the record, and it was begun.
Due == ~failed /\ record # NoRecord /\ ~Creating

Doing(k)     == Busy /\ worker.kind = k
Coming(d, n) == Busy /\ Ahead(worker.todo, d, n)
Searching    == Busy /\ worker.todo # <<>> /\ Verb = "findPeers"

Runs(n) == vm[n].task = "start" \/ (vm[n].state = "running" /\ vm[n].task = "none")

\* It runs, or will do so.
Fine(n) == Settled(n) /\ (Runs(n) \/ Coming("start", n))

\* Why a node of the record is there
Expected(n) ==
    \/ n \in members \/ Adding(n)
    \/ Doing("add") /\ worker.node = n /\ (Searching \/ Coming("join", n))
    \/ Doing("deleteNode") /\ worker.node = n /\ ~Lacks(worker.todo, {"findNode", "findAgain", "drop"})

Standing ==
    /\ \A n \in ToSet(record) : Expected(n)
    /\ \A n \in members : n \in ToSet(record) /\ Fine(n)

\* No VM can be started there but that of the node.
Vacant(n) == vm[n] = NoVM \/ vm[n].owner = n \/ (vm[n].state = "running" /\ vm[n].task = "none")

\* A node that is being created
Rising(n) ==
    \/ Searching
    \/ /\ Coming("start", n) \/ (Settled(n) /\ Runs(n))
       /\ Coming("create", n) \/ Vacant(n)

\* What is to be stopped is there.
Upright == \A d \in Stops, n \in Nodes : Coming(d, n) => Settled(n)

First == Master(worker.copy, Foreign)

Forming ==
    /\ \A n \in ToSet(record) : n \in ToSet(worker.copy) \/ Adding(n)
    /\ \A n \in ToSet(worker.copy) : Rising(n)
    /\ Coming("ready", First) => \A n \in ToSet(worker.copy) \ {First} : Coming("join", n)
    /\ ~Coming("ready", First) =>
          /\ First \in members /\ members \subseteq ToSet(worker.copy)
          /\ \A n \in ToSet(worker.copy) : n \in members \/ Coming("join", n)

Leaving ==
    /\ worker.todo # <<>> /\ Lacks(worker.todo, {"findNode", "remove"}) => worker.node \notin members
    /\ ~Lacks(worker.todo, Ends) => worker.node \notin members
    /\ ~Lacks(worker.todo, {"remove"}) => ~Lacks(worker.todo, {"findAgain"})

WholeInv ==
    Due => /\ worker = Idle /\ queue = <<>> => status = "Sync"
           /\ worker = Idle \/ worker.kind \in {"add", "deleteNode", "change"} => Standing
           /\ Doing("create") => Forming /\ Upright
           /\ Doing("add") => Rising(worker.node) /\ Upright
           /\ Doing("deleteNode") => Leaving
           /\ Doing("delete") => ~Lacks(worker.todo, {"findAll", "erase"})

\* What the requests do when they succeed
LEMMA AnswerMore ==
    ASSUME NEW v \in VM \cup {NoVM}, NEW d \in Requests, NEW n, NEW a \in Answers(d, v, n), a.ok
    PROVE  /\ d = "create" => v = NoVM /\ a.vm = NewVM(n)
           /\ d \in {"resize", "config"} => a.vm = v
           /\ d = "start" => v # NoVM /\ v.state = "stopped" /\ a.vm = [v EXCEPT !.task = "start"]
           /\ d \in {"shutdown", "stop"} => a.vm = v \/ (v # NoVM /\ a.vm \in {[v EXCEPT !.task = "shutdown"], [v EXCEPT !.task = "stop"]})
  <1> USE DEF Done, Refused, Answer
  <1>1. CASE d = "create"
    BY <1>1 DEF Answers, CreateVM
  <1>2. CASE d \in {"resize", "config"}
    BY <1>2 DEF Answers, Configure, Accepted
  <1>3. CASE d = "start"
    BY <1>3 DEF Answers, StartVM, Task, AtRest, Usable
  <1>4. CASE d = "shutdown"
    <2>1. a \in ShutdownVM(v)
      BY <1>4 DEF Answers
    <2> QED
      <3>1. CASE Running(v)
        <4>1. a \in Task(v, "shutdown")
          BY <2>1, <3>1 DEF ShutdownVM
        <4>2. a.vm = [v EXCEPT !.task = "shutdown"] /\ v # NoVM
          BY <3>1, <4>1 DEF Task, Running
        <4> QED
          BY <1>4, <4>2
      <3>2. CASE ~Running(v)
        <4>1. a.vm = v
          BY <2>1, <3>2 DEF ShutdownVM, Configure, Accepted
        <4> QED
          BY <1>4, <4>1
      <3> QED
        BY <3>1, <3>2
  <1>5. CASE d = "stop"
    <2>1. a \in StopVM(v)
      BY <1>5 DEF Answers
    <2> QED
      <3>1. CASE Running(v)
        <4>1. a \in Task(v, "stop")
          BY <2>1, <3>1 DEF StopVM
        <4>2. a.vm = [v EXCEPT !.task = "stop"] /\ v # NoVM
          BY <3>1, <4>1 DEF Task, Running
        <4> QED
          BY <1>5, <4>2
      <3>2. CASE ~Running(v)
        <4>1. a.vm = v
          BY <2>1, <3>2 DEF StopVM, Configure, Accepted
        <4> QED
          BY <1>5, <4>1
      <3> QED
        BY <3>1, <3>2
  <1> QED
    BY <1>1, <1>2, <1>3, <1>4, <1>5

LEMMA WorkDoes ==
    ASSUME BaseInv, Works
    PROVE  /\ Busy /\ Busy' /\ worker.todo # <<>> /\ Node \in Nodes /\ Scope(worker, Head(worker.todo))
           /\ worker'.kind = worker.kind /\ worker'.node = worker.node /\ worker'.copy = worker.copy
           /\ UNCHANGED <<queue, failed>>
           /\ Verb \in Requests <=> Asks
           /\ Verb \in Finds <=> Looks
           /\ Verb \in {"join", "ready", "remove"} => Commands
           /\ Enters
           /\ Verb = "drop" => record' = Others(record, Node)
           /\ Verb = "erase" => record' = NoRecord
           /\ Verb \notin {"drop", "erase"} => UNCHANGED record
           /\ ~Asks /\ ~Commands => UNCHANGED vm
  <1>1. \E q : Moves(q)
    <2>1. Looks => \E q : Moves(q)
      BY DEF Looks
    <2> QED
      BY <2>1, WorksMove
  <1>2. /\ Busy /\ Busy' /\ worker.todo # <<>>
        /\ worker'.kind = worker.kind /\ worker'.node = worker.node /\ worker'.copy = worker.copy
    BY <1>1 DEF Moves
  <1>3. Node \in Nodes /\ Scope(worker, Head(worker.todo))
    BY <1>2, TailShape DEF BaseInv
  <1>4. UNCHANGED <<queue, failed>>
    BY DEF Works
  <1> DEFINE Goal ==
           /\ Verb \in Requests <=> Asks
           /\ Verb \in Finds <=> Looks
           /\ Verb \in {"join", "ready", "remove"} => Commands
           /\ Enters
           /\ Verb = "drop" => record' = Others(record, Node)
           /\ Verb = "erase" => record' = NoRecord
           /\ Verb \notin {"drop", "erase"} => UNCHANGED record
           /\ ~Asks /\ ~Commands => UNCHANGED vm
  <1>5. /\ Requests \cap Finds = {}
        /\ {"down", "halt", "reboot", "join", "ready", "remove", "drop", "erase"} \cap (Requests \cup Finds) = {}
    BY DEF Requests, Finds
  <1>6. (Asks => Verb \in Requests) /\ (Looks => Verb \in Finds)
    BY DEF Asks, Looks
  <1>7. ASSUME Passing PROVE Goal
    BY <1>5, <1>6, <1>7 DEF Passing, Kept, Enters
  <1>8. ASSUME Reboots PROVE Goal
    BY <1>5, <1>6, <1>8 DEF Reboots, Kept, Enters
  <1>9. ASSUME Insists PROVE Goal
    BY <1>5, <1>6, <1>9 DEF Insists, Kept, Enters
  <1>10. ASSUME Asks PROVE Goal
    <2>1. Verb \in Requests /\ UNCHANGED <<members, record>>
      BY <1>10 DEF Asks
    <2> QED
      BY <1>5, <1>6, <1>10, <2>1 DEF Enters
  <1>11. ASSUME Looks PROVE Goal
    <2>1. Verb \in Finds /\ UNCHANGED <<vm, members, record>>
      BY <1>11 DEF Looks
    <2> QED
      BY <1>5, <1>6, <1>11, <2>1 DEF Enters
  <1>12. ASSUME Commands /\ Enters PROVE Goal
    <2>1. Verb \notin Requests \cup Finds /\ UNCHANGED record /\ Verb \notin {"drop", "erase"}
      BY <1>12 DEF Commands, Requests, Finds
    <2> QED
      BY <1>6, <1>12, <2>1
  <1>13. ASSUME Drops PROVE Goal
    BY <1>5, <1>6, <1>13 DEF Drops, Enters
  <1>14. ASSUME Erases PROVE Goal
    BY <1>5, <1>6, <1>14 DEF Erases, Enters
  <1>15. Goal
    BY <1>7, <1>8, <1>9, <1>10, <1>11, <1>12, <1>13, <1>14 DEF Works
  <1> QED
    BY <1>2, <1>3, <1>4, <1>15

\* A search is all that is left of its program.
LEMMA LooksAlone ==
    ASSUME BaseInv, Busy, worker.todo # <<>>, Verb \in Finds
    PROVE  /\ \A d, n : Ahead(worker.todo, d, n) => d = Verb
           /\ \A ds : Lacks(worker.todo, ds) <=> Verb \notin ds
  <1>1. worker.todo \in Seq(Scoped(worker)) /\ Ordered(worker.todo) /\ worker.todo # <<>>
    BY TailShape DEF BaseInv
  <1>2. Tail(worker.todo) = <<>>
    BY <1>1, OrderedTail DEF Verb
  <1>3. (\A ds : Lacks(Tail(worker.todo), ds)) /\ \A d, n : ~Ahead(Tail(worker.todo), d, n)
    BY <1>2, NothingAhead
  <1>4. \A d, n : Ahead(worker.todo, d, n) => Head(worker.todo) = Instr(d, n)
    BY <1>1, <1>3, AheadTail
  <1>5. \A ds : Lacks(worker.todo, ds) <=> Verb \notin ds
    BY <1>1, <1>3, LacksTail DEF Verb
  <1>6. \A d, n : Head(worker.todo) = Instr(d, n) => d = Verb
    BY DEF Instr, Verb
  <1> QED
    BY <1>4, <1>5, <1>6

\* What is left of a program when the worker goes on
LEMMA WorkLeaves ==
    ASSUME BaseInv, Works, ~Looks
    PROVE  /\ Passes
           /\ \A d, n : Ahead(worker'.todo, d, n) =>
                 \/ Ahead(worker.todo, d, n)
                 \/ /\ d \in Again /\ n = Node
                    /\ d \in Stops => (Verb = "reboot" /\ Reachable(Node)) \/ Verb \in {"down", "halt"}
           /\ \A n : Ahead(Tail(worker.todo), "start", n) => Ahead(worker'.todo, "start", n)
           /\ Ahead(worker.todo, Verb, Node)
  <1>1. PICK q : Moves(q) /\ Inserted(q)
    BY WorksMove
  <1> DEFINE p == worker.todo
             t == Tail(worker.todo)
  <1>2. Busy /\ p # <<>> /\ worker'.todo = q \o t
    BY <1>1 DEF Moves
  <1>3. p \in Seq(Scoped(worker)) /\ t \in Seq(Scoped(worker)) /\ Node \in Nodes
    BY <1>2, TailShape DEF BaseInv
  <1>4. /\ q \in Seq(About(Again, {Node}))
        /\ \A d \in Stops : \A n : Ahead(q, d, n) =>
              (Verb = "reboot" /\ Reachable(Node)) \/ Verb \in {"down", "halt"}
    BY <1>1, <1>3, InsertedIs
  <1>5. Passes
    BY <1>1, <1>4, MovesPasses
  <1>6. q \in Seq(Scoped(worker))
    BY <1>3, <1>4, AgainIs
  <1>7. \A d, n : Ahead(p, d, n) <=> Head(p) = Instr(d, n) \/ Ahead(t, d, n)
    BY <1>2, <1>3, AheadTail
  <1>8. \A d, n : Ahead(q \o t, d, n) <=> Ahead(q, d, n) \/ Ahead(t, d, n)
    <2> HIDE DEF t
    <2> QED
      BY <1>3, <1>6, AheadConcat
  <1>9. \A d, n : Ahead(q, d, n) => d \in Again /\ n = Node
    <2>0. \A k \in 1..Len(q) : q[k] \in About(Again, {Node})
      BY <1>4
    <2>1. \A k \in 1..Len(q) : q[k].do \in Again /\ q[k].node = Node
      BY <2>0 DEF About
    <2> QED
      BY <2>1 DEF Ahead, Instr
  <1>10. Head(p) = Instr(Verb, Node)
    <2>1. Head(p) \in Instruction
      BY <1>2, <1>3, TailIs DEF Scoped
    <2> QED
      BY <2>1 DEF Instruction, Instr, Verb, Node
  <1> HIDE DEF p, t
  <1>11. \A d, n : Ahead(q \o t, d, n) =>
                 \/ Ahead(p, d, n)
                 \/ /\ d \in Again /\ n = Node
                    /\ d \in Stops => (Verb = "reboot" /\ Reachable(Node)) \/ Verb \in {"down", "halt"}
    BY <1>4, <1>7, <1>8, <1>9
  <1>12. \A n : Ahead(t, "start", n) => Ahead(q \o t, "start", n)
    BY <1>8
  <1>13. Ahead(p, Verb, Node)
    BY <1>7, <1>10
  <1> QED
    BY <1>2, <1>5, <1>11, <1>12, <1>13 DEF p, t

\* How the instruction at hand stands to the rest
LEMMA HeadTidy ==
    ASSUME BaseInv, TidyInv, Busy, worker.todo # <<>>
    PROVE  /\ worker.kind \notin {"delete", "deleteNode"} /\ Verb \in Stops =>
                  Ahead(Tail(worker.todo), "start", Node)
           /\ Verb \in {"start", "reboot"} => \A n : ~Ahead(worker.todo, "create", n)
           /\ Verb = "join" => \A n : ~Ahead(worker.todo, "ready", n)
           /\ worker.kind = "deleteNode" =>
                 Verb \notin {"start", "reboot"} /\ (Verb \in Stops => Node = worker.node)
  <1> DEFINE p == worker.todo
             t == Tail(worker.todo)
  <1>1. Tidy(worker)
    BY DEF TidyInv
  <1>2. p \in Seq(Scoped(worker)) /\ p # <<>>
    BY TailShape DEF BaseInv
  <1>3. /\ Restarted(p) => (Head(p).do \in Stops => Ahead(t, "start", Head(p).node))
        /\ Orderly(p) => /\ Head(p).do \in {"start", "reboot"} => Lacks(t, {"create"})
                         /\ Head(p).do = "join" => Lacks(t, {"ready"})
        /\ \A n : Confined(p, n) => /\ Head(p).do \notin {"start", "reboot"}
                                    /\ Head(p).do \in Stops => Head(p).node = n
    BY <1>2, TidyTail
  <1>4. \A d, n : Ahead(p, d, n) <=> Head(p) = Instr(d, n) \/ Ahead(t, d, n)
    BY <1>2, AheadTail
  <1>5. \A d, n : Ahead(t, d, n) => ~Lacks(t, {d})
    BY DEF Ahead, Lacks, Instr
  <1> HIDE DEF t
  <1>6. \A d, n : Head(p) = Instr(d, n) => Verb = d
    BY DEF Instr, Verb
  <1>7. Verb \in {"start", "reboot"} => \A n : ~Ahead(p, "create", n)
    BY <1>1, <1>3, <1>4, <1>5, <1>6 DEF Tidy, Verb
  <1>8. Verb = "join" => \A n : ~Ahead(p, "ready", n)
    BY <1>1, <1>3, <1>4, <1>5, <1>6 DEF Tidy, Verb
  <1>9. worker.kind \notin {"delete", "deleteNode"} /\ Verb \in Stops => Ahead(t, "start", Node)
    BY <1>1, <1>3 DEF Tidy, Verb, Node
  <1>10. worker.kind = "deleteNode" =>
                 Verb \notin {"start", "reboot"} /\ (Verb \in Stops => Node = worker.node)
    BY <1>1, <1>3 DEF Tidy, Verb, Node
  <1> QED
    BY <1>7, <1>8, <1>9, <1>10 DEF t

\* A VM that runs goes on running, or is started again.
LEMMA RunsNext ==
    ASSUME BaseInv, BaseInv', TidyInv, [Next]_vars, Works, NEW n \in Nodes, Settled(n), Runs(n),
           ~(Node = n /\ Verb = "delete"),
           ~(Node = n /\ Verb \in Stops /\ worker.kind \in {"delete", "deleteNode"})
    PROVE  Settled(n)' /\ (Runs(n)' \/ Coming("start", n)')
  <1> DEFINE v == vm[n]
             w == vm'[n]
  <1>1. Busy /\ Busy' /\ worker.todo # <<>> /\ Node \in Nodes /\ (Verb \in Requests <=> Asks)
        /\ (~Asks /\ ~Commands => UNCHANGED vm)
    BY WorkDoes
  <1>2. Settled(n)'
    BY <1>1, SettledNext
  <1>3. v # NoVM /\ v \in VM /\ vm \in [Nodes -> VM \cup {NoVM}] /\ (v.task = "start" \/ (v.state = "running" /\ v.task = "none"))
    BY DEF Settled, Own, Runs, BaseInv, TypeInv
  <1>4. w = v => Runs(n)'
    BY <1>3 DEF Runs
  <1>5. CASE Asks /\ Node = n
    <2>1. PICK a \in Answers(Verb, v, n) : vm' = [vm EXCEPT ![n] = a.vm] /\ a.ok
      BY <1>5 DEF Asks, Works
    <2>2. w = a.vm
      BY <1>3, <2>1
    <2> HIDE DEF v, w
    <2>3. Verb \in Requests /\ v \in VM \cup {NoVM}
      BY <1>1, <1>3, <1>5
    <2>4. /\ Verb = "create" => v = NoVM
          /\ Verb \in {"resize", "config"} => w = v
          /\ Verb = "start" => w = [v EXCEPT !.task = "start"]
      BY <2>1, <2>2, <2>3, AnswerMore
    <2>5. CASE Verb = "start"
      <3>1. w.task = "start"
        BY <1>3, <2>4, <2>5 DEF VM
      <3> QED
        BY <1>2, <3>1 DEF Runs, w
    <2>6. CASE Verb \in {"shutdown", "stop"}
      <3>1. worker.kind \notin {"delete", "deleteNode"} /\ Verb \in Stops
        BY <1>5, <2>6 DEF Stops
      <3>2. Ahead(Tail(worker.todo), "start", Node)
        BY <1>1, <3>1, HeadTidy
      <3>3. ~Looks
        BY <2>6 DEF Looks, Finds
      <3>4. Ahead(worker'.todo, "start", n)
        BY <1>5, <3>2, <3>3, WorkLeaves
      <3> QED
        BY <1>1, <1>2, <3>4 DEF Coming
    <2> QED
      BY <1>2, <1>3, <1>4, <1>5, <2>3, <2>4, <2>5, <2>6 DEF Requests
  <1>6. CASE Commands /\ Node = n
    <2>1. PICK u \in VM : vm' = [vm EXCEPT ![n] = u] /\ u.state = "running" /\ u.task = v.task
      BY <1>6 DEF Commands
    <2>2. w = u
      BY <1>3, <2>1
    <2>3. w.task = "start" \/ (w.state = "running" /\ w.task = "none")
      BY <1>3, <2>1, <2>2
    <2> QED
      BY <1>2, <2>3 DEF Runs
  <1>7. (Asks \/ Commands) /\ Node # n => w = v
    BY <1>1, <1>3 DEF Asks, Commands
  <1> QED
    BY <1>1, <1>2, <1>4, <1>5, <1>6, <1>7

\* A VM is started when its turn comes.
LEMMA StartNext ==
    ASSUME BaseInv, BaseInv', TidyInv, [Next]_vars, Works, NEW n \in Nodes, Coming("start", n),
           Coming("create", n) \/ Vacant(n)
    PROVE  Coming("start", n)' \/ (Settled(n)' /\ Runs(n)')
  <1>1. Busy /\ Busy' /\ worker.todo # <<>> /\ Node \in Nodes /\ (Verb \in Requests <=> Asks)
        /\ (Verb \in Finds <=> Looks)
    BY WorkDoes
  <1>2. Ahead(worker.todo, "start", n)
    BY DEF Coming
  <1>3. ~Looks
    <2>1. "start" \notin Finds
      BY DEF Finds
    <2> QED
      BY <1>1, <1>2, <2>1, LooksAlone
  <1>4. CASE ~(Verb = "start" /\ Node = n)
    <2>1. Ahead(worker'.todo, "start", n)
      BY <1>2, <1>3, <1>4, WorkLeaves DEF Passes
    <2> QED
      BY <1>1, <2>1 DEF Coming
  <1>5. CASE Verb = "start" /\ Node = n
    <2> DEFINE v == vm[n]
               w == vm'[n]
    <2>1. Asks
      BY <1>1, <1>5 DEF Requests
    <2>2. v \in VM \cup {NoVM} /\ vm \in [Nodes -> VM \cup {NoVM}]
          /\ (v # NoVM => v \in VM) /\ (w # NoVM => w \in VM)
      BY DEF BaseInv, TypeInv
    <2>3. PICK a \in Answers(Verb, v, n) : vm' = [vm EXCEPT ![n] = a.vm] /\ a.ok
      BY <1>5, <2>1 DEF Asks, Works
    <2>4. w = a.vm
      BY <2>2, <2>3
    <2>5. ~Coming("create", n)
      BY <1>1, <1>5, HeadTidy DEF Coming
    <2>6. v = NoVM \/ v.owner = n \/ (v.state = "running" /\ v.task = "none")
      BY <2>5 DEF Vacant
    <2> HIDE DEF v, w
    <2>7. v # NoVM /\ v.state = "stopped" /\ w = [v EXCEPT !.task = "start"]
      BY <1>5, <2>2, <2>3, <2>4, AnswerMore DEF Requests
    <2>8. w.owner = n /\ w.state = "stopped" /\ w.task = "start" /\ w # NoVM
      BY <2>2, <2>6, <2>7 DEF VM, NoVM
    <2> QED
      BY <2>8 DEF Settled, Own, Runs, w
  <1> QED
    BY <1>4, <1>5

LEMMA FineNext ==
    ASSUME BaseInv, BaseInv', TidyInv, [Next]_vars, Works, NEW n \in Nodes, Fine(n),
           ~(Node = n /\ Verb = "delete"),
           ~(Node = n /\ Verb \in Stops /\ worker.kind \in {"delete", "deleteNode"})
    PROVE  Fine(n)'
  <1>1. Settled(n)'
    BY SettledNext DEF Fine
  <1>2. CASE Runs(n)
    BY <1>2, RunsNext DEF Fine
  <1>3. CASE Coming("start", n)
    <2>1. Vacant(n)
      BY DEF Fine, Settled, Own, Vacant
    <2> QED
      BY <1>1, <1>3, <2>1, StartNext DEF Fine
  <1> QED
    BY <1>2, <1>3 DEF Fine

\* The programs that create VMs
LEMMA RisingVerbs ==
    ASSUME BaseInv, Works, worker.kind \in {"create", "add"}
    PROVE  /\ Verb # "delete" /\ (Looks => Searching /\ Node = worker.node /\ worker.kind = "add")
           /\ Verb \notin {"drop", "remove", "erase"}
           /\ Verb \in {"join", "ready"} => Node \in ToSet(worker.copy)
           /\ Verb = "join" /\ worker.kind = "add" => Node = worker.node
  <1>1. Busy /\ worker.todo # <<>> /\ Scope(worker, Head(worker.todo)) /\ (Verb \in Finds <=> Looks)
    BY WorkDoes
  <1> QED
    BY <1>1 DEF Scope, Verb, Node, Finds, Searching

LEMMA VacantNext ==
    ASSUME BaseInv, BaseInv', TidyInv, Works, worker.kind \in {"create", "add"}, Upright,
           NEW n \in Nodes, Vacant(n)
    PROVE  Vacant(n)'
  <1> DEFINE v == vm[n]
             w == vm'[n]
  <1>1. Busy /\ worker.todo # <<>> /\ Node \in Nodes /\ (Verb \in Requests <=> Asks)
        /\ (~Asks /\ ~Commands => UNCHANGED vm)
    BY WorkDoes
  <1>2. v \in VM \cup {NoVM} /\ vm \in [Nodes -> VM \cup {NoVM}] /\ (v # NoVM => v \in VM)
        /\ (w # NoVM => w \in VM)
    BY DEF BaseInv, TypeInv
  <1>3. w = v => Vacant(n)'
    BY DEF Vacant
  <1>4. v = NoVM \/ v.owner = n \/ (v.state = "running" /\ v.task = "none")
    BY DEF Vacant
  <1>5. w.owner = n => Vacant(n)'
    BY DEF Vacant
  <1>6. CASE Asks /\ Node = n
    <2>1. PICK a \in Answers(Verb, v, n) : vm' = [vm EXCEPT ![n] = a.vm] /\ a.ok
      BY <1>6 DEF Asks, Works
    <2>2. w = a.vm
      BY <1>2, <2>1
    <2>3. Verb \in {"shutdown", "stop"} => v # NoVM /\ v.owner = n
      <3> SUFFICES ASSUME Verb \in {"shutdown", "stop"} PROVE v # NoVM /\ v.owner = n
        OBVIOUS
      <3>1. ~Looks /\ Verb \in Stops
        BY DEF Looks, Finds, Stops
      <3>2. Ahead(worker.todo, Verb, n)
        BY <1>6, <3>1, WorkLeaves
      <3> QED
        BY <1>1, <3>1, <3>2 DEF Upright, Coming, Settled, Own
    <2> HIDE DEF v, w
    <2>a. Verb \in Requests /\ v \in VM \cup {NoVM} /\ a \in Answers(Verb, v, n) /\ a.ok
      BY <1>1, <1>2, <1>6, <2>1
    <2>b. /\ Verb = "create" => a.vm = NewVM(n)
          /\ Verb \in {"resize", "config"} => a.vm = v
          /\ Verb = "start" => v # NoVM /\ v.state = "stopped" /\ a.vm = [v EXCEPT !.task = "start"]
          /\ Verb \in {"shutdown", "stop"} => a.vm = v \/ (v # NoVM /\ a.vm \in {[v EXCEPT !.task = "shutdown"], [v EXCEPT !.task = "stop"]})
      <3>1. \A d \in Requests : \A u \in VM \cup {NoVM} : \A x \in Answers(d, u, n) :
                x.ok => /\ d = "create" => x.vm = NewVM(n)
                        /\ d \in {"resize", "config"} => x.vm = u
                        /\ d = "start" => u # NoVM /\ u.state = "stopped" /\ x.vm = [u EXCEPT !.task = "start"]
                        /\ d \in {"shutdown", "stop"} => x.vm = u \/ (u # NoVM /\ x.vm \in {[u EXCEPT !.task = "shutdown"], [u EXCEPT !.task = "stop"]})
        BY AnswerMore
      <3> QED
        BY <2>a, <3>1
    <2>4. /\ Verb = "create" => w = NewVM(n)
          /\ Verb \in {"resize", "config"} => w = v
          /\ Verb = "start" => v # NoVM /\ v.state = "stopped" /\ w = [v EXCEPT !.task = "start"]
          /\ Verb \in {"shutdown", "stop"} => w = v \/ (v # NoVM /\ w \in {[v EXCEPT !.task = "shutdown"], [v EXCEPT !.task = "stop"]})
      BY <2>2, <2>b
    <2>5. \A t : v # NoVM => [v EXCEPT !.task = t].owner = v.owner
      BY <1>2 DEF VM
    <2>6. Verb \in Requests /\ Verb # "delete"
      BY <1>1, <1>6, RisingVerbs
    <2>7. CASE Verb = "create"
      <3>1. w.owner = n
        BY <2>4, <2>7 DEF NewVM
      <3> QED
        BY <1>5, <3>1
    <2>8. CASE Verb = "start"
      <3>1. w.owner = n
        BY <1>4, <2>4, <2>5, <2>8
      <3> QED
        BY <1>5, <3>1
    <2>9. CASE Verb \in {"shutdown", "stop"}
      <3>1. w = v \/ w.owner = n
        BY <2>3, <2>4, <2>5, <2>9
      <3> QED
        BY <1>3, <1>5, <3>1
    <2> QED
      BY <1>3, <2>4, <2>6, <2>7, <2>8, <2>9 DEF Requests
  <1>7. CASE Commands /\ Node = n
    <2>1. PICK u \in VM : vm' = [vm EXCEPT ![n] = u] /\ u.owner = n
      BY <1>7 DEF Commands
    <2>2. w.owner = n
      BY <1>2, <2>1
    <2> QED
      BY <1>5, <2>2
  <1>8. (Asks \/ Commands) /\ Node # n => w = v
    BY <1>1, <1>2 DEF Asks, Commands
  <1> QED
    BY <1>1, <1>3, <1>6, <1>7, <1>8

\* A node that is being created stays one until it runs.
LEMMA RisingNext ==
    ASSUME BaseInv, BaseInv', TidyInv, [Next]_vars, Works, worker.kind \in {"create", "add"}, Upright,
           NEW n \in Nodes, Rising(n), worker.kind = "add" => n = worker.node
    PROVE  Rising(n)'
  <1>1. Busy /\ Busy' /\ worker.todo # <<>> /\ Node \in Nodes /\ (Verb \in Requests <=> Asks)
        /\ (Verb \in Finds <=> Looks)
    BY WorkDoes
  <1>2. CASE Looks
    <2>1. Verb = "findPeers" /\ n = Node
      BY <1>2, RisingVerbs DEF Searching
    <2>2. worker'.todo = Then(Verb, Node)
      BY <1>2 DEF Looks
    <2> DEFINE p == worker'.todo
    <2>3. Ahead(p, "create", n) /\ Ahead(p, "start", n)
      <3>1. Verb \in Finds
        BY <1>1, <1>2
      <3>2. Ahead(Then(Verb, Node), "create", Node) /\ Ahead(Then(Verb, Node), "start", Node)
        BY <1>1, <2>1, <3>1, ThenOrder
      <3> QED
        BY <2>1, <2>2, <3>2
    <2> HIDE DEF p
    <2>4. Coming("create", n)' /\ Coming("start", n)'
      BY <1>1, <2>3 DEF Coming, p
    <2> QED
      BY <2>4 DEF Rising
  <1>3. CASE ~Looks
    <2>1. ~Searching
      BY <1>1, <1>3 DEF Searching, Finds
    <2>2. (Coming("start", n) \/ (Settled(n) /\ Runs(n))) /\ (Coming("create", n) \/ Vacant(n))
      BY <2>1 DEF Rising
    <2>3. Verb # "delete"
      BY RisingVerbs
    <2>4. Coming("start", n)' \/ (Settled(n)' /\ Runs(n)')
      <3>1. CASE Coming("start", n)
        BY <2>2, <3>1, StartNext
      <3>2. CASE Settled(n) /\ Runs(n)
        BY <2>3, <3>2, RunsNext
      <3> QED
        BY <2>2, <3>1, <3>2
    <2>5. Coming("create", n)' \/ Vacant(n)'
      <3>1. CASE Vacant(n)
        BY <3>1, VacantNext
      <3>2. CASE Coming("create", n) /\ ~(Verb = "create" /\ Node = n)
        <4>1. Ahead(worker'.todo, "create", n)
          BY <1>3, <3>2, WorkLeaves DEF Passes, Coming
        <4> QED
          BY <1>1, <4>1 DEF Coming
      <3>3. CASE Verb = "create" /\ Node = n
        <4>1. Asks
          BY <1>1, <3>3 DEF Requests
        <4>2. vm[n] \in VM \cup {NoVM} /\ vm \in [Nodes -> VM \cup {NoVM}]
          BY DEF BaseInv, TypeInv
        <4>3. PICK a \in Answers(Verb, vm[n], n) : vm' = [vm EXCEPT ![n] = a.vm] /\ a.ok
          BY <3>3, <4>1 DEF Asks, Works
        <4>a. Verb \in Requests /\ vm[n] \in VM \cup {NoVM} /\ a \in Answers(Verb, vm[n], n) /\ a.ok
          BY <1>1, <4>1, <4>2, <4>3
        <4>b. Verb = "create" => a.vm = NewVM(n)
          <5>1. a \in CreateVM(vm[n], n)
            BY <3>3, <4>a DEF Answers
          <5> QED
            BY <4>a, <5>1 DEF CreateVM, Done, Refused, Answer
        <4>4. a.vm = NewVM(n)
          BY <3>3, <4>b
        <4>5. vm'[n].owner = n
          BY <4>2, <4>3, <4>4 DEF NewVM
        <4> QED
          BY <4>5 DEF Vacant
      <3> QED
        BY <2>2, <3>1, <3>2, <3>3
    <2> QED
      BY <2>4, <2>5 DEF Rising
  <1> QED
    BY <1>2, <1>3

LEMMA UprightNext ==
    ASSUME BaseInv, BaseInv', TidyInv, [Next]_vars, Works, worker.kind \in {"create", "add"}, Upright
    PROVE  Upright'
  <1>1. Busy /\ Busy' /\ worker.todo # <<>> /\ Node \in Nodes /\ (Verb \in Finds <=> Looks)
    BY WorkDoes
  <1> SUFFICES ASSUME NEW d \in Stops, NEW n \in Nodes, Ahead(worker'.todo, d, n)
               PROVE  Settled(n)'
    BY DEF Upright, Coming
  <1>2. ~Looks
    <2> SUFFICES ASSUME Looks PROVE FALSE
      OBVIOUS
    <2>1. Verb = "findPeers"
      BY RisingVerbs DEF Searching
    <2>2. worker'.todo = Then(Verb, Node)
      BY DEF Looks
    <2>3. Lacks(Then(Verb, Node), Stops)
      BY <1>1, <2>1, ThenOrder DEF Finds
    <2>4. Lacks(worker'.todo, Stops)
      BY <2>2, <2>3
    <2> QED
      BY <2>4 DEF Lacks, Ahead, Instr
  <1>3. \/ Ahead(worker.todo, d, n)
        \/ /\ n = Node
           /\ (Verb = "reboot" /\ Reachable(Node)) \/ Verb \in {"down", "halt"}
    BY <1>2, WorkLeaves
  <1>4. Settled(n)
    <2>1. CASE Ahead(worker.todo, d, n)
      BY <1>1, <2>1 DEF Upright, Coming
    <2>2. CASE n = Node /\ Verb \in {"down", "halt"}
      <3>1. Ahead(worker.todo, Verb, Node) /\ Verb \in Stops
        BY <1>2, <2>2, WorkLeaves DEF Stops
      <3> QED
        BY <1>1, <2>2, <3>1 DEF Upright, Coming
    <2>3. CASE n = Node /\ Reachable(Node)
      BY <2>3 DEF Reachable, Running, Settled, Own, BaseInv, VmInv
    <2> QED
      BY <1>3, <2>1, <2>2, <2>3
  <1>5. Verb # "delete"
    BY RisingVerbs
  <1> QED
    BY <1>4, <1>5, SettledNext

LEMMA NotLacking ==
    ASSUME NEW p, NEW d, NEW n, Ahead(p, d, n), NEW ds, d \in ds
    PROVE  ~Lacks(p, ds)
  BY DEF Ahead, Lacks, Instr

LEMMA LacksLess ==
    ASSUME NEW p, NEW ds, NEW es, ds \subseteq es, Lacks(p, es)
    PROVE  Lacks(p, ds)
  BY DEF Lacks

\* While nodes are added, deleted or changed, the members run and are those of the record.
LEMMA StandingNext ==
    ASSUME BaseInv, BaseInv', TidyInv, [Next]_vars, Works, record # NoRecord,
           worker.kind \in {"add", "deleteNode", "change"}, Standing,
           worker.kind = "add" => Rising(worker.node),
           worker.kind = "deleteNode" => Leaving
    PROVE  Standing'
  <1> DEFINE S == {"findNode", "findAgain", "drop"}
             m == worker.node
  <1>1. /\ Busy /\ Busy' /\ worker.todo # <<>> /\ Node \in Nodes /\ Scope(worker, Head(worker.todo))
        /\ worker'.kind = worker.kind /\ worker'.node = m /\ worker'.copy = worker.copy
        /\ UNCHANGED queue
        /\ Verb \in Finds <=> Looks
        /\ Verb \in {"join", "ready", "remove"} => Commands
        /\ Enters
        /\ Verb = "drop" => record' = Others(record, Node)
        /\ Verb \notin {"drop", "erase"} => UNCHANGED record
    BY WorkDoes
  <1>2. /\ Verb \in {"join", "setHosts", "ready"} => worker.kind = "add"
        /\ Verb = "join" => Node = m
        /\ Verb \in S \cup {"remove", "findRest"} => worker.kind = "deleteNode"
        /\ Verb \in S => Node = m
        /\ Verb = "delete" => worker.kind = "deleteNode" /\ Node = m
        /\ Verb = "findPeers" => worker.kind = "add" /\ Node = m
        /\ Verb \notin {"erase", "findAll"}
    BY <1>1 DEF Scope, Verb, Node
  <1>3. members \subseteq Nodes /\ record \in Seq(Nodes) /\ m \in Nodes
    BY <1>1 DEF BaseInv, TypeInv, Busy, Workers
  <1>4. \/ members' = members /\ Verb \notin {"join", "remove"}
        \/ Verb = "join" /\ worker.kind = "add" /\ Node = m /\ members' = members \cup {m}
        \/ Verb = "remove" /\ worker.kind = "deleteNode" /\ members' = members \ {m}
    BY <1>1, <1>2 DEF Enters
  <1>5. ASSUME worker.kind = "deleteNode", Verb \in Ends
        PROVE  m \notin members
    <2>1. ~Looks
      BY <1>1, <1>5 DEF Ends, Finds
    <2>2. Ahead(worker.todo, Verb, Node)
      BY <2>1, WorkLeaves
    <2>3. ~Lacks(worker.todo, Ends)
      BY <1>5, <2>2, NotLacking
    <2> QED
      BY <1>5, <2>3 DEF Leaving
  <1>6. ASSUME NEW n \in members PROVE Fine(n)'
    <2>1. Fine(n) /\ n \in Nodes
      BY <1>3, <1>6 DEF Standing
    <2>2. ~(Node = n /\ Verb = "delete")
      BY <1>2, <1>5, <1>6 DEF Ends
    <2>3. ~(Node = n /\ Verb \in Stops /\ worker.kind \in {"delete", "deleteNode"})
      <3> SUFFICES ASSUME Node = n, Verb \in Stops, worker.kind = "deleteNode" PROVE FALSE
        OBVIOUS
      <3>1. Node = m
        BY <1>1, HeadTidy
      <3> QED
        BY <1>5, <1>6, <3>1 DEF Stops, Ends
    <2> QED
      BY <2>1, <2>2, <2>3, FineNext
  <1>7. /\ Verb # "drop" => record' = record
        /\ Verb = "drop" => ToSet(record') = ToSet(record) \ {m}
    <2>1. CASE Verb = "drop"
      <3>1. Node = m /\ record' = Others(record, m)
        BY <1>1, <1>2, <2>1
      <3>2. ToSet(Others(record, m)) = ToSet(record) \ {m}
        BY <1>3, OthersAre
      <3> QED
        BY <2>1, <3>1, <3>2
    <2>2. CASE Verb # "drop"
      BY <1>1, <1>2, <2>2
    <2> QED
      BY <2>1, <2>2
  <1>8. ASSUME NEW n \in members' PROVE n \in ToSet(record') /\ Fine(n)'
    <2>1. CASE n \in members
      <3>1. n \in ToSet(record)
        BY <2>1 DEF Standing
      <3>2. Verb = "drop" => n # m
        BY <1>2, <1>5, <2>1 DEF Ends
      <3> QED
        BY <1>6, <1>7, <2>1, <3>1, <3>2
    <2>2. CASE n \notin members
      <3>1. Verb = "join" /\ worker.kind = "add" /\ n = m /\ Node = m /\ Commands
        BY <1>1, <1>4, <1>8, <2>2
      <3>2. Settled(n)
        BY <3>1, ReachableSettled
      <3>3. Fine(n)
        BY <3>1, <3>2 DEF Rising, Searching, Fine
      <3>4. Fine(n)'
        BY <1>3, <3>1, <3>3, FineNext DEF Stops
      <3>5. n \in ToSet(worker.copy)
        BY <1>1, <3>1 DEF Scope, Verb, Node
      <3>6. n \in ToSet(record)
        BY <1>1, <3>1, <3>5 DEF BaseInv, RecordInv
      <3> QED
        BY <1>7, <3>1, <3>4, <3>6
    <2> QED
      BY <2>1, <2>2
  <1>9. ASSUME NEW n \in ToSet(record') PROVE Expected(n)'
    <2>1. Expected(n)
      BY <1>7, <1>9 DEF Standing
    <2>2. CASE n \in members
      <3>1. CASE n \in members'
        BY <3>1 DEF Expected
      <3>2. CASE n \notin members'
        <4>1. Verb = "remove" /\ n = m /\ worker.kind = "deleteNode"
          BY <1>4, <2>2, <3>2
        <4>2. ~Looks
          BY <1>1, <4>1 DEF Finds
        <4>3. Ahead(worker.todo, "remove", Node)
          BY <4>1, <4>2, WorkLeaves
        <4>4. ~Lacks(worker.todo, {"remove"})
          BY <4>3, NotLacking
        <4>5. ~Lacks(worker.todo, {"findAgain"})
          BY <4>1, <4>4 DEF Leaving
        <4>6. {"findAgain"} \cap Again = {}
          BY DEF Again
        <4>7. ~Lacks(worker'.todo, {"findAgain"})
          BY <4>1, <4>2, <4>5, <4>6, WorkLeaves DEF Passes
        <4>8. ~Lacks(worker'.todo, S)
          BY <4>7, LacksLess
        <4> QED
          BY <1>1, <4>1, <4>8 DEF Expected, Doing
      <3> QED
        BY <3>1, <3>2
    <2>3. CASE Adding(n)
      BY <1>1, <2>3 DEF Expected, Adding
    <2>4. CASE Doing("add") /\ m = n /\ Searching
      <3>1. Verb = "findPeers" /\ Verb \in Finds /\ Node = n
        BY <1>2, <2>4 DEF Searching, Finds
      <3>2. Ahead(Then(Verb, Node), "join", Node)
        BY <1>1, <3>1, ThenOrder
      <3>3. worker'.todo = Then(Verb, Node)
        BY <1>1, <3>1 DEF Looks
      <3>4. Ahead(worker'.todo, "join", n)
        BY <3>1, <3>2, <3>3
      <3> QED
        BY <1>1, <2>4, <3>4 DEF Expected, Doing, Coming
    <2>5. CASE Doing("add") /\ m = n /\ Coming("join", n)
      <3>1. ~Looks
        <4>1. Ahead(worker.todo, "join", n) /\ "join" \notin Finds
          BY <2>5 DEF Coming, Finds
        <4> QED
          BY <1>1, <4>1, LooksAlone
      <3>2. Ahead(worker'.todo, "join", n) \/ (Verb = "join" /\ Node = n)
        BY <2>5, <3>1, WorkLeaves DEF Passes, Coming
      <3>3. CASE Ahead(worker'.todo, "join", n)
        BY <1>1, <2>5, <3>3 DEF Expected, Doing, Coming
      <3>4. CASE Verb = "join" /\ Node = n
        <4>1. n \in members'
          BY <1>4, <2>5, <3>4
        <4> QED
          BY <4>1 DEF Expected
      <3> QED
        BY <3>2, <3>3, <3>4
    <2>6. CASE Doing("deleteNode") /\ m = n /\ ~Lacks(worker.todo, S)
      <3>0. worker.kind = "deleteNode"
        BY <2>6 DEF Doing
      <3>1. ~Lacks(worker'.todo, S)
        <4>1. CASE Looks
          <5>1. Verb \in {"findNode", "findAgain"}
            BY <1>1, <2>6, <4>1, LooksAlone DEF Finds
          <5> DEFINE p == Then(Verb, Node)
          <5>2. ~Lacks(p, {"findAgain"}) \/ ~Lacks(p, {"drop"})
            BY <1>1, <4>1, <5>1, ThenOrder
          <5>3. worker'.todo = p
            BY <4>1 DEF Looks
          <5> HIDE DEF p
          <5>4. ~Lacks(p, S)
            BY <5>2, LacksLess
          <5> QED
            BY <5>3, <5>4
        <4>2. CASE ~Looks
          <5>1. S \cap Again = {}
            BY DEF Again
          <5>2. Lacks(worker.todo, S) <=> Verb \notin S /\ Lacks(worker'.todo, S)
            <6> HIDE DEF S
            <6> QED
              BY <4>2, <5>1, WorkLeaves DEF Passes
          <5>3. Verb \in S => Verb = "drop"
            BY <1>1, <4>2 DEF Finds
          <5>4. Verb # "drop"
            BY <1>7, <1>9, <2>6
          <5> QED
            BY <2>6, <5>2, <5>3, <5>4
        <4> QED
          BY <4>1, <4>2
      <3> QED
        BY <1>1, <2>6, <3>0, <3>1 DEF Expected, Doing
    <2> QED
      BY <2>1, <2>2, <2>3, <2>4, <2>5, <2>6 DEF Expected
  <1> QED
    BY <1>8, <1>9 DEF Standing

\* The node that is being deleted leaves first, and its name after its VM.
LEMMA ThenLeaves ==
    ASSUME BaseInv, Busy, worker.todo # <<>>, record # NoRecord,
           \/ Verb = "findNode" /\ ~ExistsVm(Node)
           \/ Verb \in {"findAgain", "findRest"}
    PROVE  Lacks(Then(Verb, Node), {"remove"})
  <1>1. Node \in Nodes /\ record \in Seq(Nodes)
    BY TailShape DEF BaseInv, TypeInv
  <1> DEFINE E == {"drop", "findRest"}
             D == {"shutdown", "down", "delete"}
             R == {"remove"}
  <1>2. E \cap R = {} /\ D \cap R = {} /\ {"unhost"} \cap R = {} /\ D \subseteq D \cup E /\ E \subseteq D \cup E
    OBVIOUS
  <1>3. ForgetNode(Node) \in Seq(About(E, {Node}))
    BY <1>1, ForgetOrder
  <1>4. Lacks(ForgetNode(Node), R)
    <2> HIDE DEF E, R
    <2> QED
      BY <1>2, <1>3, LacksOthers
  <1>5. CASE Verb = "findNode"
    <2>1. Then(Verb, Node) = ForgetNode(Node)
      BY <1>5 DEF Then
    <2> QED
      BY <1>4, <2>1
  <1>6. CASE Verb = "findAgain"
    <2> DEFINE ns == IF ExistsVm(Node) THEN <<Node>> ELSE <<>>
               a  == DeleteVm(ns)
               b  == ForgetNode(Node)
    <2>1. Then(Verb, Node) = a \o b
      BY <1>6 DEF Then
    <2> DEFINE x == Node
    <2>x. <<x>> \in Seq({x}) /\ <<>> \in Seq({x}) /\ x \in Nodes
      <3>1. x \in Nodes
        BY <1>1
      <3> HIDE DEF x
      <3> QED
        BY <3>1
    <2>2. ns \in Seq({Node}) /\ {Node} \in SUBSET Nodes
      BY <2>x
    <2> HIDE DEF ns
    <2>3. a \in Seq(About(D, {Node}))
      BY <2>2, DeleteOrder
    <2> HIDE DEF a, b, D, E
    <2>4. Lacks(a, R)
      <3> HIDE DEF R
      <3> QED
        BY <1>2, <2>3, LacksOthers
    <2>5. a \in Seq(About(D \cup E, {Node})) /\ b \in Seq(About(D \cup E, {Node}))
      BY <1>2, <1>3, <2>3, AboutMore DEF b
    <2>6. Lacks(a \o b, R)
      BY <1>4, <2>4, <2>5, LacksConcat DEF b
    <2> QED
      BY <2>1, <2>6
  <1>7. CASE Verb = "findRest"
    <2>1. Then(Verb, Node) = Each("unhost", Existing(record))
      BY <1>7 DEF Then
    <2>2. Existing(record) \in Seq(Nodes)
      BY <1>1, ExistingAre
    <2>3. Each("unhost", Existing(record)) \in Seq(About({"unhost"}, Nodes))
      BY <2>2, EachIs
    <2>4. Lacks(Each("unhost", Existing(record)), R)
      <3> HIDE DEF R
      <3> QED
        BY <1>2, <2>3, LacksOthers
    <2> QED
      BY <2>1, <2>4
  <1> QED
    BY <1>5, <1>6, <1>7

LEMMA LeavingNext ==
    ASSUME BaseInv, BaseInv', TidyInv, Works, record # NoRecord, worker.kind = "deleteNode",
           Standing, Leaving
    PROVE  Leaving'
  <1> DEFINE F == {"findNode", "remove"}
             m == worker.node
             p == worker'.todo
  <1>1. /\ Busy /\ Busy' /\ worker.todo # <<>> /\ Scope(worker, Head(worker.todo))
        /\ worker'.node = m /\ Enters
        /\ Verb \in Finds <=> Looks
    BY WorkDoes
  <1>2. Verb \notin {"join", "findAll", "findPeers"}
    BY <1>1 DEF Scope, Verb
  <1>3. members' \subseteq members /\ (Verb = "remove" => m \notin members')
    BY <1>1, <1>2 DEF Enters
  <1>4. worker.node \notin members => m \notin members'
    BY <1>3
  <1>5. CASE Looks
    <2>1. Verb \in {"findNode", "findAgain", "findRest"} /\ Verb \in Finds
      BY <1>1, <1>2, <1>5 DEF Finds
    <2> DEFINE q == Then(Verb, Node)
    <2>2. p = q
      BY <1>5 DEF Looks
    <2>3. /\ Node = m
          /\ Verb = "findNode" => \/ ExistsVm(m) /\ Lacks(q, Ends) /\ ~Lacks(q, {"remove"}) /\ ~Lacks(q, {"findAgain"})
                                  \/ ~ExistsVm(m)
      <3>1. Verb \in {"findNode", "findAgain", "findRest"} => Node = worker.node
        BY <1>1, <2>1, ThenOrder
      <3>2. Verb = "findNode" => \/ ExistsVm(Node) /\ Lacks(q, Ends) /\ ~Lacks(q, {"remove"}) /\ ~Lacks(q, {"findAgain"})
                                 \/ ~ExistsVm(Node)
        BY <1>1, <2>1, ThenOrder
      <3> QED
        BY <2>1, <3>1, <3>2
    <2>4. (Verb = "findNode" => ~ExistsVm(Node)) => Lacks(q, {"remove"})
      BY <1>1, <2>1, ThenLeaves
    <2> HIDE DEF q, p
    <2>5. CASE Verb = "findNode" /\ ExistsVm(m)
      <3>1. ~Lacks(q, F)
        BY <2>3, <2>5, LacksLess
      <3> QED
        BY <1>1, <2>2, <2>3, <2>5, <3>1 DEF Leaving, p
    <2>6. CASE ~(Verb = "findNode" /\ ExistsVm(m))
      <3>1. m \notin members
        <4>1. CASE Verb = "findNode"
          <5>1. ~ExistsVm(m)
            BY <2>6, <4>1
          <5>2. ~Settled(m)
            BY <5>1 DEF ExistsVm, Named, Listed, Settled, Own
          <5> QED
            BY <5>2 DEF Standing, Fine
        <4>2. CASE Verb # "findNode"
          <5>1. Lacks(worker.todo, F)
            BY <1>1, <2>1, <4>2, LooksAlone
          <5> QED
            BY <1>1, <5>1 DEF Leaving
        <4> QED
          BY <4>1, <4>2
      <3>2. Lacks(q, {"remove"})
        BY <2>3, <2>4, <2>6
      <3> QED
        BY <1>1, <1>4, <2>2, <3>1, <3>2 DEF Leaving, p
    <2> QED
      BY <2>5, <2>6
  <1>6. CASE ~Looks
    <2>1. /\ \A ds : ds \cap Again = {} =>
                (Lacks(worker.todo, ds) <=> Verb \notin ds /\ Lacks(p, ds))
          /\ \A d, n : Ahead(p, d, n) =>
                 \/ Ahead(worker.todo, d, n)
                 \/ d \in Again /\ (d \in Stops => Verb = "reboot" \/ Verb \in {"down", "halt"})
      BY <1>6, WorkLeaves DEF Passes
    <2>2. F \cap Again = {} /\ {"remove"} \cap Again = {} /\ {"findAgain"} \cap Again = {}
      BY DEF Again
    <2>3. Verb \notin {"findNode", "findAgain"}
      BY <1>1, <1>6 DEF Finds
    <2>4. Lacks(p, F) => m \notin members'
      <3>1. Lacks(p, F) => Lacks(worker.todo, F) \/ Verb = "remove"
        <4>1. Lacks(worker.todo, F) <=> Verb \notin F /\ Lacks(p, F)
          <5> HIDE DEF F, p
          <5> QED
            BY <2>1, <2>2
        <4> QED
          BY <2>3, <4>1
      <3> QED
        BY <1>1, <1>3, <3>1 DEF Leaving
    <2>5. ~Lacks(p, Ends) => m \notin members'
      <3> SUFFICES ASSUME ~Lacks(p, Ends) PROVE ~Lacks(worker.todo, Ends)
        BY <1>4 DEF Leaving
      <3>1. p \in Seq(Instruction)
        BY <1>1 DEF Busy, Workers
      <3> HIDE DEF p
      <3>2. PICK k \in 1..Len(p) : p[k].do \in Ends
        BY DEF Lacks
      <3>0. p[k] \in Instruction
        BY <3>1
      <3>3. p[k] = Instr(p[k].do, p[k].node)
        BY <3>0 DEF Instruction, Instr
      <3>4. Ahead(p, p[k].do, p[k].node)
        BY <3>3 DEF Ahead
      <3>5. \/ Ahead(worker.todo, p[k].do, p[k].node)
            \/ p[k].do \in Again /\ (p[k].do \in Stops => Verb = "reboot" \/ Verb \in {"down", "halt"})
        BY <2>1, <3>4
      <3>6. CASE Ahead(worker.todo, p[k].do, p[k].node)
        BY <3>2, <3>6, NotLacking
      <3>7. CASE Verb = "reboot" \/ Verb \in {"down", "halt"}
        <4>1. Verb \in Ends
          BY <1>1, <3>7, HeadTidy DEF Ends
        <4>2. Ahead(worker.todo, Verb, Node)
          BY <1>6, WorkLeaves
        <4> QED
          BY <4>1, <4>2, NotLacking
      <3>8. Ends \cap Again \subseteq Stops
        BY DEF Ends, Again, Stops
      <3> QED
        BY <3>2, <3>5, <3>6, <3>7, <3>8
    <2>6. ~Lacks(p, {"remove"}) => ~Lacks(p, {"findAgain"})
      <3>1. ~Lacks(p, {"remove"}) => ~Lacks(worker.todo, {"remove"})
        BY <2>1, <2>2
      <3>2. Lacks(p, {"findAgain"}) => Lacks(worker.todo, {"findAgain"})
        BY <2>1, <2>2, <2>3
      <3> QED
        BY <3>1, <3>2 DEF Leaving
    <2> QED
      BY <1>1, <2>4, <2>5, <2>6 DEF Leaving
  <1> QED
    BY <1>5, <1>6

LEMMA FormingNext ==
    ASSUME BaseInv, BaseInv', TidyInv, [Next]_vars, Works, worker.kind = "create", Forming, Upright
    PROVE  Forming'
  <1> DEFINE C == ToSet(worker.copy)
             f == First
  <1>1. /\ Busy /\ Busy' /\ worker.todo # <<>> /\ Scope(worker, Head(worker.todo))
        /\ worker'.kind = worker.kind /\ worker'.copy = worker.copy
        /\ UNCHANGED queue /\ Enters
        /\ Verb \notin {"drop", "erase"} => UNCHANGED record
    BY WorkDoes
  <1>2. /\ ~Looks /\ Verb \notin {"drop", "erase", "remove"}
        /\ Verb \in {"join", "ready"} => Node \in C
    BY RisingVerbs
  <1>3. f \in C /\ C \subseteq Nodes
    <2>1. worker.copy \in Seq(Nodes) /\ HasMaster(worker.copy, Foreign)
      BY <1>1 DEF Busy, Workers, BaseInv, ShapeInv, Shaped
    <2> QED
      BY <2>1, MasterIsNode, InToSet DEF First
  <1>4. First' = f /\ ToSet(worker'.copy) = C /\ UNCHANGED <<record, queue>>
    BY <1>1, <1>2 DEF First
  <1>5. /\ Verb = "join" => members' = members \cup {Node}
        /\ Verb = "ready" => members' = IF Node = f THEN {f} ELSE members
        /\ Verb \notin {"join", "ready"} => members' = members
    BY <1>1, <1>2 DEF Enters, First
  <1>6. \A d, n : Ahead(worker.todo, d, n) => Ahead(worker'.todo, d, n) \/ (Verb = d /\ Node = n)
    BY <1>2, WorkLeaves DEF Passes
  <1>7. \A d, n : d \notin Again /\ Ahead(worker'.todo, d, n) => Ahead(worker.todo, d, n)
    BY <1>2, WorkLeaves
  <1>8. Verb = "join" => \A n : ~Ahead(worker.todo, "ready", n)
    BY <1>1, HeadTidy
  <1>9. Ahead(worker.todo, Verb, Node)
    BY <1>2, WorkLeaves
  <1>10. \A n \in C : Rising(n)'
    BY <1>3, RisingNext DEF Forming
  <1>11. \A n \in ToSet(record') : n \in C \/ Adding(n)'
    BY <1>4 DEF Forming, Adding
  <1> DEFINE R == Ahead(worker.todo, "ready", f)
             S == Ahead(worker'.todo, "ready", f)
             J(n) == Ahead(worker.todo, "join", n)
             K(n) == Ahead(worker'.todo, "join", n)
  <1>12. /\ R => \A n \in C \ {f} : J(n)
         /\ ~R => f \in members /\ members \subseteq C /\ \A n \in C : n \in members \/ J(n)
    BY <1>1 DEF Forming, Coming
  <1>13. S => R
    BY <1>7 DEF Again
  <1>14. R => S \/ (Verb = "ready" /\ Node = f)
    BY <1>6
  <1>15. \A n \in C : J(n) => K(n) \/ (Verb = "join" /\ Node = n)
    BY <1>6
  <1>16. Verb = "join" => ~R
    BY <1>8
  <1>17. Verb = "ready" /\ Node = f => R
    BY <1>9
  <1> HIDE DEF R, S, J, K, C, f
  <1>18. S => \A n \in C \ {f} : K(n)
    BY <1>12, <1>13, <1>15, <1>16
  <1>19. ~S => f \in members' /\ members' \subseteq C /\ \A n \in C : n \in members' \/ K(n)
    <2>1. CASE R /\ ~S
      <3>1. Verb = "ready" /\ Node = f
        BY <1>14, <2>1
      <3>2. members' = {f}
        BY <1>5, <3>1
      <3>3. \A n \in C \ {f} : K(n)
        BY <1>12, <1>15, <2>1, <3>1
      <3> QED
        BY <1>3, <3>2, <3>3
    <2>2. CASE ~R
      <3>1. f \in members /\ members \subseteq C /\ \A n \in C : n \in members \/ J(n)
        BY <1>12, <2>2
      <3>2. CASE Verb = "join"
        BY <1>2, <1>5, <1>15, <3>1, <3>2
      <3>3. CASE Verb # "join"
        <4>1. members' = members
          BY <1>5, <1>17, <2>2, <3>3
        <4> QED
          BY <1>15, <3>1, <3>3, <4>1
      <3> QED
        BY <3>2, <3>3
    <2> QED
      BY <1>13, <2>1, <2>2
  <1>20. (S <=> Coming("ready", First)') /\ \A n \in C : (K(n) <=> Coming("join", n)')
    BY <1>1, <1>4 DEF Coming, S, K
  <1> QED
    BY <1>4, <1>10, <1>11, <1>18, <1>19, <1>20 DEF Forming

LEMMA WholeWork ==
    ASSUME BaseInv, BaseInv', TidyInv, [Next]_vars, WholeInv, Works
    PROVE  WholeInv'
  <1> SUFFICES ASSUME Due' PROVE WholeInv'
    BY DEF WholeInv
  <1>1. /\ Busy /\ Busy' /\ worker.todo # <<>> /\ Node \in Nodes /\ Scope(worker, Head(worker.todo))
        /\ worker'.kind = worker.kind /\ worker'.node = worker.node /\ worker'.copy = worker.copy
        /\ UNCHANGED <<queue, failed>>
        /\ Verb \in Finds <=> Looks
        /\ Verb = "erase" => record' = NoRecord
        /\ Verb \notin {"drop", "erase"} => UNCHANGED record
    BY WorkDoes
  <1>2. record # NoRecord /\ Verb # "erase"
    <2>1. record' # NoRecord
      BY DEF Due
    <2>2. Verb = "drop" => worker.kind = "deleteNode"
      BY <1>1 DEF Scope, Verb
    <2>3. worker.kind = "deleteNode" => record # NoRecord
      BY <1>1 DEF BaseInv, RecordInv
    <2> QED
      BY <1>1, <2>1, <2>2, <2>3
  <1>3. Due
    BY <1>1, <1>2 DEF Due, Creating
  <1>4. worker # Idle /\ worker' # Idle
    BY <1>1, IdleIs DEF Busy
  <1>5. worker.kind \in {"add", "deleteNode", "change"} => Standing'
    <2> SUFFICES ASSUME worker.kind \in {"add", "deleteNode", "change"} PROVE Standing'
      OBVIOUS
    <2>1. Standing /\ (worker.kind = "add" => Rising(worker.node)) /\ (worker.kind = "deleteNode" => Leaving)
      BY <1>1, <1>3 DEF WholeInv, Doing
    <2> QED
      BY <1>2, <2>1, StandingNext
  <1>6. worker.kind = "create" => Forming' /\ Upright'
    <2> SUFFICES ASSUME worker.kind = "create" PROVE Forming' /\ Upright'
      OBVIOUS
    <2>1. Forming /\ Upright
      BY <1>1, <1>3 DEF WholeInv, Doing
    <2> QED
      BY <2>1, FormingNext, UprightNext
  <1>7. worker.kind = "add" => Rising(worker.node)' /\ Upright'
    <2> SUFFICES ASSUME worker.kind = "add" PROVE Rising(worker.node)' /\ Upright'
      OBVIOUS
    <2> DEFINE m == worker.node
    <2>1. Rising(m) /\ Upright
      BY <1>1, <1>3 DEF WholeInv, Doing
    <2>2. m \in Nodes
      BY <1>1 DEF Busy, Workers
    <2>3. PICK n \in Nodes : n = m
      BY <2>2
    <2> HIDE DEF m
    <2>4. Rising(n)
      BY <2>1, <2>3
    <2>5. Rising(n)' /\ Upright'
      BY <2>1, <2>3, <2>4, RisingNext, UprightNext DEF m
    <2>6. worker'.node = n
      BY <1>1, <2>3 DEF m
    <2> QED
      BY <2>5, <2>6
  <1>8. worker.kind = "deleteNode" => Leaving'
    <2> SUFFICES ASSUME worker.kind = "deleteNode" PROVE Leaving'
      OBVIOUS
    <2>1. Standing /\ Leaving
      BY <1>1, <1>3 DEF WholeInv, Doing
    <2> QED
      BY <1>2, <2>1, LeavingNext
  <1>9. worker.kind = "delete" => ~Lacks(worker'.todo, {"findAll", "erase"})
    <2> SUFFICES ASSUME worker.kind = "delete" PROVE ~Lacks(worker'.todo, {"findAll", "erase"})
      OBVIOUS
    <2> DEFINE F == {"findAll", "erase"}
    <2>1. ~Lacks(worker.todo, F)
      BY <1>1, <1>3 DEF WholeInv, Doing
    <2>2. CASE Looks
      <3>1. Verb = "findAll" /\ Verb \in Finds
        BY <1>1, <2>2 DEF Scope, Verb, Finds
      <3> DEFINE p == Then(Verb, Node)
      <3>2. ~Lacks(p, {"erase"})
        BY <1>1, <3>1, ThenOrder
      <3>3. worker'.todo = p
        BY <2>2 DEF Looks
      <3> HIDE DEF p
      <3>4. ~Lacks(p, F)
        BY <3>2, LacksLess
      <3> QED
        BY <3>3, <3>4
    <2>3. CASE ~Looks
      <3>1. F \cap Again = {} /\ Verb \notin F
        BY <1>1, <1>2, <2>3 DEF Again, Finds
      <3>2. Lacks(worker.todo, F) <=> Verb \notin F /\ Lacks(worker'.todo, F)
        <4> HIDE DEF F
        <4> QED
          BY <2>3, <3>1, WorkLeaves DEF Passes
      <3> QED
        BY <2>1, <3>1, <3>2
    <2> QED
      BY <2>2, <2>3
  <1> QED
    BY <1>1, <1>4, <1>5, <1>6, <1>7, <1>8, <1>9 DEF WholeInv, Doing

\* A handler
LEMMA WholeCall ==
    ASSUME BaseInv, WholeInv, Call
    PROVE  WholeInv'
  <1> SUFFICES ASSUME Due' PROVE WholeInv'
    BY DEF WholeInv
  <1>1. PICK k, n : Handle(k, n) /\ k \in {"create", "add", "deleteNode", "delete", "change"}
    BY DEF Call
  <1> DEFINE e == [kind |-> k, node |-> n]
             q == queue'
  <1>2. /\ queue \in Seq(Events) /\ q = Append(queue, e)
        /\ UNCHANGED <<vm, members, worker, failed>>
    BY <1>1 DEF Handle, history, BaseInv, TypeInv
  <1>3. /\ Len(q) = Len(queue) + 1 /\ q # <<>> /\ Len(queue) \in Nat
        /\ \A i \in 1..Len(queue) : q[i] = queue[i]
        /\ q[Len(queue) + 1] = e
    BY <1>2
  <1> HIDE DEF q
  <1>4. ~Creating /\ k # "create"
    <2>1. ~\E i \in 1..Len(q) : q[i].kind = "create"
      BY DEF Due, Creating, q
    <2> QED
      BY <1>3, <2>1 DEF Creating
  <1>5. record # NoRecord /\ (record' = record \/ (k = "add" /\ record' = Append(record, n)))
    BY <1>1, <1>4 DEF Handle
  <1>6. Due
    BY <1>2, <1>4, <1>5 DEF Due
  <1>7. \A x : Adding(x) => Adding(x)'
    <2> SUFFICES ASSUME NEW x, Adding(x) PROVE \E i \in 1..Len(q) : q[i] = [kind |-> "add", node |-> x]
      BY DEF Adding, q
    <2>1. PICK i \in 1..Len(queue) : queue[i] = [kind |-> "add", node |-> x]
      BY DEF Adding
    <2> QED
      BY <1>3, <2>1
  <1>8. k = "add" => Adding(n)'
    <2> SUFFICES ASSUME k = "add" PROVE \E i \in 1..Len(q) : q[i] = [kind |-> "add", node |-> n]
      BY DEF Adding, q
    <2> QED
      BY <1>3
  <1>9. ToSet(record) \subseteq ToSet(record') /\ \A x \in ToSet(record') : x \in ToSet(record) \/ Adding(x)'
    <2>1. CASE record' = record
      BY <2>1
    <2>2. CASE k = "add" /\ record' = Append(record, n)
      <3>1. record \in Seq(Nodes)
        BY <1>5 DEF BaseInv, TypeInv
      <3> DEFINE r == record'
      <3>2. /\ Len(r) = Len(record) + 1 /\ Len(record) \in Nat
            /\ \A i \in 1..Len(record) : r[i] = record[i]
            /\ r[Len(record) + 1] = n
            /\ DOMAIN r = 1..Len(r)
        BY <2>2, <3>1
      <3>3. \A x : x \in ToSet(record) <=> \E i \in 1..Len(record) : record[i] = x
        BY <3>1, InToSet
      <3>4. \A x : x \in ToSet(r) <=> \E i \in 1..Len(r) : r[i] = x
        BY <3>2 DEF ToSet
      <3> HIDE DEF r
      <3>5. \A x : x \in ToSet(r) <=> x \in ToSet(record) \/ x = n
        BY <3>2, <3>3, <3>4
      <3> QED
        BY <1>8, <2>2, <3>5 DEF r
    <2> QED
      BY <1>5, <2>1, <2>2
  <1>10. \A x : Fine(x) => Fine(x)'
    BY <1>2 DEF Fine, Settled, Own, Runs, Coming, Busy
  <1>11. \A x : Expected(x) => Expected(x)'
    BY <1>2, <1>7 DEF Expected, Doing, Searching, Coming, Busy, Verb
  <1>12. Standing => Standing'
    BY <1>2, <1>9, <1>10, <1>11 DEF Standing, Expected
  <1>13. \A x : Rising(x) => Rising(x)'
    BY <1>2 DEF Rising, Searching, Coming, Settled, Own, Runs, Vacant, Busy, Verb
  <1>14. Upright => Upright'
    BY <1>2 DEF Upright, Coming, Settled, Own, Busy
  <1>15. \A d, x : Coming(d, x)' <=> Coming(d, x)
    BY <1>2 DEF Coming, Busy
  <1>16. Forming => Forming'
    <2>1. First' = First /\ worker' = worker /\ members' = members
      BY <1>2 DEF First
    <2> QED
      BY <1>7, <1>9, <1>13, <1>15, <2>1 DEF Forming
  <1>17. Leaving => Leaving'
    BY <1>2 DEF Leaving
  <1>18. \A kk : Doing(kk)' <=> Doing(kk)
    BY <1>2 DEF Doing, Busy
  <1>19. Rising(worker.node) => Rising(worker.node)'
    BY <1>2, <1>13
  <1>20. queue' # <<>> /\ worker' = worker
    BY <1>2, <1>3 DEF q
  <1> QED
    BY <1>6, <1>12, <1>14, <1>16, <1>17, <1>18, <1>19, <1>20 DEF WholeInv

\* The end of a use case
LEMMA WholeFinish ==
    ASSUME BaseInv, WholeInv, Finish
    PROVE  WholeInv'
  <1> SUFFICES ASSUME Due' PROVE WholeInv'
    BY DEF WholeInv
  <1>1. /\ worker # Idle /\ worker.todo = <<>> /\ worker' = Idle
        /\ UNCHANGED <<vm, members, record, queue, failed>>
        /\ status' = IF record = NoRecord \/ worker.kind = "delete" THEN status ELSE "Sync"
    BY DEF Finish, history
  <1>2. Due /\ Busy /\ record # NoRecord
    BY <1>1 DEF Due, Creating, BaseInv, TypeInv, Busy
  <1>3. (\A ds : Lacks(worker.todo, ds)) /\ \A d, n : ~Ahead(worker.todo, d, n)
    BY <1>1, NothingAhead
  <1>4. ~Busy'
    BY <1>1, IdleIs DEF Busy
  <1>5. worker.kind # "delete"
    BY <1>2, <1>3 DEF WholeInv, Doing
  <1>6. (\A d, n : ~Coming(d, n)) /\ ~Searching
    BY <1>1, <1>3 DEF Coming, Searching
  <1>7. \A n : Settled(n) /\ Runs(n) => Fine(n)'
    BY <1>1 DEF Settled, Own, Runs, Fine
  <1>8. \A n : n \in members \/ Adding(n) => Expected(n)'
    BY <1>1 DEF Expected, Adding
  <1>9. Standing'
    <2>1. CASE worker.kind \in {"add", "deleteNode", "change"}
      <3>1. Standing
        BY <1>2, <2>1 DEF WholeInv
      <3>2. \A n \in ToSet(record) : n \in members \/ Adding(n)
        BY <1>3, <1>6, <3>1 DEF Standing, Expected
      <3>3. \A n \in members : n \in ToSet(record) /\ Settled(n) /\ Runs(n)
        BY <1>6, <3>1 DEF Standing, Fine
      <3> QED
        BY <1>1, <1>7, <1>8, <3>2, <3>3 DEF Standing
    <2>2. CASE worker.kind = "create"
      <3>1. Forming
        BY <1>2, <2>2 DEF WholeInv, Doing
      <3>2. /\ \A n \in ToSet(record) : n \in ToSet(worker.copy) \/ Adding(n)
            /\ \A n \in ToSet(worker.copy) : n \in members /\ Settled(n) /\ Runs(n)
            /\ members \subseteq ToSet(worker.copy)
        BY <1>6, <3>1 DEF Forming, Rising
      <3>3. ToSet(worker.copy) \subseteq ToSet(record)
        BY <1>2, <2>2 DEF BaseInv, RecordInv
      <3> QED
        BY <1>1, <1>7, <1>8, <3>2, <3>3 DEF Standing
    <2>3. worker.kind \in {"create", "add", "deleteNode", "delete", "change"}
      BY <1>2 DEF Busy, Workers, Kinds
    <2> QED
      BY <1>5, <2>1, <2>2, <2>3
  <1> QED
    BY <1>1, <1>2, <1>4, <1>5, <1>9 DEF WholeInv, Doing

\* The beginning of a use case
LEMMA WholeReceive ==
    ASSUME BaseInv, BaseInv', WholeInv, Receive
    PROVE  WholeInv'
  <1> SUFFICES ASSUME Due' PROVE WholeInv'
    BY DEF WholeInv
  <1> DEFINE e == Head(queue)
             w == worker'
             q == queue'
  <1>1. /\ worker = Idle /\ queue # <<>> /\ queue \in Seq(Events) /\ q = Tail(queue)
        /\ UNCHANGED <<vm, members, record>>
    BY DEF Receive, BaseInv, TypeInv
  <1>2. /\ e \in Events /\ e = queue[1] /\ Len(queue) \in Nat \ {0} /\ Len(q) = Len(queue) - 1
        /\ \A i \in 1..Len(q) : q[i] = queue[i + 1] /\ i + 1 \in 1..Len(queue)
    BY <1>1, TailIs
  <1>3. CanBegin(e) /\ UNCHANGED failed
    BY DEF Receive, Abort, Due
  <1>4. w = [kind |-> e.kind, node |-> e.node, copy |-> record, used |-> {}, todo |-> Begin(e)]
    BY <1>3 DEF Receive
  <1>5. TypeInv /\ KeepsMaster
    BY DEF BaseInv, RecordInv
  <1> HIDE DEF e, w, q
  <1>6. /\ w.kind = e.kind /\ w.node = e.node /\ w.copy = record /\ w \in Workers
        /\ w.kind = "deleteNode" /\ w.todo # <<>> => ~Lacks(w.todo, {"findNode"})
    BY <1>2, <1>3, <1>4, <1>5, BeginIs
  <1>7. /\ w.kind = "create" =>
                 /\ Lacks(w.todo, Stops \cup Finds)
                 /\ \A n \in ToSet(w.copy) :
                       Ahead(w.todo, "create", n) /\ Ahead(w.todo, "start", n) /\ Ahead(w.todo, "ready", n)
                 /\ \A n \in ToSet(w.copy) \ {Master(w.copy, Foreign)} : Ahead(w.todo, "join", n)
        /\ w.kind = "add" => Lacks(w.todo, Stops) /\ ~Lacks(w.todo, {"findPeers"})
        /\ w.kind = "delete" => ~Lacks(w.todo, {"findAll"})
        /\ w.kind = "deleteNode" => Lacks(w.todo, Ends)
    BY <1>2, <1>3, <1>4, <1>5, BeginOrder
  <1>8. \A i \in 1..Len(queue) : i = 1 \/ (i - 1 \in 1..Len(q) /\ queue[i] = q[i - 1])
    BY <1>2
  <1>9. \A n : Adding(n) => Adding(n)' \/ (e.kind = "add" /\ e.node = n)
    <2> SUFFICES ASSUME NEW n, Adding(n), ~(e.kind = "add" /\ e.node = n)
                 PROVE  \E i \in 1..Len(q) : q[i] = [kind |-> "add", node |-> n]
      BY DEF Adding, q
    <2>1. PICK i \in 1..Len(queue) : queue[i] = [kind |-> "add", node |-> n]
      BY DEF Adding
    <2>2. i # 1
      BY <1>2, <2>1
    <2> QED
      BY <1>8, <2>1, <2>2
  <1>10. ~\E i \in 1..Len(q) : q[i].kind = "create"
    BY DEF Due, Creating, q
  <1>11. w # Idle /\ Busy'
    BY <1>6, IdleIs DEF Busy, w
  <1>12. CASE e.kind = "create"
    <2>1. First' = Master(w.copy, Foreign) /\ First' \in ToSet(w.copy)
      <3>1. HasMaster(record, Foreign) /\ record \in Seq(Nodes)
        BY <1>3, <1>5 DEF KeepsMaster, CanBegin, TypeInv
      <3>2. Master(record, Foreign) \in ToSet(record)
        BY <3>1, MasterIsNode
      <3> QED
        BY <1>6, <3>2 DEF First, w
    <2>2. \A n \in ToSet(w.copy) : Coming("create", n)' /\ Coming("start", n)' /\ Coming("ready", n)'
      BY <1>6, <1>7, <1>11, <1>12 DEF Coming, w
    <2>3. \A n \in ToSet(w.copy) \ {First'} : Coming("join", n)'
      BY <1>6, <1>7, <1>11, <1>12, <2>1 DEF Coming, w
    <2>4. \A n \in ToSet(w.copy) : Rising(n)'
      BY <2>2 DEF Rising
    <2>5. Forming'
      <3>1. Coming("ready", First)'
        <4>1. PICK f \in ToSet(w.copy) : f = First'
          BY <2>1
        <4>2. Coming("ready", f)'
          BY <2>2
        <4> QED
          BY <4>1, <4>2 DEF Coming
      <3>2. ToSet(record') = ToSet(w.copy)
        BY <1>1, <1>6
      <3> QED
        BY <2>3, <2>4, <3>1, <3>2 DEF Forming, w
    <2>6. Upright'
      <3>1. \A d \in Stops : \A n : ~Ahead(w.todo, d, n)
        BY <1>6, <1>7, <1>12 DEF Lacks, Ahead, Instr
      <3> QED
        BY <3>1 DEF Upright, Coming, w
    <2>7. worker'.kind = "create" /\ worker' # Idle
      BY <1>6, <1>11, <1>12 DEF w
    <2> QED
      BY <2>5, <2>6, <2>7 DEF WholeInv, Doing
  <1>13. CASE e.kind # "create"
    <2>1. ~Creating
      BY <1>2, <1>8, <1>10, <1>13 DEF Creating
    <2>2. Due
      BY <1>1, <1>3, <2>1 DEF Due
    <2>3. Standing /\ ~Busy
      BY <1>1, <2>2, IdleIs DEF WholeInv, Busy
    <2>4. \A n \in members : Fine(n)'
      BY <1>1, <2>3 DEF Standing, Fine, Settled, Own, Runs, Coming
    <2>5. \A n \in ToSet(record) : n \in members \/ Adding(n)
      BY <2>3 DEF Standing, Expected, Doing
    <2>6. e.kind = "add" => Searching'
      <3> SUFFICES ASSUME e.kind = "add" PROVE Searching'
        OBVIOUS
      <3>1. w.todo = <<Instr("findPeers", e.node)>>
        BY <1>4 DEF Begin, AddNode
      <3>2. w.todo # <<>> /\ Head(w.todo).do = "findPeers"
        BY <3>1 DEF Instr
      <3> QED
        BY <1>11, <3>2 DEF Searching, Verb, w
    <2>7. \A n \in ToSet(record) : Expected(n)'
      <3> SUFFICES ASSUME NEW n \in ToSet(record) PROVE Expected(n)'
        OBVIOUS
      <3>1. n \in members \/ Adding(n)' \/ (e.kind = "add" /\ e.node = n)
        BY <1>9, <2>5
      <3>2. CASE e.kind = "add" /\ e.node = n
        BY <1>6, <1>11, <2>6, <3>2 DEF Expected, Doing, w
      <3> QED
        BY <1>1, <3>1, <3>2 DEF Expected
    <2>8. Standing'
      BY <1>1, <2>3, <2>4, <2>7 DEF Standing
    <2>9. e.kind = "add" => Rising(worker.node)' /\ Upright'
      <3> SUFFICES ASSUME e.kind = "add" PROVE Rising(worker.node)' /\ Upright'
        OBVIOUS
      <3>1. \A d \in Stops : \A n : ~Ahead(w.todo, d, n)
        BY <1>6, <1>7 DEF Lacks, Ahead, Instr
      <3> QED
        BY <2>6, <3>1 DEF Rising, Upright, Coming, w
    <2>10. e.kind = "deleteNode" => Leaving'
      <3> SUFFICES ASSUME e.kind = "deleteNode" PROVE Leaving'
        OBVIOUS
      <3>1. w.todo # <<>> => ~Lacks(w.todo, {"findNode", "remove"})
        BY <1>6, LacksLess
      <3>2. Lacks(w.todo, Ends)
        BY <1>6, <1>7
      <3>3. Lacks(w.todo, {"remove"})
        <4>1. w.todo = <<>> \/ w.todo = <<Instr("findNode", e.node)>>
          BY <1>4 DEF Begin, DeleteNode
        <4>2. CASE w.todo = <<>>
          BY <4>2, NothingAhead
        <4>3. CASE w.todo = <<Instr("findNode", e.node)>>
          BY <4>3, LiteralIs
        <4> QED
          BY <4>1, <4>2, <4>3
      <3> QED
        BY <3>1, <3>2, <3>3 DEF Leaving, w
    <2>11. e.kind = "delete" => ~Lacks(worker'.todo, {"findAll", "erase"})
      BY <1>6, <1>7, LacksLess DEF w
    <2>12. worker'.kind = e.kind /\ worker' # Idle
      BY <1>6, <1>11 DEF w
    <2> QED
      BY <1>13, <2>8, <2>9, <2>10, <2>11, <2>12 DEF WholeInv, Doing
  <1> QED
    BY <1>12, <1>13

\* A VM that is there by itself
LEMMA WholeDrift ==
    ASSUME BaseInv, BaseInv', WholeInv, [Next]_vars, Drift
    PROVE  WholeInv'
  <1>1. UNCHANGED <<members, record, status, queue, worker, failed>>
    BY DEF Drift
  <1>2. PICK m \in Nodes : \E u \in Drifts(vm[m]) : vm' = [vm EXCEPT ![m] = u]
    BY DEF Drift
  <1>3. PICK u \in Drifts(vm[m]) : vm' = [vm EXCEPT ![m] = u]
    BY <1>2
  <1>4. vm \in [Nodes -> VM \cup {NoVM}] /\ members \subseteq Nodes
        /\ (Busy => ToSet(worker.copy) \subseteq Nodes /\ worker.node \in Nodes)
    BY InToSet DEF BaseInv, TypeInv, Busy, Workers
  <1>5. ~Asks
    <2> SUFFICES ASSUME Asks PROVE FALSE
      OBVIOUS
    <2>1. worker' = worker /\ worker # Idle /\ worker.todo # <<>>
      BY <1>1, IdleIs DEF Asks, Busy
    <2>2. Moves(<<>>)
      BY <2>1 DEF Asks
    <2>3. worker'.todo = Tail(worker.todo)
      BY <2>2, ProceedShape DEF BaseInv
    <2>4. Tail(worker.todo) # worker.todo
      <3>1. worker.todo \in Seq(Instruction)
        BY DEF Asks, Busy, Workers
      <3>2. Len(Tail(worker.todo)) # Len(worker.todo)
        <4> DEFINE p == worker.todo
        <4>1. p \in Seq(Instruction) /\ p # <<>>
          BY <2>1, <3>1
        <4>2. Len(Tail(p)) = Len(p) - 1 /\ Len(p) \in Nat
          <5> HIDE DEF p
          <5> QED
            BY <4>1, TailIs
        <4> QED
          BY <4>2
      <3> QED
        BY <3>2
    <2> QED
      BY <2>1, <2>3, <2>4
  <1>6. \A n \in Nodes : Settled(n) => Settled(n)'
    BY <1>5, SettledNext
  <1>7. \A n \in Nodes : Settled(n) /\ Runs(n) => Runs(n)'
    <2> SUFFICES ASSUME NEW n \in Nodes, Settled(n), Runs(n) PROVE Runs(n)'
      OBVIOUS
    <2> DEFINE v == vm[n]
    <2>1. CASE n # m
      BY <1>3, <1>4, <2>1 DEF Runs
    <2>2. CASE n = m
      <3>1. v \in VM /\ v # NoVM /\ v.owner = n /\ v.state \in {"stopped", "running"}
            /\ (v.task = "start" \/ v.task = "none")
        BY <1>4 DEF Settled, Own, Runs
      <3>2. vm'[n] = u /\ u \in Ended(v)
        BY <1>3, <1>4, <2>2, <3>1 DEF Drifts
      <3>3. v.task # "none"
        BY <3>1, <3>2, ForeignAssumption DEF Ended
      <3>4. u = [v EXCEPT !.state = "running", !.task = "none"]
        BY <3>1, <3>2, <3>3 DEF Ended
      <3>5. u.state = "running" /\ u.task = "none"
        BY <3>1, <3>4 DEF VM
      <3> QED
        BY <3>2, <3>5 DEF Runs
    <2> QED
      BY <2>1, <2>2
  <1>8. \A n \in Nodes : Vacant(n) => Vacant(n)'
    <2> SUFFICES ASSUME NEW n \in Nodes, Vacant(n) PROVE Vacant(n)'
      OBVIOUS
    <2> DEFINE v == vm[n]
    <2>1. CASE n # m
      BY <1>3, <1>4, <2>1 DEF Vacant
    <2>2. CASE n = m
      <3>1. vm'[n] = u /\ u \in Drifts(v) /\ v \in VM \cup {NoVM}
        BY <1>3, <1>4, <2>2
      <3>2. CASE v = NoVM
        <4>1. u = ForeignVM
          BY <3>1, <3>2 DEF Drifts, NoVM
        <4>2. u.state = "running" /\ u.task = "none"
          BY <4>1 DEF ForeignVM, NewVM
        <4> QED
          BY <3>1, <4>2 DEF Vacant
      <3>3. CASE v # NoVM /\ v.owner = n
        <4> HIDE DEF v
        <4>1. v \in VM
          BY <3>1, <3>3
        <4>2. \/ u = NoVM
              \/ u = [v EXCEPT !.state = "locked"]
              \/ u = [v EXCEPT !.state = "stopped"]
              \/ u = [v EXCEPT !.state = u.state, !.task = "none"]
          BY <3>1, <3>3, DriftIs
        <4>3. u = NoVM \/ u.owner = n
          BY <3>3, <4>1, <4>2 DEF VM
        <4> QED
          BY <3>1, <4>3 DEF Vacant
      <3>4. CASE v # NoVM /\ v.owner # n /\ v.state = "running" /\ v.task = "none"
        <4>1. u \in Ended(v)
          BY <3>1, <3>4 DEF Drifts
        <4>2. u = NoVM
          BY <3>4, <4>1 DEF Ended
        <4> QED
          BY <3>1, <4>2 DEF Vacant
      <3> QED
        BY <3>2, <3>3, <3>4 DEF Vacant
    <2> QED
      BY <2>1, <2>2
  <1>9. \A d, n : Coming(d, n)' <=> Coming(d, n)
    BY <1>1 DEF Coming, Busy
  <1>10. \A k : Doing(k)' <=> Doing(k)
    BY <1>1 DEF Doing, Busy
  <1>11. \A n \in Nodes : Fine(n) => Fine(n)'
    BY <1>6, <1>7, <1>9 DEF Fine
  <1>12. Searching' <=> Searching
    BY <1>1 DEF Searching, Busy, Verb
  <1>13. \A n : Expected(n)' <=> Expected(n)
    BY <1>1, <1>9, <1>10, <1>12 DEF Expected, Adding
  <1>14. \A n \in Nodes : Rising(n) => Rising(n)'
    BY <1>6, <1>7, <1>8, <1>9, <1>12 DEF Rising
  <1>15. Standing => Standing'
    BY <1>1, <1>4, <1>11, <1>13 DEF Standing
  <1>16. Upright => Upright'
    BY <1>6, <1>9 DEF Upright
  <1>17. Busy /\ Forming => Forming'
    <2>1. First' = First
      BY <1>1 DEF First
    <2>2. \A n : Adding(n)' <=> Adding(n)
      BY <1>1 DEF Adding
    <2> QED
      BY <1>1, <1>4, <1>9, <1>14, <2>1, <2>2 DEF Forming
  <1>18. Leaving => Leaving'
    BY <1>1 DEF Leaving
  <1>19. Busy /\ Rising(worker.node) => Rising(worker.node)'
    <2> SUFFICES ASSUME Busy, Rising(worker.node) PROVE Rising(worker.node)'
      OBVIOUS
    <2>1. PICK n \in Nodes : n = worker.node
      BY <1>4
    <2>2. Rising(n)'
      BY <1>14, <2>1
    <2>3. worker'.node = n
      BY <1>1, <2>1
    <2> QED
      BY <2>2, <2>3
  <1>20. Due' <=> Due
    BY <1>1 DEF Due, Creating
  <1> QED
    BY <1>1, <1>10, <1>15, <1>16, <1>17, <1>18, <1>19, <1>20 DEF WholeInv, Doing

LEMMA WholeNext ==
    ASSUME BaseInv, BaseInv', TidyInv, WholeInv, [Next]_vars
    PROVE  WholeInv'
  <1>1. CASE Step
    <2>1. CASE worker' # Idle
      BY <1>1, <2>1, WorkIs, WholeWork
    <2>2. CASE worker' = Idle
      <3>1. Finish \/ failed'
        BY <1>1, <2>2, StepEnds DEF BaseInv
      <3> QED
        BY <3>1, WholeFinish DEF WholeInv, Due
    <2> QED
      BY <2>1, <2>2
  <1>2. CASE Crash
    BY <1>2 DEF Crash, WholeInv, Due
  <1>3. CASE UNCHANGED vars
    <2>1. UNCHANGED <<vm, members, record, status, queue, worker, failed>>
      BY <1>3 DEF vars, state, history
    <2> QED
      BY <2>1 DEF WholeInv, Due, Creating, Standing, Expected, Adding, Doing, Searching, Coming, Fine, Settled,
                  Own, Runs, Rising, Vacant, Upright, Forming, First, Leaving, Busy, Verb
  <1> QED
    BY <1>1, <1>2, <1>3, WholeCall, WholeReceive, WholeDrift DEF Next

LEMMA WholeInit ==
    ASSUME Init PROVE TidyInv /\ WholeInv
  <1>1. ~Busy
    BY IdleIs DEF Init, Busy
  <1>2. ~Due
    BY DEF Init, Due
  <1> QED
    BY <1>1, <1>2 DEF TidyInv, WholeInv

LEMMA WholeMeans ==
    ASSUME BaseInv, WholeInv
    PROVE  SyncIsWhole
  <1> SUFFICES ASSUME ~failed, worker = Idle, queue = <<>>, record # NoRecord
               PROVE  /\ status = "Sync"
                      /\ members = ToSet(record)
                      /\ \A n \in members : Own(n) /\ (Running(vm[n]) \/ vm[n].task = "start")
    BY DEF SyncIsWhole
  <1>1. Len(queue) = 0 /\ ~Busy
    BY IdleIs DEF Busy
  <1>2. Due /\ \A n : ~Adding(n)
    BY <1>1 DEF Due, Creating, Adding
  <1>3. status = "Sync" /\ Standing
    BY <1>2 DEF WholeInv
  <1>4. \A n \in ToSet(record) : n \in members
    BY <1>1, <1>2, <1>3 DEF Standing, Expected, Doing
  <1>5. \A n \in members : n \in ToSet(record) /\ Settled(n) /\ Runs(n)
    BY <1>1, <1>3 DEF Standing, Fine, Coming
  <1> QED
    BY <1>3, <1>4, <1>5 DEF Settled, Own, Runs, Running

(* The record says what there is: a cluster keeps a master, and, as long   *)
(* as nothing has failed, a cluster with nothing left to do is in Sync,    *)
(* has all nodes of its record and no other, and their VMs run or are      *)
(* being started; for any nodes, requests and VMs of somebody else.        *)
THEOREM SyncMeansWhole == Spec => []ProvisioningInv
  <1>1. Init => BaseInv /\ TidyInv /\ WholeInv
    BY BaseInit, WholeInit
  <1>2. BaseInv /\ TidyInv /\ WholeInv /\ [Next]_vars => BaseInv' /\ TidyInv' /\ WholeInv'
    BY BaseNext, TidyNext, WholeNext
  <1>3. BaseInv /\ WholeInv => KeepsMaster /\ SyncIsWhole
    BY WholeMeans DEF BaseInv, RecordInv
  <1>4. Spec => []KeepsMaster /\ []SyncIsWhole
    BY <1>1, <1>2, <1>3, PTL DEF Spec
  <1>5. TypeOK /\ KeepsMaster /\ SyncIsWhole => ProvisioningInv
    BY DEF ProvisioningInv
  <1> QED
    BY <1>4, <1>5, ProvisioningTypeCorrect, PTL
=============================================================================
