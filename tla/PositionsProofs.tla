---------------------------- MODULE PositionsProofs ----------------------------
(* What the operators on positions return.                                   *)
EXTENDS Positions, FiniteSetTheorems, SequenceTheorems, TLAPS

(* The positions of a list are numbered from the first to the last: how     *)
(* many there are up to one is a number of its own, so that every number up *)
(* to the last is somebody's.                                               *)
LEMMA NthProperties ==
    ASSUME NEW S \in SUBSET Nat, IsFiniteSet(S)
    PROVE  /\ Cardinality(S) \in Nat
           /\ \A n \in 1..Cardinality(S) : Nth(S, n) \in S
           /\ \A n, m \in 1..Cardinality(S) : Nth(S, n) = Nth(S, m) => n = m
           /\ \A i \in S : \E n \in 1..Cardinality(S) : Nth(S, n) = i
  <1> DEFINE c == Cardinality(S)
             UpTo(i) == {j \in S : j <= i}
             rank == [i \in S |-> Cardinality(UpTo(i))]
  <1>1. c \in Nat
    BY FS_CardinalityType
  <1>2. ASSUME NEW i \in S
        PROVE  IsFiniteSet(UpTo(i)) /\ Cardinality(UpTo(i)) \in 1..c
    <2>1. IsFiniteSet(UpTo(i)) /\ Cardinality(UpTo(i)) <= c
      BY FS_Subset
    <2>2. Cardinality(UpTo(i)) \in Nat
      BY <2>1, FS_CardinalityType
    <2>3. i \in UpTo(i)
      OBVIOUS
    <2>4. Cardinality(UpTo(i)) # 0
      <3> HIDE DEF UpTo
      <3> QED
        BY <2>1, <2>3, FS_EmptySet
    <2> HIDE DEF UpTo, c
    <2> QED
      BY <1>1, <2>1, <2>2, <2>4
  <1>3. rank \in [S -> 1..c]
    <2> HIDE DEF UpTo, c
    <2> QED
      BY <1>2
  <1>4. ASSUME NEW i \in S, NEW j \in S, i < j
        PROVE  rank[i] # rank[j]
    <2>1. UpTo(i) \in SUBSET UpTo(j) /\ j \in UpTo(j) /\ j \notin UpTo(i)
      <3>1. i \in Nat /\ j \in Nat /\ \A k \in S : k \in Nat
        OBVIOUS
      <3>2. \A k \in S : k <= i => k <= j
        BY <1>4, <3>1
      <3>3. ~(j <= i) /\ j <= j
        BY <1>4, <3>1
      <3> QED
        BY <3>2, <3>3
    <2>2. IsFiniteSet(UpTo(j)) /\ rank[i] = Cardinality(UpTo(i)) /\ rank[j] = Cardinality(UpTo(j))
      BY <1>2
    <2> HIDE DEF UpTo, rank
    <2> QED
      BY <2>1, <2>2, FS_Subset
  <1>5. \A i, j \in S : rank[i] = rank[j] => i = j
    <2> HIDE DEF rank
    <2> QED
      BY <1>4
  <1>6. rank \in Injection(S, 1..c)
    <2> HIDE DEF rank, c
    <2> QED
      BY <1>3, <1>5 DEF Injection, IsInjective
  <1>7. \A n \in 1..c : \E i \in S : rank[i] = n
    <2> HIDE DEF rank
    <2>1. IsFiniteSet(1..c) /\ Cardinality(1..c) = c
      <3>1. 1 \in Int /\ c \in Int
        BY <1>1
      <3>2. IsFiniteSet(1..c) /\ Cardinality(1..c) = IF 1 > c THEN 0 ELSE c - 1 + 1
        <4> HIDE DEF c
        <4> QED
          BY <3>1, FS_Interval
      <3> HIDE DEF c
      <3> QED
        BY <1>1, <3>2
    <2>2. rank \in Surjection(S, 1..c)
      BY <1>6, <2>1, FS_Injection
    <2> QED
      BY <2>2 DEF Surjection
  <1>8. \A n \in 1..c : Nth(S, n) \in S /\ rank[Nth(S, n)] = n
    <2>1. \A i \in S : rank[i] = Cardinality({j \in S : j <= i})
      OBVIOUS
    <2> HIDE DEF rank, c, UpTo
    <2> QED
      BY <1>7, <2>1 DEF Nth
  <1>9. ASSUME NEW i \in S
        PROVE  \E n \in 1..c : Nth(S, n) = i
    <2>1. rank[i] \in 1..c
      <3> HIDE DEF rank, c
      <3> QED
        BY <1>3
    <2>2. Nth(S, rank[i]) \in S /\ rank[Nth(S, rank[i])] = rank[i]
      <3> HIDE DEF rank, c
      <3> QED
        BY <2>1, <1>8
    <2> HIDE DEF rank, c
    <2> QED
      BY <1>5, <2>1, <2>2
  <1> HIDE DEF rank
  <1>10. \A n, m \in 1..c : Nth(S, n) = Nth(S, m) => n = m
    BY <1>8
  <1> QED
    BY <1>1, <1>8, <1>9, <1>10

(* `find` and `findIndex` find something when there is something to find.    *)
LEMMA FirstOf ==
    ASSUME NEW n \in Nat, NEW S \in SUBSET (1..n), S # {}
    PROVE  Nth(S, 1) \in S
  <1>1. S \in SUBSET Nat
    OBVIOUS
  <1>2. IsFiniteSet(S)
    <2>1. IsFiniteSet(1..n)
      BY FS_Interval
    <2> QED
      BY <2>1, FS_Subset
  <1>3. Cardinality(S) \in Nat /\ Cardinality(S) # 0
    BY <1>2, FS_EmptySet, FS_CardinalityType
  <1> QED
    BY <1>1, <1>2, <1>3, NthProperties

(* `filter` and `retain_mut` keep the elements at the positions, each once.  *)
LEMMA KeptIs ==
    ASSUME NEW T, NEW list \in Seq(T), NEW S \in SUBSET DOMAIN list
    PROVE  /\ Kept(list, S) \in Seq(T)
           /\ DOMAIN Kept(list, S) = 1..Cardinality(S) /\ Len(Kept(list, S)) <= Len(list)
           /\ \A n \in DOMAIN Kept(list, S) : Nth(S, n) \in S /\ Kept(list, S)[n] = list[Nth(S, n)]
           /\ \A n, m \in DOMAIN Kept(list, S) : Nth(S, n) = Nth(S, m) => n = m
           /\ \A i \in S : \E n \in DOMAIN Kept(list, S) : Nth(S, n) = i
  <1> DEFINE c == Cardinality(S)
             l == [n \in 1..c |-> list[Nth(S, n)]]
  <1>1. DOMAIN list = 1..Len(list) /\ Len(list) \in Nat /\ \A k \in DOMAIN list : list[k] \in T
    OBVIOUS
  <1>2. S \in SUBSET Nat /\ S \in SUBSET (1..Len(list))
    BY <1>1
  <1>3. IsFiniteSet(S) /\ c <= Len(list)
    <2>1. IsFiniteSet(1..Len(list)) /\ Cardinality(1..Len(list)) = Len(list)
      <3>1. 1 \in Int /\ Len(list) \in Int
        BY <1>1
      <3>2. /\ IsFiniteSet(1..Len(list))
            /\ Cardinality(1..Len(list)) = IF 1 > Len(list) THEN 0 ELSE Len(list) - 1 + 1
        BY <3>1, FS_Interval
      <3> QED
        BY <1>1, <3>2
    <2> QED
      BY <1>2, <2>1, FS_Subset
  <1>4. /\ c \in Nat
        /\ \A n \in 1..c : Nth(S, n) \in S
        /\ \A n, m \in 1..c : Nth(S, n) = Nth(S, m) => n = m
        /\ \A i \in S : \E n \in 1..c : Nth(S, n) = i
    BY <1>2, <1>3, NthProperties
  <1>5. Kept(list, S) = l
    BY DEF Kept
  <1>6. DOMAIN l = 1..c /\ \A n \in 1..c : l[n] = list[Nth(S, n)]
    OBVIOUS
  <1>7. l \in Seq(T) /\ Len(l) = c
    <2>1. \A n \in 1..c : list[Nth(S, n)] \in T
      BY <1>1, <1>4
    <2> HIDE DEF c
    <2> QED
      BY <1>4, <2>1
  <1> HIDE DEF l, c
  <1> QED
    BY <1>3, <1>4, <1>5, <1>6, <1>7 DEF c

(* A list without repetitions has as many elements as it is long.            *)
LEMMA DistinctSize ==
    ASSUME NEW n \in Nat, NEW T, NEW f \in [1..n -> T], NEW R,
           \A x : x \in R <=> \E i \in 1..n : f[i] = x,
           \A i, j \in 1..n : f[i] = f[j] => i = j
    PROVE  IsFiniteSet(R) /\ Cardinality(R) = n
  <1>1. f \in [1..n -> R]
    OBVIOUS
  <1>2. f \in Surjection(1..n, R)
    BY <1>1 DEF Surjection
  <1>3. f \in Injection(1..n, R)
    BY <1>1 DEF Injection, IsInjective
  <1>4. IsFiniteSet(1..n) /\ Cardinality(1..n) = n
    <2>1. 1 \in Int /\ n \in Int
      OBVIOUS
    <2>2. IsFiniteSet(1..n) /\ Cardinality(1..n) = IF 1 > n THEN 0 ELSE n - 1 + 1
      BY <2>1, FS_Interval
    <2> QED
      BY <2>2
  <1> QED
    BY <1>2, <1>3, <1>4, FS_Surjection
-----------------------------------------------------------------------------
(* RowsIn with an id *)

DistinctIds(list) == \A i, j \in DOMAIN list : list[i].id = list[j].id => i = j

RowsIn(list) == {list[k] : k \in DOMAIN list}

RowsOf(list, i) == {r \in RowsIn(list) : r.id = i}

Row(i, d) == [id |-> i, def |-> d]

\* Whether rows of R are an id and a content, of which d may be one
Redefinable(R, d) == \A r \in R : Row(r.id, d) \in R /\ [r EXCEPT !.def = d] = Row(r.id, d)

WithDef(list, id, d) == [list EXCEPT ![FindRow(list, id)].def = d]

LEMMA InRowsOf ==
    ASSUME NEW R, NEW list \in Seq(R), NEW i
    PROVE  /\ DOMAIN list = 1..Len(list) /\ Len(list) \in Nat
           /\ \A k \in DOMAIN list : list[k] \in R
           /\ \A r : r \in RowsOf(list, i) <=> r.id = i /\ \E k \in DOMAIN list : list[k] = r
           /\ HasRow(list, i) <=> RowsOf(list, i) # {}
  <1>1. DOMAIN list = 1..Len(list) /\ Len(list) \in Nat /\ \A k \in DOMAIN list : list[k] \in R
    OBVIOUS
  <1>2. \A r : r \in RowsOf(list, i) <=> r.id = i /\ \E k \in DOMAIN list : list[k] = r
    BY DEF RowsOf, RowsIn
  <1>3. HasRow(list, i) <=> RowsOf(list, i) # {}
    BY <1>2 DEF HasRow
  <1> QED
    BY <1>1, <1>2, <1>3

(* findIndex and find: the first of the rows with the id                    *)
LEMMA RowFound ==
    ASSUME NEW R, NEW list \in Seq(R), NEW i, HasRow(list, i)
    PROVE  FindRow(list, i) \in DOMAIN list /\ list[FindRow(list, i)].id = i
  <1> DEFINE S == {k \in DOMAIN list : list[k].id = i}
  <1>1. DOMAIN list = 1..Len(list) /\ Len(list) \in Nat
    BY InRowsOf
  <1>2. S \in SUBSET (1..Len(list)) /\ S # {}
    BY <1>1 DEF HasRow
  <1>3. Nth(S, 1) \in S
    <2> HIDE DEF S
    <2> QED
      BY <1>1, <1>2, FirstOf
  <1> QED
    BY <1>3 DEF FindRow

(* push                                                                     *)
LEMMA RowAppended ==
    ASSUME NEW R, NEW list \in Seq(R), NEW r \in R
    PROVE  /\ Append(list, r) \in Seq(R)
           /\ \A i : RowsOf(Append(list, r), i) = IF i = r.id THEN RowsOf(list, i) \cup {r} ELSE RowsOf(list, i)
           /\ DistinctIds(list) /\ ~HasRow(list, r.id) => DistinctIds(Append(list, r))
  <1> DEFINE l == Append(list, r)
  <1>1. /\ l \in Seq(R) /\ DOMAIN l = 1..(Len(list) + 1)
        /\ DOMAIN list = 1..Len(list) /\ Len(list) \in Nat
        /\ \A k \in DOMAIN list : l[k] = list[k]
        /\ l[Len(list) + 1] = r
    OBVIOUS
  <1> HIDE DEF l
  <1>2. \A x : (\E k \in DOMAIN l : l[k] = x) <=> x = r \/ \E k \in DOMAIN list : list[k] = x
    <2>1. ASSUME NEW k \in DOMAIN l
          PROVE  l[k] = r \/ \E m \in DOMAIN list : list[m] = l[k]
      <3>1. k = Len(list) + 1 \/ k \in DOMAIN list
        BY <1>1
      <3> QED
        BY <1>1, <3>1
    <2>2. \A k \in DOMAIN list : k \in DOMAIN l /\ l[k] = list[k]
      BY <1>1
    <2>3. Len(list) + 1 \in DOMAIN l
      BY <1>1
    <2> QED
      BY <1>1, <2>1, <2>2, <2>3
  <1>3. \A i : RowsOf(l, i) = IF i = r.id THEN RowsOf(list, i) \cup {r} ELSE RowsOf(list, i)
    <2> SUFFICES ASSUME NEW i
                 PROVE  RowsOf(l, i) = IF i = r.id THEN RowsOf(list, i) \cup {r} ELSE RowsOf(list, i)
      OBVIOUS
    <2>1. \A x : x \in RowsOf(l, i) <=> x.id = i /\ \E k \in DOMAIN l : l[k] = x
      BY <1>1, InRowsOf
    <2>2. \A x : x \in RowsOf(list, i) <=> x.id = i /\ \E k \in DOMAIN list : list[k] = x
      BY InRowsOf
    <2>3. \A x : x \in RowsOf(l, i) <=> (x = r /\ i = r.id) \/ x \in RowsOf(list, i)
      BY <1>2, <2>1, <2>2
    <2> QED
      BY <2>3
  <1>4. ASSUME DistinctIds(list), ~HasRow(list, r.id)
        PROVE  DistinctIds(l)
    <2> SUFFICES ASSUME NEW a \in DOMAIN l, NEW b \in DOMAIN l, l[a].id = l[b].id
                 PROVE  a = b
      BY DEF DistinctIds
    <2>1. \A k \in DOMAIN l : k = Len(list) + 1 \/ k \in DOMAIN list
      BY <1>1
    <2>2. \A k \in DOMAIN list : l[k].id # r.id
      BY <1>1, <1>4 DEF HasRow
    <2>3. \A j, k \in DOMAIN list : l[j].id = l[k].id => j = k
      BY <1>1, <1>4 DEF DistinctIds
    <2> QED
      BY <1>1, <2>1, <2>2, <2>3
  <1> QED
    BY <1>1, <1>3, <1>4 DEF l

(* retain_mut and filter                                                    *)
LEMMA RowRemoved ==
    ASSUME NEW R, NEW list \in Seq(R), NEW id
    PROVE  /\ WithoutRow(list, id) \in Seq(R)
           /\ \A i : RowsOf(WithoutRow(list, id), i) = IF i = id THEN {} ELSE RowsOf(list, i)
           /\ DistinctIds(list) => DistinctIds(WithoutRow(list, id))
  <1> DEFINE kept == {k \in DOMAIN list : list[k].id # id}
             l == Kept(list, kept)
  <1>1. kept \in SUBSET DOMAIN list /\ \A k : k \in kept <=> k \in DOMAIN list /\ list[k].id # id
    OBVIOUS
  <1>2. WithoutRow(list, id) = l
    BY DEF WithoutRow
  <1> HIDE DEF kept
  <1>3. /\ l \in Seq(R)
        /\ \A n \in DOMAIN l : Nth(kept, n) \in kept /\ l[n] = list[Nth(kept, n)]
        /\ \A n, m \in DOMAIN l : Nth(kept, n) = Nth(kept, m) => n = m
        /\ \A k \in kept : \E n \in DOMAIN l : Nth(kept, n) = k
    BY <1>1, KeptIs
  <1> HIDE DEF l
  <1>4. \A x : (\E n \in DOMAIN l : l[n] = x) <=> \E k \in kept : list[k] = x
    BY <1>3
  <1>5. \A i : RowsOf(l, i) = IF i = id THEN {} ELSE RowsOf(list, i)
    <2> SUFFICES ASSUME NEW i
                 PROVE  RowsOf(l, i) = IF i = id THEN {} ELSE RowsOf(list, i)
      OBVIOUS
    <2>1. \A x : x \in RowsOf(l, i) <=> x.id = i /\ \E k \in DOMAIN l : l[k] = x
      BY <1>3, InRowsOf
    <2>2. \A x : x \in RowsOf(list, i) <=> x.id = i /\ \E k \in DOMAIN list : list[k] = x
      BY InRowsOf
    <2>3. \A k : k \in kept <=> k \in DOMAIN list /\ list[k].id # id
      BY <1>1
    <2>4. ASSUME NEW x, x \in RowsOf(l, i)
          PROVE  i # id /\ x \in RowsOf(list, i)
      <3>1. PICK k \in kept : list[k] = x
        BY <1>4, <2>1, <2>4
      <3> QED
        BY <2>1, <2>2, <2>3, <2>4, <3>1
    <2>5. ASSUME NEW x, i # id, x \in RowsOf(list, i)
          PROVE  x \in RowsOf(l, i)
      <3>1. PICK k \in DOMAIN list : list[k] = x
        BY <2>2, <2>5
      <3>2. k \in kept
        BY <2>2, <2>3, <2>5, <3>1
      <3> QED
        BY <1>4, <2>1, <2>2, <2>5, <3>1, <3>2
    <2> QED
      BY <2>4, <2>5
  <1>6. ASSUME DistinctIds(list)
        PROVE  DistinctIds(l)
    <2>1. \A n \in DOMAIN l : Nth(kept, n) \in DOMAIN list
      BY <1>1, <1>3
    <2> QED
      BY <1>3, <1>6, <2>1 DEF DistinctIds
  <1> QED
    BY <1>2, <1>3, <1>5, <1>6

(* The row with an id gets another content.                                 *)
LEMMA RowReplaced ==
    ASSUME NEW R, NEW list \in Seq(R), NEW id, NEW d, HasRow(list, id), Redefinable(R, d)
    PROVE  /\ WithDef(list, id, d) \in Seq(R)
           /\ \A i : HasRow(WithDef(list, id, d), i) <=> HasRow(list, i)
           /\ DistinctIds(list) =>
                 /\ DistinctIds(WithDef(list, id, d))
                 /\ \A i : RowsOf(WithDef(list, id, d), i) = IF i = id THEN {Row(id, d)} ELSE RowsOf(list, i)
  <1> DEFINE f == FindRow(list, id)
             l == WithDef(list, id, d)
             r == Row(id, d)
  <1>1. DOMAIN list = 1..Len(list) /\ Len(list) \in Nat /\ \A k \in DOMAIN list : list[k] \in R
    BY InRowsOf
  <1>2. f \in DOMAIN list /\ list[f].id = id
    BY RowFound
  <1>a. l = [list EXCEPT ![f].def = d]
    BY DEF WithDef
  <1> HIDE DEF f, l
  <1>3. list[f] \in R
    BY <1>1, <1>2
  <1>4. [list[f] EXCEPT !.def = d] = r
    BY <1>2, <1>3 DEF Redefinable
  <1>5. r \in R
    BY <1>2, <1>3 DEF Redefinable
  <1>6. l = [list EXCEPT ![f] = r]
    BY <1>a, <1>2, <1>4
  <1>7. /\ l \in Seq(R) /\ DOMAIN l = DOMAIN list
        /\ \A k \in DOMAIN list : l[k] = IF k = f THEN r ELSE list[k]
    <2>1. f \in 1..Len(list)
      BY <1>1, <1>2
    <2> HIDE DEF l, r
    <2>2. l \in Seq(R) /\ Len(l) = Len(list)
          /\ \A k \in 1..Len(list) : l[k] = IF k = f THEN r ELSE list[k]
      BY <1>5, <1>6, <2>1, ExceptSeq
    <2>3. DOMAIN l = 1..Len(l)
      BY <2>2, LenProperties
    <2> QED
      BY <1>1, <2>2, <2>3
  <1>8. r.id = id /\ r.def = d
    BY DEF Row
  <1> HIDE DEF l, r
  <1>9. \A k \in DOMAIN list : l[k].id = list[k].id
    BY <1>2, <1>7, <1>8
  <1>10. \A i : HasRow(l, i) <=> HasRow(list, i)
    BY <1>7, <1>9 DEF HasRow
  <1>11. DistinctIds(list) => DistinctIds(l)
    BY <1>7, <1>9 DEF DistinctIds
  <1>12. ASSUME DistinctIds(list), NEW i
         PROVE  RowsOf(l, i) = IF i = id THEN {r} ELSE RowsOf(list, i)
    <2>1. \A x : x \in RowsOf(l, i) <=> x.id = i /\ \E k \in DOMAIN list : l[k] = x
      BY <1>7, InRowsOf
    <2>2. \A x : x \in RowsOf(list, i) <=> x.id = i /\ \E k \in DOMAIN list : list[k] = x
      BY InRowsOf
    <2>3. CASE i = id
      <3>1. \A k \in DOMAIN list : list[k].id = id => k = f
        BY <1>2, <1>12 DEF DistinctIds
      <3>2. \A x : x \in RowsOf(l, i) <=> x = r
        BY <1>2, <1>7, <1>8, <1>9, <2>1, <2>3, <3>1
      <3> QED
        BY <2>3, <3>2
    <2>4. CASE i # id
      <3>1. \A x : x \in RowsOf(l, i) <=> x \in RowsOf(list, i)
        BY <1>2, <1>7, <1>8, <2>1, <2>2, <2>4
      <3> QED
        BY <2>4, <3>1
    <2> QED
      BY <2>3, <2>4
  <1> QED
    BY <1>7, <1>10, <1>11, <1>12 DEF l, r, f

LEMMA RowsReplaced ==
    ASSUME NEW R, NEW list \in Seq(R), NEW id, NEW d, HasRow(list, id), Redefinable(R, d),
           DistinctIds(list), NEW i
    PROVE  RowsOf(WithDef(list, id, d), i) = IF i = id THEN {Row(id, d)} ELSE RowsOf(list, i)
  BY RowReplaced

(* Two lists with the same rows, none twice, are of one length.             *)
LEMMA SameRows ==
    ASSUME NEW R, NEW a \in Seq(R), NEW b \in Seq(R), DistinctIds(a), DistinctIds(b),
           \A i : RowsOf(a, i) = RowsOf(b, i)
    PROVE  Len(a) = Len(b) /\ RowsIn(a) = RowsIn(b)
  <1>1. ASSUME NEW x \in Seq(R), DistinctIds(x)
        PROVE  /\ Cardinality(RowsIn(x)) = Len(x)
               /\ \A r : r \in RowsIn(x) <=> r \in RowsOf(x, r.id)
    <2>1. DOMAIN x = 1..Len(x) /\ Len(x) \in Nat /\ x \in [1..Len(x) -> R] /\ \A k \in DOMAIN x : x[k] \in R
      BY <1>1, LenProperties
    <2>2. \A r : r \in RowsIn(x) <=> \E k \in 1..Len(x) : x[k] = r
      BY <2>1 DEF RowsIn
    <2>3. \A j, k \in 1..Len(x) : x[j] = x[k] => j = k
      BY <1>1, <2>1 DEF DistinctIds
    <2>4. PICK n, X : n \in Nat /\ n = Len(x) /\ X = RowsIn(x)
      BY <2>1
    <2>5. Cardinality(X) = n
      <3>1. x \in [1..n -> X]
        BY <2>1, <2>2, <2>4
      <3>2. x \in Surjection(1..n, X)
        BY <2>2, <2>4, <3>1 DEF Surjection
      <3>3. x \in Injection(1..n, X)
        BY <2>3, <2>4, <3>1 DEF Injection, IsInjective
      <3>4. IsFiniteSet(1..n) /\ Cardinality(1..n) = n
        <4>1. 1 \in Int /\ n \in Int
          BY <2>4
        <4>2. IsFiniteSet(1..n) /\ Cardinality(1..n) = IF 1 > n THEN 0 ELSE n - 1 + 1
          BY <4>1, FS_Interval
        <4> QED
          BY <2>4, <4>2
      <3> QED
        BY <3>2, <3>3, <3>4, FS_Surjection
    <2>6. ASSUME NEW r
          PROVE  r \in RowsIn(x) <=> r \in RowsOf(x, r.id)
      BY <2>1, <2>2 DEF RowsOf
    <2> QED
      BY <2>4, <2>5, <2>6
  <1>2. /\ Cardinality(RowsIn(a)) = Len(a) /\ Cardinality(RowsIn(b)) = Len(b)
        /\ \A r : r \in RowsIn(a) <=> r \in RowsOf(a, r.id)
        /\ \A r : r \in RowsIn(b) <=> r \in RowsOf(b, r.id)
    BY <1>1
  <1>3. RowsIn(a) = RowsIn(b)
    BY <1>2
  <1> QED
    BY <1>2, <1>3
================================================================================
