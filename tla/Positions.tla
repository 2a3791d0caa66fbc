------------------------------- MODULE Positions -------------------------------
(* Positions in a list, in their order: with them `find`, `findIndex`,       *)
(* `filter` and `retain_mut` can be reasoned about, which SelectInSeq and    *)
(* SelectSeq cannot (PositionsProofs).                                       *)
EXTENDS Naturals, Sequences, FiniteSets

\* The n-th of some positions
Nth(S, n) == CHOOSE i \in S : Cardinality({j \in S : j <= i}) = n

\* What a list has at some positions
Kept(list, S) == [n \in 1..Cardinality(S) |-> list[Nth(S, n)]]

\* Rows that have an id, as Helm apps and workloads are: `some`, the first of
\* them, and `filter`
HasRow(list, id)     == \E i \in DOMAIN list : list[i].id = id
FindRow(list, id)    == Nth({i \in DOMAIN list : list[i].id = id}, 1)
WithoutRow(list, id) == Kept(list, {i \in DOMAIN list : list[i].id # id})
================================================================================
