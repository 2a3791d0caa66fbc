--------------------------- MODULE MCProvisioning ---------------------------
(* A cluster of a master and a worker, to which a second master may be       *)
(* added, and a cluster of all three, whose masters are deleted in turn.     *)
EXTENDS Provisioning

CONSTANTS m1, m2, w1

OneOrTwoMasters == {<<m1, w1>>, <<m1, m2, w1>>}

\* No host name is part of another one.
OwnLines == [n \in {m1, m2, w1} |-> {n}]

\* Bounds: three requests, or two and a kill; somebody else has the id of at
\* most one node.
Few ==
    /\ calls + crashes <= 3
    /\ Cardinality({n \in Nodes : vm[n] # NoVM /\ vm[n].owner = Foreign}) <= 1
=============================================================================
