-------------------------- MODULE MCClusterLifecycle --------------------------
(* One cluster with a master and a worker, and requests in every order.      *)
EXTENDS ClusterLifecycle, TLC

CONSTANTS c1, m1, w1, w2, h1, h2

R(k, n) == [kind |-> k, name |-> c1, node |-> n]

\* A node is added, changed or deleted while another one is, or the same one;
\* or one is added that has the name of the one that is deleted.
NodePairs ==
    {{R("add", w2), R("deleteNode", w1)},
     {R("add", w1), R("deleteNode", w1)},
     {R("add", w2), R("change", w1)},
     {R("add", w1), R("change", w1)},
     {R("change", w1), R("deleteNode", w1)}}

\* The log is cleared while requests fail or are refused.
ClearPairs == {{R("clear", m1), R("change", w1)}, {R("clear", m1), R("deleteNode", m1)}}

\* One node is deleted after the other, to the last one.
LastNodeRequests == {R("deleteNode", w1), R("deleteNode", m1)}

\* Clusters come and go while their records are edited.
ClusterRequests == {R("create", m1), R("delete", m1), R("edit", m1)}

AllScenarios ==
    {[requests |-> pair, kills |-> 0] : pair \in NodePairs \cup ClearPairs}
    \cup
    {[requests |-> LastNodeRequests, kills |-> 1],
     [requests |-> ClusterRequests, kills |-> 1]}

TwoNodes == [n \in NodeNames |-> IF n = w2 THEN 0 ELSE 1]

LastNodeScenario == {[requests |-> LastNodeRequests, kills |-> 0]}
===============================================================================
