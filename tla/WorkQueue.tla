------------------------------ MODULE WorkQueue ------------------------------
(* What the operator's channel and worker thread promise to the handlers:   *)
(* accepted jobs are taken one at a time, each once, in the order in which  *)
(* they were accepted, until the worker is gone for good.                   *)
EXTENDS Sequences

CONSTANT Jobs

VARIABLES waiting,   \* accepted and not taken yet, oldest first
          taken,     \* taken by the worker, in order
          open       \* whether there still is a worker

vars == <<waiting, taken, open>>

Init ==
    /\ waiting = <<>>
    /\ taken = <<>>
    /\ open = TRUE

Accept(j) ==
    /\ open
    /\ waiting' = Append(waiting, j)
    /\ UNCHANGED <<taken, open>>

Take ==
    /\ open
    /\ waiting # <<>>
    /\ taken' = Append(taken, Head(waiting))
    /\ waiting' = Tail(waiting)
    /\ UNCHANGED open

Close ==
    /\ open' = FALSE
    /\ UNCHANGED <<waiting, taken>>

Next == Take \/ Close \/ \E j \in Jobs : Accept(j)

Spec == Init /\ [][Next]_vars
==============================================================================
