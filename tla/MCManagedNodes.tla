---------------------------- MODULE MCManagedNodes ----------------------------
(* Two clusters with a master each, one of them with a worker, too.          *)
EXTENDS ManagedNodes

CONSTANTS a, b, m, w

\* The user comes back to a page, or makes two requests.
MCBounds == {[visits |-> 2, edits |-> 1, fails |-> 1],
             [visits |-> 1, edits |-> 2, fails |-> 0]}

MCInitial == a :> <<m, w>> @@ b :> <<m>>
=============================================================================
