----------------------------- MODULE MCManagedApps -----------------------------
(* Two definitions of one release, which differ in their values.             *)
EXTENDS ManagedApps

CONSTANTS x, y

MCRelease(d) == "r"

\* The tab is left and opened again; or another definition is typed, and
\* something fails.
MCBounds == {[visits |-> 2, typed |-> {x}, fails |-> 0, fair |-> FALSE],
             [visits |-> 1, typed |-> {x, y}, fails |-> 1, fair |-> TRUE]}
=============================================================================
