------------------------------- MODULE MCSession -------------------------------
EXTENDS Session

CONSTANTS t1, t2

\* Two logins make a request of an old session meet a new one; two tabs share
\* the cookie of one.
MCBounds == {[opened |-> {t1}, logins |-> 2, restarts |-> 1, faults |-> 1, inFlight |-> 2],
             [opened |-> {t1, t2}, logins |-> 1, restarts |-> 1, faults |-> 0, inFlight |-> 1]}
=============================================================================
