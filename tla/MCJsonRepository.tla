--------------------------- MODULE MCJsonRepository ---------------------------
(* Two threads on one cluster with two possible bodies and one log entry:   *)
(* every overlap of load and save, every failure and restart, with the      *)
(* history of what has been saved.                                          *)
EXTENDS LostUpdates
===============================================================================
