------------------------------ MODULE MCOperator ------------------------------
(* Four requests and a channel of two: the channel is full while two more    *)
(* handlers wait, and events are sent in every state of the worker.          *)
EXTENDS Operator
===============================================================================
