----------------------------- MODULE Hypervisor -----------------------------
(***************************************************************************)
(* Proxmox as makoon uses it (external).  A VM id holds no VM, one that    *)
(* makoon made for a node, or a foreign one.  Most requests start a task   *)
(* that outlives them.  A new VM is "accepted" before it is listed, and    *)
(* "locked" and without its name while its disk is imported, which may     *)
(* fail; the other tasks do what was asked, at some time.  Any request may *)
(* fail, and any answer may be lost: the effect is there, and makoon sees  *)
(* an error.                                                               *)
(***************************************************************************)
CONSTANTS Nodes,     \* the nodes of a cluster; a node's VM id is fixed
          Foreign    \* somebody else

ASSUME ForeignAssumption == Foreign \notin Nodes

NoVM == [state |-> "none"]

VM == [owner : Nodes \cup {Foreign},
       state : {"accepted", "locked", "stopped", "running"},
       task  : {"none", "shutdown", "stop", "start", "delete"},
       kube  : {"none", "installed", "ready"}, \* MicroK8s on the VM
       hosts : SUBSET Nodes]                   \* /etc/hosts of the VM

NewVM(n) ==
    [owner |-> n, state |-> "accepted", task |-> "none", kube |-> "none", hosts |-> {}]

ForeignVM == [NewVM(Foreign) EXCEPT !.state = "running"]

Listed(v) == v # NoVM /\ v.state # "accepted"
Named(v, n) == Listed(v) /\ v.state # "locked" /\ v.owner = n
Running(v) == v # NoVM /\ v.state = "running"

-----------------------------------------------------------------------------
(* The answers to a request about VM v: what becomes of v, and whether the  *)
(* caller sees success.                                                     *)
Answer(v, ok) == [vm |-> v, ok |-> ok]
Refused(v)    == {Answer(v, FALSE)}
Done(v, w)    == {Answer(w, TRUE), Answer(w, FALSE)} \cup Refused(v)

Usable(v) == v # NoVM /\ v.state \in {"stopped", "running"} /\ v.task # "delete"
AtRest(v) == Usable(v) /\ v.state = "stopped" /\ v.task = "none"

Task(v, t)  == Done(v, [v EXCEPT !.task = t])
Accepted(v) == Done(v, v)

CreateVM(v, n) == IF v = NoVM   THEN Done(v, NewVM(n))   ELSE Refused(v)
StartVM(v)     == IF AtRest(v)  THEN Task(v, "start")    ELSE Refused(v)
DeleteVM(v)    == IF AtRest(v)  THEN Task(v, "delete")   ELSE Refused(v)
Configure(v)   == IF Usable(v)  THEN Accepted(v)         ELSE Refused(v)
StopVM(v)      == IF Running(v) THEN Task(v, "stop")     ELSE Configure(v)
ShutdownVM(v)  == IF Running(v) THEN Task(v, "shutdown") ELSE Configure(v)

Answers(request, v, n) ==
    CASE request = "create"   -> CreateVM(v, n)
      [] request = "resize"   -> Configure(v)
      [] request = "config"   -> Configure(v)
      [] request = "start"    -> StartVM(v)
      [] request = "shutdown" -> ShutdownVM(v)
      [] request = "stop"     -> StopVM(v)
      [] request = "delete"   -> DeleteVM(v)

\* What a task leaves when it ends
Ended(v) ==
    CASE v.task = "delete"              -> {NoVM}
      [] v.task = "start"               -> {[v EXCEPT !.state = "running", !.task = "none"]}
      [] v.task \in {"shutdown", "stop"} -> {[v EXCEPT !.state = "stopped", !.task = "none"]}
      [] v.task = "none"                -> IF v.owner = Foreign THEN {NoVM} ELSE {}

\* What happens to a VM without makoon's doing.
Drifts(v) ==
    CASE v.state = "none"     -> {ForeignVM}
      [] v.state = "accepted" -> {NoVM, [v EXCEPT !.state = "locked"]}
      [] v.state = "locked"   -> {NoVM, [v EXCEPT !.state = "stopped"]}
      [] v.state \in {"stopped", "running"} -> Ended(v)
=============================================================================
