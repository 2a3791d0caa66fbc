------------------------------ MODULE Operator ------------------------------
(***************************************************************************)
(* core/src/operator.rs: the handlers of the web server hand events to one *)
(* worker thread through a bounded channel.  A handler first changes the   *)
(* database (the mark: status Pending, a node lock, ...) and then sends,   *)
(* and waits in send while the channel is full.  The worker polls, runs    *)
(* the dispatcher on one event at a time, and sleeps when it finds nothing;*)
(* only after a sleep does it look whether it has to stop.  Dropping the   *)
(* operator raises that flag and joins the thread.  A panic in a use case  *)
(* ends the thread, and the receiving end of the channel with it.          *)
(***************************************************************************)
EXTENDS Naturals, Sequences, SequencesExt

CONSTANTS Requests,   \* calls of the five handlers that end in a send
          Capacity,   \* of the channel: 10 in the code
          Idle        \* the worker runs no event

ASSUME CapacityAssumption == Capacity \in Nat \ {0}
ASSUME IdleAssumption     == Idle \notin Requests

VARIABLES handler,    \* how far each call is
          queue,      \* the channel
          worker,     \* what the worker thread is doing
          current,    \* the event the worker runs, or Idle
          shutdown,   \* the flag of the operator
          owner       \* "serving", "dropping" the operator, "joined", "panicked"

VARIABLES taken,      \* history: the events received, in order
          late        \* history: the events sent during the worker's last sleep

channelVars == <<handler, queue, worker, current, shutdown, owner, taken, late>>

Gone == {"exited", "panicked"}

ChannelTypeOK ==
    /\ handler \in [Requests -> {"new", "marked", "accepted", "failed"}]
    /\ queue \in Seq(Requests) /\ Len(queue) <= Capacity
    /\ worker \in {"poll", "dispatch", "sleep"} \cup Gone
    /\ current \in Requests \cup {Idle}
    /\ shutdown \in BOOLEAN
    /\ owner \in {"serving", "dropping", "joined", "panicked"}
    /\ taken \in Seq(Requests)
    /\ late \in SUBSET Requests

ChannelInit ==
    /\ handler = [r \in Requests |-> "new"]
    /\ queue = <<>>
    /\ worker = "poll"
    /\ current = Idle
    /\ shutdown = FALSE
    /\ owner = "serving"
    /\ taken = <<>>
    /\ late = {}

Handle(r, from, to) ==
    /\ handler[r] = from
    /\ handler' = [handler EXCEPT ![r] = to]
-----------------------------------------------------------------------------
\* The handler has saved its change of the database.
Mark(r) ==
    /\ owner = "serving"
    /\ Handle(r, "new", "marked")
    /\ UNCHANGED <<queue, worker, current, shutdown, owner, taken, late>>

\* The cluster exists already or does not exist, or the repository fails.
Reject(r) ==
    /\ owner = "serving"
    /\ Handle(r, "new", "failed")
    /\ UNCHANGED <<queue, worker, current, shutdown, owner, taken, late>>

Send(r) ==
    /\ worker \notin Gone
    /\ Len(queue) < Capacity
    /\ Handle(r, "marked", "accepted")
    /\ queue' = Append(queue, r)
    /\ late' = IF worker = "sleep" THEN late \cup {r} ELSE late
    /\ UNCHANGED <<worker, current, shutdown, owner, taken>>

\* Mutant: the receiving end outlives a panic of the worker.
SendFails_NotAfterPanic(r) ==
    /\ worker = "exited"
    /\ Handle(r, "marked", "failed")
    /\ UNCHANGED <<queue, worker, current, shutdown, owner, taken, late>>

SendFails(r) ==
    /\ worker \in Gone
    /\ Handle(r, "marked", "failed")
    /\ UNCHANGED <<queue, worker, current, shutdown, owner, taken, late>>
-----------------------------------------------------------------------------
\* Mutant: the newest event is served first.
Receive_Newest ==
    /\ worker = "poll"
    /\ queue # <<>>
    /\ worker' = "dispatch"
    /\ current' = Last(queue)
    /\ queue' = Front(queue)
    /\ taken' = Append(taken, Last(queue))
    /\ UNCHANGED <<handler, shutdown, owner, late>>

Receive ==
    /\ worker = "poll"
    /\ queue # <<>>
    /\ worker' = "dispatch"
    /\ current' = Head(queue)
    /\ queue' = Tail(queue)
    /\ taken' = Append(taken, Head(queue))
    /\ UNCHANGED <<handler, shutdown, owner, late>>

FindNothing ==
    /\ worker = "poll"
    /\ queue = <<>>
    /\ worker' = "sleep"
    /\ late' = {}
    /\ UNCHANGED <<handler, queue, current, shutdown, owner, taken>>

\* Mutant: the worker does not go back to the channel.
WakeUp_SleepsOn ==
    /\ worker = "sleep"
    /\ worker' = IF shutdown THEN "exited" ELSE "sleep"
    /\ UNCHANGED <<handler, queue, current, shutdown, owner, taken, late>>

\* The end of the sleep, and the look at the flag.
WakeUp ==
    /\ worker = "sleep"
    /\ worker' = IF shutdown THEN "exited" ELSE "poll"
    /\ UNCHANGED <<handler, queue, current, shutdown, owner, taken, late>>

\* Mutant: the flag is looked at after every event.
Dispatched_ChecksFlag ==
    /\ worker = "dispatch"
    /\ worker' = IF shutdown THEN "exited" ELSE "poll"
    /\ current' = Idle
    /\ UNCHANGED <<handler, queue, shutdown, owner, taken, late>>

\* The dispatcher returns; what it returns is only logged.
Dispatched ==
    /\ worker = "dispatch"
    /\ worker' = "poll"
    /\ current' = Idle
    /\ UNCHANGED <<handler, queue, shutdown, owner, taken, late>>

\* For one, is_file_exists of the SSH client unwraps the start of SFTP.
Panic ==
    /\ worker = "dispatch"
    /\ worker' = "panicked"
    /\ current' = Idle
    /\ UNCHANGED <<handler, queue, shutdown, owner, taken, late>>
-----------------------------------------------------------------------------

\* The server lets go of the operator: no handler that borrows it is running.
Drop ==
    /\ owner = "serving"
    /\ \A r \in Requests : handler[r] # "marked"
    /\ owner' = "dropping"
    /\ shutdown' = TRUE
    /\ UNCHANGED <<handler, queue, worker, current, taken, late>>

\* join() returns when the thread is over; expect() panics when it panicked.
Join ==
    /\ owner = "dropping"
    /\ worker \in Gone
    /\ owner' = IF worker = "exited" THEN "joined" ELSE "panicked"
    /\ UNCHANGED <<handler, queue, worker, current, shutdown, taken, late>>

Deliver(r) == Send(r) \/ SendFails(r)
Work       == Receive \/ FindNothing \/ WakeUp \/ Dispatched \/ Panic

ChannelNext ==
    \/ \E r \in Requests : Mark(r) \/ Reject(r) \/ Deliver(r)
    \/ Work
    \/ Drop \/ Join

(* The threads run.  A dispatch ends: the retries of the use cases are      *)
(* bounded and the calls to Proxmox and over SSH are assumed to return.     *)
ChannelFairness ==
    /\ WF_channelVars(Work)
    /\ \A r \in Requests : WF_channelVars(Deliver(r))
    /\ WF_channelVars(Join)

ChannelSpec == ChannelInit /\ [][ChannelNext]_channelVars /\ ChannelFairness
-----------------------------------------------------------------------------
\* The events that went into the channel, in order.
Accepted == taken \o queue

(* A request that was accepted is in the channel or was taken, and only     *)
(* such requests are.                                                       *)
AcceptedOnce ==
    /\ \A r \in Requests : handler[r] = "accepted" <=> r \in ToSet(Accepted)
    /\ IsInjective(Accepted)

(* An orderly stop loses only what was sent during the last sleep of the    *)
(* worker: whatever it could have seen before, it ran.                      *)
StopLosesOnlyLate ==
    worker \in {"sleep", "exited"} => \A i \in 1..Len(queue) : queue[i] \in late

(* The channel never holds more than its capacity, and what goes through it *)
(* is neither lost nor repeated, up to an orderly stop.                     *)
OperatorInv == ChannelTypeOK /\ AcceptedOnce /\ StopLosesOnlyLate

(* Every accepted event is run, unless the worker stops or panics first.    *)
AcceptedIsTaken ==
    \A r \in Requests :
        handler[r] = "accepted" ~> r \in ToSet(taken) \/ worker \in Gone

(* A handler does not wait in send for ever, a full channel, a panic and a  *)
(* shutdown notwithstanding.                                                *)
SendReturns ==
    \A r \in Requests : handler[r] = "marked" ~> handler[r] \in {"accepted", "failed"}

(* Dropping the operator ends. *)
DropReturns == owner = "dropping" ~> owner \in {"joined", "panicked"}

(* Nobody hangs: neither a handler in send nor the owner in drop.           *)
CallsReturn == SendReturns /\ DropReturns
-----------------------------------------------------------------------------
Queue ==
    INSTANCE WorkQueue
    WITH Jobs <- Requests, waiting <- queue, open <- worker \notin Gone

(* The channel and the polling thread are a work queue. *)
RefinesQueue == Queue!Spec
=============================================================================
