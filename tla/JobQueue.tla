------------------------------ MODULE JobQueue ------------------------------
(***************************************************************************)
(* The deploy queue and the one worker process that consumes it, as the     *)
(* components with a queue of jobs of several kinds share them (Databases,  *)
(* Stacks, ImageRetention, Previews).  BullMQ hands jobs out first in,      *)
(* first out and one at a time (DEPLOY_QUEUE_CONCURRENCY = 1).  A job       *)
(* whose worker died comes back to the head of the queue when its lock      *)
(* runs out, and only once.  The dashboard adds jobs without retry          *)
(* options, so a job that throws is over.                                   *)
(*                                                                          *)
(* A job has a kind, one argument (a row, a password or nothing) and a mark *)
(* for having come back.                                                    *)
(***************************************************************************)
EXTENDS Integers, Sequences

CONSTANTS
    MaxQueue,     \* bound: jobs waiting when a request is enqueued
    MaxCrashes    \* bound: crashes of the worker process

ASSUME QueueAssumption == MaxQueue \in Nat /\ MaxCrashes \in Nat

VARIABLES
    queue,    \* jobs waiting on the deploy queue
    active,   \* the job the worker holds
    stalled,  \* jobs a dead worker still holds the lock of
    process,  \* the worker process: down, recovering or up
    crashes   \* how often it crashed

jobs   == <<queue, active, stalled>>
worker == <<process, crashes>>

NoJob == [kind |-> "none", arg |-> 0, again |-> FALSE]

JobsOK(kinds, args) ==
    LET Job == [kind : kinds, arg : args, again : BOOLEAN] IN
    /\ queue \in Seq(Job)
    /\ active \in Job \cup {NoJob}
    /\ stalled \subseteq Job
    /\ process \in {"down", "recovering", "up"}
    /\ crashes \in 0..MaxCrashes

QueueInit ==
    /\ queue = <<>>
    /\ active = NoJob
    /\ stalled = {}
    /\ process = "up"
    /\ crashes = 0

\* The worker has nothing to do and nothing will come back.
Quiet == process = "up" /\ active = NoJob /\ stalled = {} /\ queue = <<>>

\* Some job of this kind and argument is waiting, running or will come back.
Pending(kind, arg) ==
    \E job \in {active} \cup stalled \cup {queue[i] : i \in DOMAIN queue} :
        job.kind = kind /\ job.arg = arg

Enqueue(kind, arg) ==
    /\ Len(queue) < MaxQueue
    /\ queue' = Append(queue, [kind |-> kind, arg |-> arg, again |-> FALSE])
    /\ UNCHANGED <<active, stalled>>

Take ==
    /\ process = "up"
    /\ active = NoJob
    /\ queue # <<>>
    /\ active' = Head(queue)
    /\ queue' = Tail(queue)
    /\ UNCHANGED stalled

\* The job is over, whether its handler returned or threw.
Finish ==
    /\ active' = NoJob
    /\ UNCHANGED <<queue, stalled>>

Die ==
    /\ process # "down"
    /\ crashes < MaxCrashes
    /\ crashes' = crashes + 1
    /\ process' = "down"
    /\ active' = NoJob
    /\ stalled' = stalled \cup (IF active = NoJob \/ active.again THEN {} ELSE {active})
    /\ UNCHANGED queue

\* The lock runs out: 30 minutes after it was last renewed, with the other
\* jobs served in the meantime.
ComesBack ==
    /\ process = "up"
    /\ \E job \in stalled :
         /\ queue' = <<[job EXCEPT !.again = TRUE]>> \o queue
         /\ stalled' = stalled \ {job}
    /\ UNCHANGED active
=============================================================================
