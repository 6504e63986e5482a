---------------------------- MODULE ServiceDeploy ----------------------------
(***************************************************************************)
(* The deploy path of one service: the dashboard that queues work, the      *)
(* deploy queue, the worker that ships, the watch sweep that runs beside    *)
(* it, the worker's restart, and the Swarm service all of them act on.      *)
(*                                                                          *)
(* Every write to Postgres, every call to Swarm and every queue operation   *)
(* is a step of its own, because the code awaits between them.  Two kinds   *)
(* of process ship images:                                                  *)
(*   - the worker of the deploy queue (concurrency 1), and                  *)
(*   - one branch of sweepWatch per watched deployment, which runs in the   *)
(*     schedule's own queue and does not wait for the deploy queue.         *)
(* They are the `runners' below.                                            *)
(***************************************************************************)
EXTENDS Integers, Sequences, FiniteSets, Lifecycle

CONSTANTS
    MaxDeployments,  \* bound: rows ever inserted in `deployments'
    MaxQueue,        \* bound: jobs waiting when a request is enqueued
    MaxCrashes,      \* bound: crashes of the worker process
    Requests         \* what the operator and the webhooks do in this instance

RequestKinds ==
    {"deploy", "rollback", "delete", "start", "stop", "restart", "lose"}

ASSUME BoundsAssumption ==
    /\ MaxDeployments \in Nat \ {0}
    /\ MaxQueue \in Nat
    /\ MaxCrashes \in Nat
    /\ Requests \subseteq RequestKinds

Ids     == 1..MaxDeployments    \* deployments, in the order of createdAt
NoId    == 0                    \* no deployment, no image
Worker  == 0                    \* the consumer of the deploy queue
Runners == {Worker} \cup Ids    \* runner d \in Ids: the watch branch of row d

VARIABLES
    service,      \* the row of `services'
    deployments,  \* the rows of `deployments', "absent" when there is none
    request,      \* request[d]: how far queueServiceDeploy got with row d
    deleting,     \* how far deleteService got
    queue,        \* jobs waiting on the deploy queue
    active,       \* the job the worker holds
    stalled,      \* the job a dead worker still holds the lock of
    run,          \* run[r]: the program counter and locals of runner r
    sweeping,     \* a sweep job runs on the watch queue
    process,      \* the worker process: down, recovering or up
    crashes,      \* how often it crashed
    swarm,        \* the Swarm service
    crashLoops,   \* rows since whose finishedAt at least two tasks failed
    clean         \* history: nothing yet set the row and Swarm apart

rows   == <<service, deployments>>
asked  == <<request, deleting>>
jobs   == <<queue, active, stalled>>
procs  == <<run, sweeping>>
worker == <<process, crashes>>
remote == <<swarm, crashLoops>>
vars   == <<rows, asked, jobs, procs, worker, remote, clean>>

-----------------------------------------------------------------------------
(* Types *)

InFlight == {"building", "deploying"}
Settled  == {"succeeded", "failed", "rolled_back", "reverted_by_watch"}

Deployment ==
    [ status  : {"absent", "queued"} \cup InFlight \cup Settled,
      trigger : {"manual", "rollback", "watch_revert"},
      image   : Ids \cup {NoId},        \* the image tag, named by the first
                                        \* deployment that built it
      watch   : {"none", "open", "elapsed"} ]   \* watchUntil: null, > now, <= now

Absent == [status |-> "absent", trigger |-> "manual", image |-> NoId, watch |-> "none"]

Service ==
    [ status  : RESOURCE_STATUSES \cup {"gone"},
      error   : BOOLEAN,
      current : Ids \cup {NoId} ]

Gone == [status |-> "gone", error |-> FALSE, current |-> NoId]

JobKinds == {"deploy", "rollback", "delete", "start", "stop", "restart"}

\* `arg' is a deployment, an image or nothing; `again' marks a job that was
\* already redelivered once after its worker died.
Job   == [kind : JobKinds, arg : Ids \cup {NoId}, again : BOOLEAN]
NoJob == [kind |-> "none", arg |-> NoId, again |-> FALSE]

NewJob(kind, arg) == [kind |-> kind, arg |-> arg, again |-> FALSE]

Counters ==
    JobKinds \cup
    { "idle",
      "building", "shipping", "verdict",               \* ship
      "accepted", "pointing", "clearing",              \* recordAcceptedService
      "refused", "crashing",                           \* recordRefusedService
      "failing", "marking",                            \* recordFailedService
      "erasing", "stuck",                              \* runServiceTeardown
      "started", "stopped",                            \* applyLifecycleAction
      "inspect", "looping", "reverting", "stranding", "reshipping" } \* sweepWatch

Locals == [pc : Counters, dep : Ids \cup {NoId}, image : Ids \cup {NoId}]
Idle   == [pc |-> "idle", dep |-> NoId, image |-> NoId]

Swarm ==
    [ exists   : BOOLEAN,
      image    : Ids \cup {NoId},
      replicas : {0, 1},
      previous : Ids \cup {NoId},   \* image of PreviousSpec
      before   : {0, 1},            \* replicas of PreviousSpec
      update   : {"none", "pending", "updating", "completed", "rolled_back"} ]
                                    \* UpdateStatus: absent on a create, and absent
                                    \* (pending) until Swarm takes an update up

NoSwarm == [exists |-> FALSE, image |-> NoId, replicas |-> 0,
            previous |-> NoId, before |-> 0, update |-> "none"]

TypeOK ==
    /\ service \in Service
    /\ deployments \in [Ids -> Deployment]
    /\ request \in [Ids -> {"none", "inserted", "marked"}]
    /\ deleting \in {"none", "marked"}
    /\ queue \in Seq(Job)
    /\ active \in Job \cup {NoJob}
    /\ stalled \in Job \cup {NoJob}
    /\ run \in [Runners -> Locals]
    /\ sweeping \in BOOLEAN
    /\ process \in {"down", "recovering", "patching", "up"}
    /\ crashes \in 0..MaxCrashes
    /\ swarm \in Swarm
    /\ crashLoops \subseteq Ids
    /\ clean \in BOOLEAN

-----------------------------------------------------------------------------
(* Helpers *)

Exists(d) == deployments[d].status # "absent"

\* The id the next INSERT gets.  A row of a deleted service violates the
\* foreign key, so nothing is inserted once the service is gone.
Fresh(d) ==
    /\ service.status # "gone"
    /\ ~Exists(d)
    /\ \A e \in Ids : e < d => Exists(e)

\* UPDATE ... WHERE id = d: no row, no effect.
Update(d, row) ==
    deployments' = IF Exists(d) THEN [deployments EXCEPT ![d] = row] ELSE deployments

SetStatus(d, status) == Update(d, [deployments[d] EXCEPT !.status = status])

UpdateService(row) ==
    service' = IF service.status = "gone" THEN service ELSE row

\* A runner moves on.
Goto(r, pc) == run' = [run EXCEPT ![r].pc = pc]

\* Mutant: a branch that throws leaves the sweep running.
EndHoldsSweep(r, threw) ==
    /\ run' = [run EXCEPT ![r] = Idle]
    /\ active' = IF r = Worker THEN NoJob ELSE active
    /\ UNCHANGED <<queue, stalled, sweeping>>

\* Its job or its branch is over: the worker's job leaves the queue; a sweep
\* ends with its last branch, or with the first branch that throws, since
\* Promise.all does not wait for the others.
End(r, threw) ==
    /\ run' = [run EXCEPT ![r] = Idle]
    /\ active' = IF r = Worker THEN NoJob ELSE active
    /\ sweeping' = IF r = Worker
                   THEN sweeping
                   ELSE /\ sweeping
                        /\ ~threw
                        /\ \E d \in Ids \ {r} : run[d].pc # "idle"
    /\ UNCHANGED <<queue, stalled>>

\* Only runDeploy catches: everything else just ends.
RunsDeploy(r) == r = Worker /\ active.kind = "deploy"

\* A runner is between its change to Swarm and the last of its writes.
Shipping(r) ==
    run[r].pc \in {"verdict", "accepted", "pointing", "clearing", "refused", "crashing",
                   "started", "stopped"}

Alone(r) == \A s \in Runners \ {r} : ~Shipping(s)

-----------------------------------------------------------------------------
(* The dashboard *)

\* queueServiceDeploy: insert the row, ...
RequestDeploy(d) ==
    /\ "deploy" \in Requests
    /\ Fresh(d)
    /\ deployments' = [deployments EXCEPT ![d] = [Absent EXCEPT !.status = "queued"]]
    /\ request' = [request EXCEPT ![d] = "inserted"]
    /\ UNCHANGED <<service, deleting, jobs, procs, worker, remote, clean>>

\* ... mark the service, ...
RequestMark(d) ==
    /\ request[d] = "inserted"
    /\ UpdateService(MarkDeploying(service))
    /\ request' = [request EXCEPT ![d] = "marked"]
    /\ UNCHANGED <<deployments, deleting, jobs, procs, worker, remote, clean>>

\* Mutant: the job is submitted twice.
RequestEnqueueTwice(d) ==
    /\ request[d] = "marked"
    /\ Len(queue) < MaxQueue
    /\ queue' = queue \o <<NewJob("deploy", d), NewJob("deploy", d)>>
    /\ request' = [request EXCEPT ![d] = "none"]
    /\ UNCHANGED <<rows, deleting, active, stalled, procs, worker, remote, clean>>

\* ... enqueue the job.
RequestEnqueue(d) ==
    /\ request[d] = "marked"
    /\ Len(queue) < MaxQueue
    /\ queue' = Append(queue, NewJob("deploy", d))
    /\ request' = [request EXCEPT ![d] = "none"]
    /\ UNCHANGED <<rows, deleting, active, stalled, procs, worker, remote, clean>>

\* The dashboard stops, or Redis refuses the job, before the last step.
RequestLost(d) ==
    /\ "lose" \in Requests
    /\ request[d] # "none"
    /\ request' = [request EXCEPT ![d] = "none"]
    /\ UNCHANGED <<rows, deleting, jobs, procs, worker, remote, clean>>

\* triggerRollback: any deployment of this service that has an image.
RequestRollback(d) ==
    /\ "rollback" \in Requests
    /\ deployments[d].image # NoId
    /\ Len(queue) < MaxQueue
    /\ queue' = Append(queue, NewJob("rollback", deployments[d].image))
    /\ UNCHANGED <<rows, asked, active, stalled, procs, worker, remote, clean>>

\* triggerLifecycle.
RequestLifecycle(action) ==
    /\ action \in Requests
    /\ service.status # "gone"
    /\ Len(queue) < MaxQueue
    /\ queue' = Append(queue, NewJob(action, NoId))
    /\ UNCHANGED <<rows, asked, active, stalled, procs, worker, remote, clean>>

\* deleteService: mark, then enqueue.
RequestDelete ==
    /\ "delete" \in Requests
    /\ service.status # "gone"
    /\ deleting = "none"
    /\ UpdateService(MarkDeleting(service))
    /\ deleting' = "marked"
    /\ UNCHANGED <<deployments, request, jobs, procs, worker, remote, clean>>

DeleteEnqueue ==
    /\ deleting = "marked"
    /\ Len(queue) < MaxQueue
    /\ queue' = Append(queue, NewJob("delete", NoId))
    /\ deleting' = "none"
    /\ UNCHANGED <<rows, request, active, stalled, procs, worker, remote, clean>>

Dashboard ==
    \/ \E d \in Ids : \/ RequestDeploy(d)
                      \/ RequestMark(d)
                      \/ RequestEnqueue(d)
                      \/ RequestLost(d)
                      \/ RequestRollback(d)
    \/ \E a \in {"start", "stop", "restart"} : RequestLifecycle(a)
    \/ RequestDelete
    \/ DeleteEnqueue

-----------------------------------------------------------------------------
(* The worker takes a job.  BullMQ hands the deploy queue's jobs out one at *)
(* a time, in order.                                                        *)

TakeJob ==
    /\ process = "up"
    /\ active = NoJob
    /\ queue # <<>>
    /\ active' = Head(queue)
    /\ queue' = Tail(queue)
    /\ run' = [run EXCEPT ![Worker] = [Idle EXCEPT !.pc = Head(queue).kind]]
    /\ UNCHANGED <<rows, asked, stalled, sweeping, worker, remote, clean>>

\* A step that fails before anything is written, or that nobody catches.
Fail(r) ==
    /\ End(r, TRUE)
    /\ UNCHANGED <<rows, asked, worker, remote, clean>>

\* runDeploy: the row is set to building.  It throws when the row is gone,
\* and when resolveRegistry does, which runs before the write and outside the
\* try.
StartDeploy(r) ==
    /\ run[r].pc = "deploy"
    /\ LET d == active.arg IN
       \/ Fail(r)
       \/ /\ Exists(d)
          /\ SetStatus(d, "building")
          /\ run' = [run EXCEPT ![r] = [pc |-> "building", dep |-> d, image |-> d]]
          /\ UNCHANGED <<service, asked, jobs, sweeping, worker, remote, clean>>

\* onImageResolved: the source is fetched and the image named, then built
\* and pushed.
ResolveImage(r) ==
    /\ run[r].pc = "building"
    /\ Update(run[r].dep, [deployments[run[r].dep] EXCEPT
                             !.status = "deploying", !.image = run[r].image])
    /\ Goto(r, "shipping")
    /\ UNCHANGED <<service, asked, jobs, sweeping, worker, remote, clean>>

\* redeployImage, for a rollback job or a watch branch: a new row that starts
\* at deploying.  Nothing in it catches, so a service or a registry that is
\* gone ends the job or the branch.
StartRedeploy(r) ==
    /\ run[r].pc \in {"rollback", "reshipping"}
    /\ LET image == IF r = Worker THEN active.arg ELSE run[r].image IN
       \/ Fail(r)
       \/ \E d \in Ids :
            /\ Fresh(d)
            /\ deployments' = [deployments EXCEPT ![d] =
                 [status  |-> "deploying",
                  trigger |-> IF r = Worker THEN "rollback" ELSE "watch_revert",
                  image   |-> image,
                  watch   |-> "none"]]
            /\ run' = [run EXCEPT ![r] = [pc |-> "shipping", dep |-> d, image |-> image]]
            /\ UNCHANGED <<service, asked, jobs, sweeping, worker, remote, clean>>

-----------------------------------------------------------------------------
(* ship: hand the spec to Swarm, wait for its verdict *)

\* deployService creates the Swarm service, or updates it when it exists.
Rollout(r) ==
    /\ run[r].pc = "shipping"
    /\ swarm' = IF swarm.exists
                THEN [exists |-> TRUE, image |-> run[r].image, replicas |-> 1,
                      previous |-> swarm.image, before |-> swarm.replicas,
                      update |-> "pending"]
                ELSE [NoSwarm EXCEPT !.exists = TRUE, !.image = run[r].image,
                                     !.replicas = 1]
    /\ Goto(r, "verdict")
    /\ clean' = (clean /\ Alone(r))
    /\ UNCHANGED <<rows, asked, jobs, sweeping, worker, crashLoops>>

\* Mutant: Swarm's own rollback counts as success, as its exit code 0 would.
AcceptedByExitCode == ~swarm.exists \/ swarm.update \in {"none", "pending", "completed", "rolled_back"}

\* isDeployAccepted: no update state, or a completed one.  A service that
\* vanished reads as no state.
Accepted == ~swarm.exists \/ swarm.update \in {"none", "pending", "completed"}

\* Mutant: the service is pointed at the row before the row is settled.
ReadVerdictPointFirst(r) ==
    /\ run[r].pc = "verdict"
    /\ Goto(r, IF Accepted THEN "pointing" ELSE "refused")
    /\ crashLoops' = crashLoops \ {run[r].dep}
    /\ clean' = (clean /\ swarm.update \notin {"pending", "updating"})
    /\ UNCHANGED <<rows, asked, jobs, sweeping, worker, swarm>>

\* awaitSwarmVerdict returns: it accepts, refuses, takes an update Swarm has
\* not begun for an accepted one, or gives up on an update that is still going
\* and takes that for a refusal.  finishedAt is now, so the failures counted
\* against this row start from here.
ReadVerdict(r) ==
    /\ run[r].pc = "verdict"
    /\ Goto(r, IF Accepted THEN "accepted" ELSE "refused")
    /\ crashLoops' = crashLoops \ {run[r].dep}
    /\ clean' = (clean /\ swarm.update \notin {"pending", "updating"})
    /\ UNCHANGED <<rows, asked, jobs, sweeping, worker, swarm>>

\* Mutant: runDeploy does not catch either.
ThrowUncaught(r) ==
    /\ run[r].pc \in {"building", "shipping", "verdict"}
    /\ clean' = (clean /\ run[r].pc # "verdict")
    /\ End(r, TRUE)
    /\ UNCHANGED <<rows, asked, worker, remote>>

\* Anything from the clone to the read of the running node can throw: SSH,
\* the build, the push, the Docker API, a create that never converges.
Throw(r) ==
    /\ run[r].pc \in {"building", "shipping", "verdict"}
    /\ clean' = (clean /\ run[r].pc # "verdict")
    /\ \/ /\ RunsDeploy(r)
          /\ Goto(r, "failing")
          /\ UNCHANGED <<jobs, sweeping>>
       \/ ~RunsDeploy(r) /\ End(r, TRUE)
    /\ UNCHANGED <<rows, asked, worker, remote>>

-----------------------------------------------------------------------------
(* recordAcceptedService, recordRefusedService, recordFailedService *)

RecordSucceeded(r) ==
    /\ run[r].pc = "accepted"
    /\ Update(run[r].dep, [deployments[run[r].dep] EXCEPT
                             !.status = "succeeded", !.watch = "open"])
    /\ Goto(r, "pointing")
    /\ UNCHANGED <<service, asked, jobs, sweeping, worker, remote, clean>>

RecordCurrent(r) ==
    /\ run[r].pc = "pointing"
    /\ UpdateService([service EXCEPT !.current = run[r].dep, !.status = "running"])
    /\ Goto(r, "clearing")
    /\ UNCHANGED <<deployments, asked, jobs, sweeping, worker, remote, clean>>

\* Mutant: only the watch of the row the service pointed at before is closed,
\* and by now it points at this one.
ClearCurrentWatch(r) ==
    /\ run[r].pc = "clearing"
    /\ deployments' = [d \in Ids |->
         IF d # run[r].dep /\ d = service.current
         THEN [deployments[d] EXCEPT !.watch = "none"] ELSE deployments[d]]
    /\ End(r, FALSE)
    /\ UNCHANGED <<service, asked, worker, remote, clean>>

ClearSupersededWatch(r) ==
    /\ run[r].pc = "clearing"
    /\ deployments' = [d \in Ids |->
         IF d = run[r].dep THEN deployments[d]
                           ELSE [deployments[d] EXCEPT !.watch = "none"]]
    /\ End(r, FALSE)
    /\ UNCHANGED <<service, asked, worker, remote, clean>>

RecordRolledBack(r) ==
    /\ run[r].pc = "refused"
    /\ SetStatus(run[r].dep, "rolled_back")
    /\ Goto(r, "crashing")
    /\ UNCHANGED <<service, asked, jobs, sweeping, worker, remote, clean>>

RecordCrashed(r) ==
    /\ run[r].pc = "crashing"
    /\ UpdateService([service EXCEPT !.status = "crashed"])
    /\ End(r, FALSE)
    /\ UNCHANGED <<deployments, asked, worker, remote, clean>>

RecordFailed(r) ==
    /\ run[r].pc = "failing"
    /\ SetStatus(run[r].dep, "failed")
    /\ Goto(r, "marking")
    /\ UNCHANGED <<service, asked, jobs, sweeping, worker, remote, clean>>

RecordFailedService(r) ==
    /\ run[r].pc = "marking"
    /\ UpdateService(MarkCrashed(service))
    /\ End(r, TRUE)
    /\ UNCHANGED <<deployments, asked, worker, remote, clean>>

Ship(r) ==
    \/ ResolveImage(r) \/ Rollout(r) \/ ReadVerdict(r) \/ Throw(r)
    \/ RecordSucceeded(r) \/ RecordCurrent(r) \/ ClearSupersededWatch(r)
    \/ RecordRolledBack(r) \/ RecordCrashed(r)
    \/ RecordFailed(r) \/ RecordFailedService(r)

-----------------------------------------------------------------------------
(* runServiceTeardown *)

\* The Swarm service goes first; a service row that is already gone ends it.
RemoveSwarm(r) ==
    /\ run[r].pc = "delete"
    /\ \/ /\ service.status = "gone"
          /\ End(r, FALSE)
          /\ UNCHANGED remote
       \/ /\ service.status # "gone"
          /\ swarm' = NoSwarm
          /\ crashLoops' = {}
          /\ Goto(r, "erasing")
          /\ UNCHANGED <<jobs, sweeping>>
    /\ UNCHANGED <<rows, asked, worker, clean>>

\* The row and, by cascade, its deployments.
EraseRow(r) ==
    /\ run[r].pc = "erasing"
    /\ service' = Gone
    /\ deployments' = [d \in Ids |-> Absent]
    /\ End(r, FALSE)
    /\ UNCHANGED <<asked, worker, remote, clean>>

\* Mutant: a teardown that fails says nothing.
TeardownThrowsSilently(r) ==
    /\ run[r].pc = "delete"
    /\ service.status # "gone"
    /\ End(r, TRUE)
    /\ UNCHANGED <<rows, asked, worker, remote, clean>>

TeardownThrows(r) ==
    /\ run[r].pc = "delete"
    /\ service.status # "gone"
    /\ Goto(r, "stuck")
    /\ UNCHANGED <<rows, asked, jobs, sweeping, worker, remote, clean>>

RecordStuck(r) ==
    /\ run[r].pc = "stuck"
    /\ UpdateService(MarkStuck(service))
    /\ End(r, TRUE)
    /\ UNCHANGED <<deployments, asked, worker, remote, clean>>

Teardown(r) == RemoveSwarm(r) \/ EraseRow(r) \/ TeardownThrows(r) \/ RecordStuck(r)

-----------------------------------------------------------------------------
(* applyLifecycleAction *)

ReplicasFor(action) ==
    CASE action = "start"   -> 1
      [] action = "stop"    -> 0
      [] action = "restart" -> swarm.replicas

\* scaleService or restartService; a Swarm service that is not there, or one
\* that never runs a task, throws after the update was sent.
Scale(r) ==
    /\ run[r].pc \in {"start", "stop", "restart"}
    /\ \/ Fail(r)
       \/ /\ service.status # "gone"
          /\ swarm.exists
          /\ swarm' = [swarm EXCEPT !.replicas = ReplicasFor(run[r].pc),
                                    !.previous = swarm.image,
                                    !.before = swarm.replicas,
                                    !.update = IF run[r].pc = "restart"
                                               THEN "pending" ELSE "none"]
          /\ \/ Goto(r, IF run[r].pc = "stop" THEN "stopped" ELSE "started")
                /\ UNCHANGED <<jobs, sweeping>>
             \/ run[r].pc # "stop" /\ End(r, TRUE)
          /\ clean' = (clean /\ Alone(r))
          /\ UNCHANGED <<rows, asked, worker, crashLoops>>

\* start and stop write a status; restart only touches updatedAt.
RecordLifecycle(r) ==
    /\ run[r].pc \in {"started", "stopped"}
    /\ \/ active.kind = "stop" /\ UpdateService(MarkStopped(service))
       \/ active.kind = "start" /\ UpdateService(MarkRunning(service))
       \/ active.kind = "restart" /\ UNCHANGED service
    /\ End(r, FALSE)
    /\ UNCHANGED <<deployments, asked, worker, remote, clean>>

-----------------------------------------------------------------------------
(* sweepWatch *)

Watched(d) == deployments[d].status = "succeeded" /\ deployments[d].watch = "open"

\* One branch per watched deployment.  A sweep waits for the last one, unless
\* a branch of it threw; the model keeps one branch per row.
StartSweep ==
    /\ process = "up"
    /\ ~sweeping
    /\ \E d \in Ids : Watched(d) /\ run[d].pc = "idle"
    /\ run' = [r \in Runners |->
         IF r \in Ids /\ Watched(r) /\ run[r].pc = "idle"
         THEN [Idle EXCEPT !.pc = "inspect"] ELSE run[r]]
    /\ sweeping' = TRUE
    /\ UNCHANGED <<rows, asked, jobs, worker, remote, clean>>

\* inspectServiceHealth, by the service's name: two failures since this row's
\* finishedAt.
Inspect(d) ==
    /\ run[d].pc = "inspect"
    /\ \/ Fail(d)
       \/ d \in crashLoops /\ Goto(d, "looping") /\ UNCHANGED <<jobs, sweeping>>
       \/ d \notin crashLoops /\ End(d, FALSE)
    /\ UNCHANGED <<rows, asked, worker, remote, clean>>

\* The newest older deployment that still reads succeeded and has an image.
Older(d) ==
    {e \in Ids : e < d /\ deployments[e].status = "succeeded" /\ deployments[e].image # NoId}

FindPrevious(d) ==
    /\ run[d].pc = "looping"
    /\ \/ /\ Older(d) = {}
          /\ run' = [run EXCEPT ![d].pc = "reverting", ![d].image = NoId]
       \/ \E e \in Older(d) :
            /\ \A f \in Older(d) : f <= e
            /\ run' = [run EXCEPT ![d].pc = "reverting", ![d].image = deployments[e].image]
    /\ UNCHANGED <<rows, asked, jobs, sweeping, worker, remote, clean>>

RecordReverted(d) ==
    /\ run[d].pc = "reverting"
    /\ Update(d, [deployments[d] EXCEPT !.status = "reverted_by_watch", !.watch = "none"])
    /\ Goto(d, IF run[d].image = NoId THEN "stranding" ELSE "reshipping")
    /\ UNCHANGED <<service, asked, jobs, sweeping, worker, remote, clean>>

RecordStranded(d) ==
    /\ run[d].pc = "stranding"
    /\ UpdateService(MarkCrashed(service))
    /\ End(d, FALSE)
    /\ UNCHANGED <<deployments, asked, worker, remote, clean>>

Watch(d) == Inspect(d) \/ FindPrevious(d) \/ RecordReverted(d) \/ RecordStranded(d)

\* Five minutes pass.
WatchElapses(d) ==
    /\ deployments[d].watch = "open"
    /\ deployments' = [deployments EXCEPT ![d].watch = "elapsed"]
    /\ UNCHANGED <<service, asked, jobs, procs, worker, remote, clean>>

-----------------------------------------------------------------------------
(* The worker process dies and comes back *)

Crash ==
    /\ process # "down"
    /\ crashes < MaxCrashes
    /\ crashes' = crashes + 1
    /\ process' = "down"
    /\ run' = [r \in Runners |-> Idle]
    /\ sweeping' = FALSE
    /\ active' = NoJob
    /\ stalled' = IF active = NoJob \/ active.again THEN stalled ELSE active
    /\ clean' = FALSE
    /\ UNCHANGED <<rows, asked, queue, remote>>

\* Mutant: only deploying rows are failed.
RecoverDeploying ==
    /\ process = "down"
    /\ LET stale == {d \in Ids : deployments[d].status = "deploying"} IN
       /\ deployments' = [d \in Ids |->
            IF d \in stale THEN [deployments[d] EXCEPT !.status = "failed"]
                           ELSE deployments[d]]
       /\ process' = IF stale = {} THEN "up" ELSE "recovering"
    /\ UNCHANGED <<service, asked, jobs, procs, crashes, remote, clean>>

\* recoverStaleDeployments, before any consumer starts: fail what was in
\* flight, ...
RecoverDeployments ==
    /\ process = "down"
    /\ LET stale == {d \in Ids : deployments[d].status \in InFlight} IN
       /\ deployments' = [d \in Ids |->
            IF d \in stale THEN [deployments[d] EXCEPT !.status = "failed"]
                           ELSE deployments[d]]
       /\ process' = IF stale = {} THEN "up" ELSE "recovering"
    /\ UNCHANGED <<service, asked, jobs, procs, crashes, remote, clean>>

\* ... look at the service of each failed row, ...
RecoverLook ==
    /\ process = "recovering"
    /\ process' = IF service.status = "deploying" THEN "patching" ELSE "up"
    /\ UNCHANGED <<rows, asked, jobs, procs, crashes, remote, clean>>

\* ... and mark it.
RecoverService ==
    /\ process = "patching"
    /\ UpdateService(MarkCrashed(service))
    /\ process' = "up"
    /\ UNCHANGED <<deployments, asked, jobs, procs, crashes, remote, clean>>

\* Mutant: the returned job is not checked for.
StalledJobReturnsAlways ==
    /\ process = "up"
    /\ queue' = <<[stalled EXCEPT !.again = TRUE]>> \o queue
    /\ stalled' = NoJob
    /\ UNCHANGED <<rows, asked, active, procs, worker, remote, clean>>

\* BullMQ returns a job whose lock ran out to the head of the queue, once.
StalledJobReturns ==
    /\ process = "up"
    /\ stalled # NoJob
    /\ queue' = <<[stalled EXCEPT !.again = TRUE]>> \o queue
    /\ stalled' = NoJob
    /\ UNCHANGED <<rows, asked, active, procs, worker, remote, clean>>

Restart == RecoverDeployments \/ RecoverLook \/ RecoverService \/ StalledJobReturns

-----------------------------------------------------------------------------
(* Swarm *)

\* The orchestrator takes an update up.
SwarmBegins ==
    /\ swarm.update = "pending"
    /\ swarm' = [swarm EXCEPT !.update = "updating"]
    /\ UNCHANGED <<rows, asked, jobs, procs, worker, crashLoops, clean>>

\* The update converges, or Swarm goes back to PreviousSpec; a refused update
\* may leave enough failed tasks behind to look like a crash loop.
SwarmConverges ==
    /\ swarm.update = "updating"
    /\ swarm' = [swarm EXCEPT !.update = "completed"]
    /\ UNCHANGED <<rows, asked, jobs, procs, worker, crashLoops, clean>>

SwarmRollsBack ==
    /\ swarm.update = "updating"
    /\ swarm' = [swarm EXCEPT !.update = "rolled_back", !.image = swarm.previous,
                              !.replicas = swarm.before]
    /\ crashLoops' \in {crashLoops, Ids}
    /\ UNCHANGED <<rows, asked, jobs, procs, worker, clean>>

\* The running tasks fail twice.
TasksFail ==
    /\ swarm.exists
    /\ swarm.replicas = 1
    /\ crashLoops # Ids
    /\ crashLoops' = Ids
    /\ UNCHANGED <<rows, asked, jobs, procs, worker, swarm, clean>>

-----------------------------------------------------------------------------
Init ==
    /\ service = [status |-> "created", error |-> FALSE, current |-> NoId]
    /\ deployments = [d \in Ids |-> Absent]
    /\ request = [d \in Ids |-> "none"]
    /\ deleting = "none"
    /\ queue = <<>>
    /\ active = NoJob
    /\ stalled = NoJob
    /\ run = [r \in Runners |-> Idle]
    /\ sweeping = FALSE
    /\ process = "up"
    /\ crashes = 0
    /\ swarm = NoSwarm
    /\ crashLoops = {}
    /\ clean = TRUE

Step(r) ==
    \/ StartDeploy(r) \/ StartRedeploy(r) \/ Ship(r)
    \/ Teardown(r) \/ Scale(r) \/ RecordLifecycle(r)
    \/ r \in Ids /\ Watch(r)

Next ==
    \/ Dashboard
    \/ TakeJob
    \/ \E r \in Runners : Step(r)
    \/ StartSweep
    \/ \E d \in Ids : WatchElapses(d)
    \/ Crash
    \/ Restart
    \/ SwarmBegins \/ SwarmConverges \/ SwarmRollsBack \/ TasksFail

Spec == Init /\ [][Next]_vars

\* inspectServiceHealth got an answer from the Docker API.
Inspected(d) == Inspect(d) /\ (d \in crashLoops <=> run'[d].pc = "looping")

\* The processes run, and an inspection that is repeated every minute is
\* answered some time; the operator, the clock, crashes and failing tasks owe
\* nothing.
Fairness ==
    /\ WF_vars(TakeJob)
    /\ \A d \in Ids : SF_vars(Inspected(d))
    /\ \A r \in Runners : WF_vars(Step(r))
    /\ WF_vars(StartSweep)
    /\ WF_vars(Restart)
    /\ WF_vars(SwarmBegins \/ SwarmConverges \/ SwarmRollsBack)
    /\ WF_vars(DeleteEnqueue)
    /\ \A d \in Ids : WF_vars(RequestMark(d) \/ RequestEnqueue(d))

FairSpec == Spec /\ Fairness
-----------------------------------------------------------------------------
(* Properties *)

AllIdle == \A r \in Runners : run[r].pc = "idle"

\* The service points at a deployment that Swarm accepted: the rollback and
\* the dashboard start from that row.  It takes recordAcceptedService of two
\* runners, teardown and recovery together to break it.  A crash may put the
\* row back in flight, for the job is redelivered, but never leaves the
\* service pointing at a row without an image.
CurrentWasAccepted ==
    service.current # NoId =>
        /\ deployments[service.current].image # NoId
        /\ crashes = 0 =>
             deployments[service.current].status \in {"succeeded", "reverted_by_watch"}

\* Once every writer is done, at most one deployment of the service is
\* watched, although recordAcceptedService accepts one and closes the watch of
\* the others in separate statements that two runners may interleave.
OneWatched ==
    AllIdle /\ crashes = 0 => Cardinality({d \in Ids : deployments[d].watch = "open"}) <= 1

\* What the row says runs is what Swarm runs, in every quiet state that no
\* overlap of runners, crash, early or late verdict, or error after the change
\* to Swarm came before.
ServedIsRecorded ==
    clean /\ AllIdle /\ service.status = "running" =>
        /\ swarm.exists /\ swarm.replicas = 1
        /\ service.current # NoId
        /\ swarm.image = deployments[service.current].image

\* A settled row is history: only the watch reverts it, only the deletion of
\* the service removes it, and only after a crash may a redelivered job reopen
\* it, or a watch branch that read it before write over what that job wrote.
SettledStays ==
    \A d \in Ids :
        deployments[d].status \in Settled /\ deployments'[d].status # deployments[d].status =>
            \/ deployments[d].status = "succeeded" /\ deployments'[d].status = "reverted_by_watch"
            \/ deployments'[d].status = "absent" /\ service'.status = "gone"
            \/ /\ crashes > 0
               /\ run[d].pc = "reverting" \/ (active.kind = "deploy" /\ active.arg = d)

\* No step of the worker, of the sweep or of a request rewrites history but as
\* SettledStays says.
SettledIsFinal == [][SettledStays]_vars

\* A row that reads building is being built: the worker holds it, or the
\* worker is dead and its recovery has yet to fail the row.  So recovery,
\* redelivery, teardown and the catch of runDeploy leave none behind.
BuildingHasOwner ==
    \A d \in Ids : deployments[d].status = "building" =>
        run[Worker].dep = d \/ process = "down"

\* A deployment the worker started building settles, whatever crashes.
BuildingSettles ==
    \A d \in Ids :
        deployments[d].status = "building" ~>
            deployments[d].status \in Settled \cup {"absent"}

\* A delete that reached the queue removes the service or says why not, also
\* when the worker dies in the middle of it.
DeleteSettles ==
    ((\E i \in 1..Len(queue) : queue[i].kind = "delete") \/ active.kind = "delete") ~>
        (service.status = "gone" \/ IsStuckDeleting(service))

\* A crash loop inside the window of a watched deployment does not go
\* unanswered: the row is reverted, superseded, or its window closes, even
\* when branches of a sweep throw.
CrashLoopAnswered ==
    \A d \in Ids : (Watched(d) /\ d \in crashLoops) ~> ~(Watched(d) /\ d \in crashLoops)

-----------------------------------------------------------------------------
(* What the repository says and the code does not do *)

\* The delete dialog: the running container is stopped and removed.
NoOrphan == AllIdle /\ service.status = "gone" => ~swarm.exists
=============================================================================
