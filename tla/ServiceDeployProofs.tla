------------------------ MODULE ServiceDeployProofs ------------------------
(***************************************************************************)
(* Theorems about ServiceDeploy, for any number of deployments, any queue   *)
(* bound, any number of crashes and any set of requests: first the types    *)
(* and who owns a build, then the history of the rows, the watch, the       *)
(* pointer of the service and what Swarm serves.                            *)
(***************************************************************************)
EXTENDS ServiceDeploy, FiniteSetTheorems, TLAPS

-----------------------------------------------------------------------------
(* The records the steps write have their types *)

\* The constant records are of their types.
LEMMA ConstantRecords ==
    /\ Absent \in Deployment
    /\ Gone \in Service
    /\ Idle \in Locals
    /\ NoSwarm \in Swarm
    /\ Worker \in Runners
    /\ Ids \subseteq Runners
BY DEF Absent, Deployment, Gone, Service, Idle, Locals, Counters, JobKinds, NoSwarm, Swarm,
       Worker, Runners, NoId, InFlight, Settled, RESOURCE_STATUSES

\* A new job is a job.
LEMMA NewJobType ==
    ASSUME NEW kind \in JobKinds, NEW arg \in Ids \cup {NoId}
    PROVE  NewJob(kind, arg) \in Job
BY DEF NewJob, Job

\* The status patches keep a service row a service row.
LEMMA PatchType ==
    ASSUME NEW row \in Service
    PROVE  /\ MarkDeploying(row) \in Service
           /\ MarkRunning(row) \in Service
           /\ MarkStopped(row) \in Service
           /\ MarkCrashed(row) \in Service
           /\ MarkDeleting(row) \in Service
           /\ MarkStuck(row) \in Service
BY DEF Service, RESOURCE_STATUSES, MarkDeploying, MarkRunning, MarkStopped, MarkCrashed,
       MarkDeleting, MarkStuck

\* What a runner holds: an id, or none, in both of its locals.
LEMMA LocalsType ==
    ASSUME NEW r \in Runners, run \in [Runners -> Locals]
    PROVE  /\ run[r].dep \in Ids \cup {NoId}
           /\ run[r].image \in Ids \cup {NoId}
BY DEF Locals

\* UPDATE ... WHERE id = d keeps the table a table, also for an id it has no
\* row of.
LEMMA UpdateType ==
    ASSUME NEW d, NEW row, d \in Ids => row \in Deployment,
           deployments \in [Ids -> Deployment], Update(d, row)
    PROVE  deployments' \in [Ids -> Deployment]
BY DEF Update

\* What the steps write to a row of `deployments' keeps it a row.
LEMMA RowType ==
    ASSUME NEW row \in Deployment, NEW status \in InFlight \cup Settled,
           NEW image \in Ids \cup {NoId}, NEW watch \in {"none", "open", "elapsed"}
    PROVE  /\ [row EXCEPT !.status = status] \in Deployment
           /\ [row EXCEPT !.watch = watch] \in Deployment
           /\ [row EXCEPT !.status = status, !.watch = watch] \in Deployment
           /\ [row EXCEPT !.status = status, !.image = image] \in Deployment
BY DEF Deployment

LEMMA SetStatusType ==
    ASSUME NEW d, NEW status \in InFlight \cup Settled,
           deployments \in [Ids -> Deployment], SetStatus(d, status)
    PROVE  deployments' \in [Ids -> Deployment]
<1>1. d \in Ids => [deployments[d] EXCEPT !.status = status] \in Deployment
  BY RowType
<1>2. QED
  BY <1>1, UpdateType DEF SetStatus

LEMMA UpdateServiceType ==
    ASSUME service \in Service, NEW row \in Service, UpdateService(row)
    PROVE  service' \in Service
BY DEF UpdateService

\* Moving a runner, and ending its job or branch, keep the types.
LEMMA GotoType ==
    ASSUME NEW r \in Runners, NEW pc \in Counters, run \in [Runners -> Locals], Goto(r, pc)
    PROVE  run' \in [Runners -> Locals]
BY DEF Goto, Locals

LEMMA EndType ==
    ASSUME NEW r \in Runners, NEW threw \in BOOLEAN, TypeOK, End(r, threw)
    PROVE  /\ run' \in [Runners -> Locals]
           /\ active' \in Job \cup {NoJob}
           /\ sweeping' \in BOOLEAN
           /\ queue' \in Seq(Job)
           /\ stalled' \in Job \cup {NoJob}
<1>1. Idle \in Locals
  BY ConstantRecords
<1>2. QED
  BY <1>1 DEF End, TypeOK

-----------------------------------------------------------------------------
(* Type correctness *)

LEMMA InitType == Init => TypeOK
<1> SUFFICES ASSUME Init
             PROVE  TypeOK
  OBVIOUS
<1>1. service \in Service
  BY DEF Init, Service, RESOURCE_STATUSES
<1>2. crashes \in 0..MaxCrashes
  BY BoundsAssumption DEF Init
<1>3. run \in [Runners -> Locals]
  BY ConstantRecords DEF Init
<1>4. queue \in Seq(Job)
  BY DEF Init
<1>5. swarm \in Swarm /\ deployments \in [Ids -> Deployment]
  BY ConstantRecords DEF Init
<1>6. QED
  BY <1>1, <1>2, <1>3, <1>4, <1>5 DEF Init, TypeOK

LEMMA TypeStep == TypeOK /\ [Next]_vars => TypeOK'
<1> SUFFICES ASSUME TypeOK, [Next]_vars
             PROVE  TypeOK'
  OBVIOUS
<1>1. ASSUME NEW d \in Ids, RequestDeploy(d)  PROVE TypeOK'
  BY <1>1, ConstantRecords DEF RequestDeploy, TypeOK, rows, asked, jobs, procs, worker, remote, Deployment
<1>2. ASSUME NEW d \in Ids, RequestMark(d)  PROVE TypeOK'
  BY <1>2, PatchType, UpdateServiceType DEF RequestMark, TypeOK, rows, asked, jobs, procs, worker, remote
<1>3. ASSUME NEW d \in Ids, RequestEnqueue(d)  PROVE TypeOK'
  BY <1>3, NewJobType DEF RequestEnqueue, TypeOK, rows, asked, jobs, procs, worker, remote, JobKinds
<1>4. ASSUME NEW d \in Ids, RequestLost(d)  PROVE TypeOK'
  BY <1>4 DEF RequestLost, TypeOK, rows, asked, jobs, procs, worker, remote
<1>5. ASSUME NEW d \in Ids, RequestRollback(d)  PROVE TypeOK'
  BY <1>5, NewJobType DEF RequestRollback, TypeOK, rows, asked, jobs, procs, worker, remote, JobKinds, Deployment
<1>6. ASSUME NEW a \in {"start", "stop", "restart"}, RequestLifecycle(a)  PROVE TypeOK'
  BY <1>6, NewJobType DEF RequestLifecycle, TypeOK, rows, asked, jobs, procs, worker, remote, JobKinds
<1>7. ASSUME RequestDelete  PROVE TypeOK'
  BY <1>7, PatchType, UpdateServiceType DEF RequestDelete, TypeOK, rows, asked, jobs, procs, worker, remote
<1>8. ASSUME DeleteEnqueue  PROVE TypeOK'
  BY <1>8, NewJobType DEF DeleteEnqueue, TypeOK, rows, asked, jobs, procs, worker, remote, JobKinds
<1>9. ASSUME TakeJob  PROVE TypeOK'
  <2>1. Head(queue) \in Job /\ Tail(queue) \in Seq(Job)
    BY <1>9 DEF TakeJob, TypeOK
  <2>2. [Idle EXCEPT !.pc = Head(queue).kind] \in Locals
    BY <2>1, ConstantRecords DEF Locals, Counters, Job
  <2>3. QED
    BY <1>9, <2>1, <2>2 DEF TakeJob, TypeOK, rows, asked, jobs, procs, worker, remote
<1>10. ASSUME NEW r \in Runners, StartDeploy(r)  PROVE TypeOK'
  <2> DEFINE d == active.arg
  <2>1. CASE Fail(r)
    BY <1>10, <2>1, EndType DEF Fail, TypeOK, rows, asked, jobs, procs, worker, remote
  <2>2. CASE /\ Exists(d)
             /\ SetStatus(d, "building")
             /\ run' = [run EXCEPT ![r] = [pc |-> "building", dep |-> d, image |-> d]]
             /\ UNCHANGED <<service, asked, jobs, sweeping, worker, remote, clean>>
    <3>1. d \in Ids \cup {NoId}
      BY DEF TypeOK, Job, NoJob
    <3>2. deployments' \in [Ids -> Deployment]
      BY <2>2, SetStatusType DEF TypeOK, InFlight
    <3>3. [pc |-> "building", dep |-> d, image |-> d] \in Locals
      BY <3>1 DEF Locals, Counters
    <3>4. QED
      BY <2>2, <3>2, <3>3 DEF TypeOK, rows, asked, jobs, procs, worker, remote
  <2>3. QED
    BY <1>10, <2>1, <2>2 DEF StartDeploy
<1>11. ASSUME NEW r \in Runners, StartRedeploy(r)  PROVE TypeOK'
  <2> DEFINE image == IF r = Worker THEN active.arg ELSE run[r].image
             row == [status  |-> "deploying",
                     trigger |-> IF r = Worker THEN "rollback" ELSE "watch_revert",
                     image   |-> image,
                     watch   |-> "none"]
  <2>1. CASE Fail(r)
    BY <1>11, <2>1, EndType DEF Fail, TypeOK, rows, asked, jobs, procs, worker, remote
  <2>2. ASSUME NEW d \in Ids,
               deployments' = [deployments EXCEPT ![d] = row],
               run' = [run EXCEPT ![r] = [pc |-> "shipping", dep |-> d, image |-> image]],
               UNCHANGED <<service, asked, jobs, sweeping, worker, remote, clean>>
        PROVE  TypeOK'
    <3>1. image \in Ids \cup {NoId}
      BY LocalsType DEF TypeOK, Job, NoJob
    <3>2. row \in Deployment
      BY <3>1 DEF Deployment, InFlight
    <3>3. [pc |-> "shipping", dep |-> d, image |-> image] \in Locals
      BY <3>1 DEF Locals, Counters
    <3>4. QED
      BY <2>2, <3>2, <3>3 DEF TypeOK, rows, asked, jobs, procs, worker, remote
  <2>3. QED
    BY <1>11, <2>1, <2>2 DEF StartRedeploy
<1>12. ASSUME NEW r \in Runners, ResolveImage(r)  PROVE TypeOK'
  <2>1. run[r].dep \in Ids => [deployments[run[r].dep] EXCEPT !.status = "deploying", !.image = run[r].image] \in Deployment
    <3>1. ASSUME run[r].dep \in Ids
          PROVE  deployments[run[r].dep] \in Deployment
      BY <3>1 DEF TypeOK
    <3>2. run[r].image \in Ids \cup {NoId}
      BY LocalsType DEF TypeOK
    <3>3. {"deploying", "succeeded"} \subseteq InFlight \cup Settled
      BY DEF InFlight, Settled
    <3>4. QED
      BY <3>1, <3>2, <3>3, RowType
  <2>2. deployments' \in [Ids -> Deployment]
    BY <1>12, <2>1, UpdateType DEF ResolveImage, TypeOK
  <2>3. run' \in [Runners -> Locals]
    BY <1>12, GotoType DEF ResolveImage, TypeOK, Counters
  <2>4. QED
    BY <1>12, <2>2, <2>3 DEF ResolveImage, TypeOK, rows, asked, jobs, procs, worker, remote
<1>13. ASSUME NEW r \in Runners, Rollout(r)  PROVE TypeOK'
  <2>1. swarm' \in Swarm
    BY <1>13, LocalsType DEF Rollout, TypeOK, Swarm, NoSwarm
  <2>2. run' \in [Runners -> Locals]
    BY <1>13, GotoType DEF Rollout, TypeOK, Counters
  <2>3. clean' \in BOOLEAN
    BY <1>13 DEF Rollout
  <2>4. QED
    BY <1>13, <2>1, <2>2, <2>3 DEF Rollout, TypeOK, rows, asked, jobs, procs, worker, remote
<1>14. ASSUME NEW r \in Runners, ReadVerdict(r)  PROVE TypeOK'
  <2>1. run' \in [Runners -> Locals]
    BY <1>14, GotoType DEF ReadVerdict, TypeOK, Counters
  <2>2. clean' \in BOOLEAN
    BY <1>14 DEF ReadVerdict
  <2>3. QED
    BY <1>14, <2>1, <2>2 DEF ReadVerdict, TypeOK, rows, asked, jobs, procs, worker, remote
<1>15. ASSUME NEW r \in Runners, Throw(r)  PROVE TypeOK'
  <2>1. clean' \in BOOLEAN
    BY <1>15 DEF Throw
  <2>2. CASE Goto(r, "failing") /\ UNCHANGED <<jobs, sweeping>>
    <3>1. run' \in [Runners -> Locals]
      BY <2>2, GotoType DEF TypeOK, Counters
    <3>2. QED
      BY <1>15, <2>1, <2>2, <3>1 DEF Throw, TypeOK, rows, asked, jobs, procs, worker, remote
  <2>3. CASE End(r, TRUE)
    BY <1>15, <2>1, <2>3, EndType DEF Throw, TypeOK, rows, asked, jobs, procs, worker, remote
  <2>4. QED
    BY <1>15, <2>2, <2>3 DEF Throw
<1>16. ASSUME NEW r \in Runners, RecordSucceeded(r)  PROVE TypeOK'
  <2>1. run[r].dep \in Ids => [deployments[run[r].dep] EXCEPT !.status = "succeeded", !.watch = "open"] \in Deployment
    <3>1. ASSUME run[r].dep \in Ids
          PROVE  deployments[run[r].dep] \in Deployment
      BY <3>1 DEF TypeOK
    <3>2. run[r].image \in Ids \cup {NoId}
      BY LocalsType DEF TypeOK
    <3>3. {"deploying", "succeeded"} \subseteq InFlight \cup Settled
      BY DEF InFlight, Settled
    <3>4. QED
      BY <3>1, <3>2, <3>3, RowType
  <2>2. deployments' \in [Ids -> Deployment]
    BY <1>16, <2>1, UpdateType DEF RecordSucceeded, TypeOK
  <2>3. run' \in [Runners -> Locals]
    BY <1>16, GotoType DEF RecordSucceeded, TypeOK, Counters
  <2>4. QED
    BY <1>16, <2>2, <2>3 DEF RecordSucceeded, TypeOK, rows, asked, jobs, procs, worker, remote
<1>17. ASSUME NEW r \in Runners, RecordCurrent(r)  PROVE TypeOK'
  <2>1. [service EXCEPT !.current = run[r].dep, !.status = "running"] \in Service
    BY LocalsType DEF TypeOK, Service, RESOURCE_STATUSES
  <2>2. service' \in Service
    BY <1>17, <2>1, UpdateServiceType DEF RecordCurrent, TypeOK
  <2>3. run' \in [Runners -> Locals]
    BY <1>17, GotoType DEF RecordCurrent, TypeOK, Counters
  <2>4. QED
    BY <1>17, <2>2, <2>3 DEF RecordCurrent, TypeOK, rows, asked, jobs, procs, worker, remote
<1>18. ASSUME NEW r \in Runners, ClearSupersededWatch(r)  PROVE TypeOK'
  <2>1. \A d \in Ids : [deployments[d] EXCEPT !.watch = "none"] \in Deployment
    <3>1. \A d \in Ids : deployments[d] \in Deployment
      BY DEF TypeOK
    <3>2. {} # InFlight \cup Settled /\ Ids # {}
      BY BoundsAssumption DEF InFlight, Ids
    <3>3. QED
      BY <3>1, <3>2, RowType
  <2>2. deployments' \in [Ids -> Deployment]
    BY <1>18, <2>1 DEF ClearSupersededWatch, TypeOK
  <2>3. QED
    BY <1>18, <2>2, EndType DEF ClearSupersededWatch, TypeOK, rows, asked, jobs, procs, worker, remote
<1>19. ASSUME NEW r \in Runners, RecordRolledBack(r)  PROVE TypeOK'
  <2>1. deployments' \in [Ids -> Deployment]
    BY <1>19, SetStatusType DEF RecordRolledBack, TypeOK, Settled
  <2>2. run' \in [Runners -> Locals]
    BY <1>19, GotoType DEF RecordRolledBack, TypeOK, Counters
  <2>3. QED
    BY <1>19, <2>1, <2>2 DEF RecordRolledBack, TypeOK, rows, asked, jobs, procs, worker, remote
<1>20. ASSUME NEW r \in Runners, RecordCrashed(r)  PROVE TypeOK'
  <2>1. [service EXCEPT !.status = "crashed"] \in Service
    BY DEF TypeOK, Service, RESOURCE_STATUSES
  <2>2. service' \in Service
    BY <1>20, <2>1, UpdateServiceType DEF RecordCrashed, TypeOK
  <2>3. QED
    BY <1>20, <2>2, EndType DEF RecordCrashed, TypeOK, rows, asked, jobs, procs, worker, remote
<1>21. ASSUME NEW r \in Runners, RecordFailed(r)  PROVE TypeOK'
  <2>1. deployments' \in [Ids -> Deployment]
    BY <1>21, SetStatusType DEF RecordFailed, TypeOK, Settled
  <2>2. run' \in [Runners -> Locals]
    BY <1>21, GotoType DEF RecordFailed, TypeOK, Counters
  <2>3. QED
    BY <1>21, <2>1, <2>2 DEF RecordFailed, TypeOK, rows, asked, jobs, procs, worker, remote
<1>22. ASSUME NEW r \in Runners, RecordFailedService(r)  PROVE TypeOK'
  <2>1. service' \in Service
    BY <1>22, PatchType, UpdateServiceType DEF RecordFailedService, TypeOK
  <2>2. QED
    BY <1>22, <2>1, EndType DEF RecordFailedService, TypeOK, rows, asked, jobs, procs, worker, remote
<1>23. ASSUME NEW r \in Runners, RemoveSwarm(r)  PROVE TypeOK'
  <2>1. CASE End(r, FALSE) /\ UNCHANGED remote
    BY <1>23, <2>1, EndType DEF RemoveSwarm, TypeOK, rows, asked, jobs, procs, worker, remote
  <2>2. CASE /\ swarm' = NoSwarm
             /\ crashLoops' = {}
             /\ Goto(r, "erasing")
             /\ UNCHANGED <<jobs, sweeping>>
    <3>1. run' \in [Runners -> Locals]
      BY <2>2, GotoType DEF TypeOK, Counters
    <3>2. QED
      BY <1>23, <2>2, <3>1, ConstantRecords DEF RemoveSwarm, TypeOK, rows, asked, jobs, procs, worker, remote
  <2>3. QED
    BY <1>23, <2>1, <2>2 DEF RemoveSwarm
<1>24. ASSUME NEW r \in Runners, EraseRow(r)  PROVE TypeOK'
  BY <1>24, EndType, ConstantRecords DEF EraseRow, TypeOK, rows, asked, jobs, procs, worker, remote
<1>25. ASSUME NEW r \in Runners, TeardownThrows(r)  PROVE TypeOK'
  <2>1. run' \in [Runners -> Locals]
    BY <1>25, GotoType DEF TeardownThrows, TypeOK, Counters
  <2>2. QED
    BY <1>25, <2>1 DEF TeardownThrows, TypeOK, rows, asked, jobs, procs, worker, remote
<1>26. ASSUME NEW r \in Runners, RecordStuck(r)  PROVE TypeOK'
  <2>1. service' \in Service
    BY <1>26, PatchType, UpdateServiceType DEF RecordStuck, TypeOK
  <2>2. QED
    BY <1>26, <2>1, EndType DEF RecordStuck, TypeOK, rows, asked, jobs, procs, worker, remote
<1>27. ASSUME NEW r \in Runners, Scale(r)  PROVE TypeOK'
  <2>1. CASE Fail(r)
    BY <1>27, <2>1, EndType DEF Fail, TypeOK, rows, asked, jobs, procs, worker, remote
  <2>2. CASE ~Fail(r)
    <3>1. swarm' \in Swarm
      <4>1. ReplicasFor(run[r].pc) \in {0, 1}
        BY <1>27 DEF Scale, ReplicasFor, TypeOK, Swarm
      <4>2. QED
        BY <1>27, <2>2, <4>1 DEF Scale, TypeOK, Swarm
    <3>2. clean' \in BOOLEAN
      BY <1>27, <2>2 DEF Scale
    <3>3. CASE /\ Goto(r, IF run[r].pc = "stop" THEN "stopped" ELSE "started")
               /\ UNCHANGED <<jobs, sweeping>>
      <4>1. run' \in [Runners -> Locals]
        BY <3>3, GotoType DEF TypeOK, Counters
      <4>2. QED
        BY <1>27, <2>2, <3>1, <3>2, <3>3, <4>1 DEF Scale, TypeOK, rows, asked, jobs, procs, worker, remote
    <3>4. CASE End(r, TRUE)
      BY <1>27, <2>2, <3>1, <3>2, <3>4, EndType DEF Scale, TypeOK, rows, asked, jobs, procs, worker, remote
    <3>5. QED
      BY <1>27, <2>2, <3>3, <3>4 DEF Scale
  <2>3. QED
    BY <2>1, <2>2
<1>28. ASSUME NEW r \in Runners, RecordLifecycle(r)  PROVE TypeOK'
  <2>1. service' \in Service
    BY <1>28, PatchType, UpdateServiceType DEF RecordLifecycle, TypeOK
  <2>2. QED
    BY <1>28, <2>1, EndType DEF RecordLifecycle, TypeOK, rows, asked, jobs, procs, worker, remote
<1>29. ASSUME StartSweep  PROVE TypeOK'
  <2>1. [Idle EXCEPT !.pc = "inspect"] \in Locals
    BY ConstantRecords DEF Locals, Counters
  <2>2. QED
    BY <1>29, <2>1 DEF StartSweep, TypeOK, rows, asked, jobs, procs, worker, remote
<1>30. ASSUME NEW d \in Ids, Inspect(d)  PROVE TypeOK'
  <2>1. d \in Runners
    BY ConstantRecords
  <2>2. CASE Goto(d, "looping") /\ UNCHANGED <<jobs, sweeping>>
    <3>1. run' \in [Runners -> Locals]
      BY <2>1, <2>2, GotoType DEF TypeOK, Counters
    <3>2. QED
      BY <1>30, <2>2, <3>1 DEF Inspect, TypeOK, rows, asked, jobs, procs, worker, remote
  <2>3. CASE End(d, TRUE) \/ End(d, FALSE)
    BY <1>30, <2>1, <2>3, EndType DEF Inspect, TypeOK, rows, asked, jobs, procs, worker, remote
  <2>4. QED
    BY <1>30, <2>2, <2>3 DEF Inspect, Fail
<1>31. ASSUME NEW d \in Ids, FindPrevious(d)  PROVE TypeOK'
  <2>1. d \in Runners
    BY ConstantRecords
  <2>2. ASSUME NEW image \in Ids \cup {NoId},
               run' = [run EXCEPT ![d].pc = "reverting", ![d].image = image]
        PROVE  run' \in [Runners -> Locals]
    BY <2>1, <2>2 DEF TypeOK, Locals, Counters
  <2>3. \A e \in Older(d) : deployments[e].image \in Ids \cup {NoId}
    BY DEF TypeOK, Deployment, Older
  <2>4. run' \in [Runners -> Locals]
    BY <1>31, <2>2, <2>3 DEF FindPrevious
  <2>5. QED
    BY <1>31, <2>4 DEF FindPrevious, TypeOK, rows, asked, jobs, procs, worker, remote
<1>32. ASSUME NEW d \in Ids, RecordReverted(d)  PROVE TypeOK'
  <2>1. d \in Runners
    BY ConstantRecords
  <2>2. [deployments[d] EXCEPT !.status = "reverted_by_watch", !.watch = "none"] \in Deployment
    <3>1. deployments[d] \in Deployment
      BY DEF TypeOK
    <3>2. "reverted_by_watch" \in InFlight \cup Settled
      BY DEF Settled
    <3>3. QED
      BY <3>1, <3>2, RowType
  <2>3. deployments' \in [Ids -> Deployment]
    BY <1>32, <2>2, UpdateType DEF RecordReverted, TypeOK
  <2>4. run' \in [Runners -> Locals]
    BY <1>32, <2>1, GotoType DEF RecordReverted, TypeOK, Counters
  <2>5. QED
    BY <1>32, <2>3, <2>4 DEF RecordReverted, TypeOK, rows, asked, jobs, procs, worker, remote
<1>33. ASSUME NEW d \in Ids, RecordStranded(d)  PROVE TypeOK'
  <2>1. service' \in Service
    BY <1>33, PatchType, UpdateServiceType DEF RecordStranded, TypeOK
  <2>2. QED
    BY <1>33, <2>1, EndType, ConstantRecords DEF RecordStranded, TypeOK, rows, asked, jobs, procs, worker, remote
<1>34. ASSUME NEW d \in Ids, WatchElapses(d)  PROVE TypeOK'
  BY <1>34 DEF WatchElapses, TypeOK, rows, asked, jobs, procs, worker, remote, Deployment
<1>35. ASSUME Crash  PROVE TypeOK'
  <2>1. crashes' \in 0..MaxCrashes
    BY <1>35, BoundsAssumption DEF Crash, TypeOK
  <2>2. QED
    BY <1>35, <2>1, ConstantRecords DEF Crash, TypeOK, rows, asked, jobs, procs, worker, remote
<1>36. ASSUME RecoverDeployments  PROVE TypeOK'
  BY <1>36 DEF RecoverDeployments, TypeOK, rows, asked, jobs, procs, worker, remote, Deployment, Settled
<1>37. ASSUME RecoverLook  PROVE TypeOK'
  BY <1>37 DEF RecoverLook, TypeOK, rows, asked, jobs, procs, worker, remote
<1>38. ASSUME RecoverService  PROVE TypeOK'
  BY <1>38, PatchType, UpdateServiceType DEF RecoverService, TypeOK, rows, asked, jobs, procs, worker, remote
<1>39. ASSUME StalledJobReturns  PROVE TypeOK'
  <2>1. stalled \in Job
    BY <1>39 DEF StalledJobReturns, TypeOK
  <2>2. [stalled EXCEPT !.again = TRUE] \in Job
    BY <2>1 DEF Job
  <2>3. <<[stalled EXCEPT !.again = TRUE]>> \in Seq(Job)
    BY <2>2
  <2>4. queue' \in Seq(Job)
    BY <1>39, <2>3 DEF StalledJobReturns, TypeOK
  <2>5. QED
    BY <1>39, <2>4 DEF StalledJobReturns, TypeOK, rows, asked, jobs, procs, worker, remote
<1>40. ASSUME SwarmBegins \/ SwarmConverges  PROVE TypeOK'
  BY <1>40 DEF SwarmBegins, SwarmConverges, TypeOK, rows, asked, jobs, procs, worker, remote, Swarm
<1>41. ASSUME SwarmRollsBack  PROVE TypeOK'
  BY <1>41 DEF SwarmRollsBack, TypeOK, rows, asked, jobs, procs, worker, remote, Swarm
<1>42. ASSUME TasksFail  PROVE TypeOK'
  BY <1>42 DEF TasksFail, TypeOK, rows, asked, jobs, procs, worker, remote
<1>43. CASE UNCHANGED vars
  BY <1>43 DEF vars, TypeOK, rows, asked, jobs, procs, worker, remote
<1>44. QED
  BY <1>1, <1>2, <1>3, <1>4, <1>5, <1>6, <1>7, <1>8, <1>9, <1>10, <1>11, <1>12, <1>13, <1>14, <1>15, <1>16, <1>17, <1>18, <1>19, <1>20, <1>21, <1>22, <1>23, <1>24, <1>25, <1>26, <1>27, <1>28, <1>29, <1>30, <1>31, <1>32, <1>33, <1>34, <1>35, <1>36, <1>37, <1>38, <1>39, <1>40, <1>41, <1>42, <1>43
     DEF Next, Dashboard, Step, Ship, Teardown, Watch, Restart

\* The specification keeps every variable in its type, whatever the bounds:
\* no step of the dashboard, the worker, the sweep, a restart or Swarm writes
\* a row, a job or a spec the code has no reading of.
THEOREM TypeCorrect == Spec => []TypeOK
<1>1. Init => TypeOK
  BY InitType
<1>2. TypeOK /\ [Next]_vars => TypeOK'
  BY TypeStep
<1>3. QED
  BY <1>1, <1>2, PTL DEF Spec

-----------------------------------------------------------------------------
(* A row that reads building is being built *)

\* The worker's counters between the write of building and the next write to
\* the same row.
BuildPhase == {"building", "failing"}

\* BuildingHasOwner alone is not inductive: it must be known where the worker
\* is (not past its last write to the row), that a build belongs to a deploy
\* job (so that runDeploy catches what it throws), and that no branch of the
\* sweep ever starts a build.
Owned ==
    /\ \A d \in Ids : deployments[d].status = "building" /\ process # "down" =>
           run[Worker].dep = d /\ run[Worker].pc \in BuildPhase
    /\ run[Worker].pc \in BuildPhase \cup {"deploy"} => active.kind = "deploy"
    /\ \A d \in Ids : run[d].pc # "deploy"

\* The steps that leave the rows, the runners and the process as they are.
LEMMA OwnedKept ==
    ASSUME Owned, UNCHANGED <<deployments, run, active, process>>
    PROVE  Owned'
BY DEF Owned

\* What an UPDATE by id leaves in each row.
LEMMA UpdateRow ==
    ASSUME NEW d, NEW row, NEW e \in Ids, deployments \in [Ids -> Deployment], Update(d, row)
    PROVE  deployments'[e] = IF e = d /\ Exists(d) THEN row ELSE deployments[e]
BY DEF Update

\* No write but StartDeploy's makes a row read building.
LEMMA UpdateNotBuilding ==
    ASSUME NEW d, NEW row, row.status # "building", deployments \in [Ids -> Deployment],
           Update(d, row)
    PROVE  \A e \in Ids : deployments'[e].status = "building" =>
               /\ deployments[e].status = "building"
               /\ e = d => ~Exists(d)
BY UpdateRow DEF Exists

\* A step of a runner keeps Owned when it makes no row read building, does not
\* touch another runner, and leaves no row building behind.
LEMMA OwnedRunner ==
    ASSUME TypeOK, Owned, NEW r \in Runners,
           \A e \in Ids : deployments'[e].status = "building" => deployments[e].status = "building",
           \A s \in Runners : s # r => run'[s] = run[s],
           run'[r].pc \notin BuildPhase \cup {"deploy"},
           active' = active \/ (r = Worker /\ active' = NoJob),
           process' = process,
           r = Worker =>
               \A e \in Ids : deployments'[e].status = "building" =>
                   e # run[r].dep \/ process = "down" \/ run[r].pc \notin BuildPhase
    PROVE  Owned'
<1>1. CASE r = Worker
  <2>1. \A e \in Ids : deployments'[e].status = "building" => process = "down"
    BY <1>1 DEF Owned
  <2>2. \A d \in Ids : run'[d].pc # "deploy"
    BY <1>1 DEF Owned, Runners, Worker, Ids
  <2>3. QED
    BY <1>1, <2>1, <2>2 DEF Owned
<1>2. CASE r # Worker
  <2>1. run'[Worker] = run[Worker] /\ active' = active
    BY <1>2 DEF Runners
  <2>2. r \in Ids
    BY <1>2 DEF Runners
  <2>3. \A d \in Ids : run'[d].pc # "deploy"
    BY <2>2 DEF Owned, Runners, BuildPhase
  <2>4. QED
    BY <2>1, <2>3 DEF Owned
<1>3. QED
  BY <1>1, <1>2

LEMMA OwnedInit == Init => Owned
BY DEF Init, Owned, Absent, Idle, BuildPhase, Worker, Runners

\* End and Goto, seen from the runners.
LEMMA EndRuns ==
    ASSUME TypeOK, NEW r \in Runners, NEW threw \in BOOLEAN, End(r, threw)
    PROVE  /\ \A s \in Runners : s # r => run'[s] = run[s]
           /\ run'[r] = Idle
           /\ active' = active \/ (r = Worker /\ active' = NoJob)
BY DEF End, TypeOK

LEMMA GotoRuns ==
    ASSUME TypeOK, NEW r \in Runners, NEW pc, Goto(r, pc)
    PROVE  /\ \A s \in Runners : s # r => run'[s] = run[s]
           /\ run'[r].pc = pc /\ run'[r].dep = run[r].dep
BY DEF Goto, TypeOK, Locals

LEMMA OwnedEnd ==
    ASSUME TypeOK, Owned, NEW r \in Runners, NEW threw \in BOOLEAN, End(r, threw),
           \A e \in Ids : deployments'[e].status = "building" => deployments[e].status = "building",
           process' = process,
           r = Worker =>
               \A e \in Ids : deployments'[e].status = "building" =>
                   e # run[r].dep \/ process = "down" \/ run[r].pc \notin BuildPhase
    PROVE  Owned'
<1>1. /\ \A s \in Runners : s # r => run'[s] = run[s]
      /\ run'[r] = Idle
      /\ active' = active \/ (r = Worker /\ active' = NoJob)
  BY EndRuns
<1>2. run'[r].pc \notin BuildPhase \cup {"deploy"}
  BY <1>1 DEF Idle, BuildPhase
<1>3. QED
  BY <1>1, <1>2, OwnedRunner

LEMMA OwnedGoto ==
    ASSUME TypeOK, Owned, NEW r \in Runners, NEW pc, Goto(r, pc),
           pc \notin BuildPhase \cup {"deploy"}, active' = active,
           \A e \in Ids : deployments'[e].status = "building" => deployments[e].status = "building",
           process' = process,
           r = Worker =>
               \A e \in Ids : deployments'[e].status = "building" =>
                   e # run[r].dep \/ process = "down" \/ run[r].pc \notin BuildPhase
    PROVE  Owned'
<1>1. /\ \A s \in Runners : s # r => run'[s] = run[s]
      /\ run'[r].pc = pc
  BY GotoRuns
<1>2. QED
  BY <1>1, OwnedRunner

LEMMA OwnedStep == TypeOK /\ Owned /\ [Next]_vars => Owned'
<1> SUFFICES ASSUME TypeOK, Owned, [Next]_vars
             PROVE  Owned'
  OBVIOUS
<1>1. ASSUME NEW d \in Ids, RequestDeploy(d)  PROVE Owned'
  BY <1>1 DEF RequestDeploy, Owned, Absent, TypeOK, jobs, procs, worker
<1>2. ASSUME NEW d \in Ids, RequestMark(d)  PROVE Owned'
  BY <1>2, OwnedKept DEF RequestMark, rows, jobs, procs, worker
<1>3. ASSUME NEW d \in Ids, RequestEnqueue(d)  PROVE Owned'
  BY <1>3, OwnedKept DEF RequestEnqueue, rows, jobs, procs, worker
<1>4. ASSUME NEW d \in Ids, RequestLost(d)  PROVE Owned'
  BY <1>4, OwnedKept DEF RequestLost, rows, jobs, procs, worker
<1>5. ASSUME NEW d \in Ids, RequestRollback(d)  PROVE Owned'
  BY <1>5, OwnedKept DEF RequestRollback, rows, jobs, procs, worker
<1>6. ASSUME NEW a \in {"start", "stop", "restart"}, RequestLifecycle(a)  PROVE Owned'
  BY <1>6, OwnedKept DEF RequestLifecycle, rows, procs, worker
<1>7. ASSUME RequestDelete  PROVE Owned'
  BY <1>7, OwnedKept DEF RequestDelete, jobs, procs, worker
<1>8. ASSUME DeleteEnqueue  PROVE Owned'
  BY <1>8, OwnedKept DEF DeleteEnqueue, rows, procs, worker
<1>9. ASSUME TakeJob  PROVE Owned'
  <2>1. run'[Worker].pc = active'.kind /\ run'[Worker].pc \notin BuildPhase
    <3>1. Head(queue).kind \in JobKinds
      <4>1. Head(queue) \in Job
        BY <1>9 DEF TakeJob, TypeOK
      <4>2. QED
        BY <4>1 DEF Job
    <3>2. run'[Worker].pc = Head(queue).kind
      BY <1>9, ConstantRecords DEF TakeJob, TypeOK, Locals
    <3>3. QED
      BY <1>9, <3>1, <3>2 DEF TakeJob, JobKinds, BuildPhase
  <2>2. \A d \in Ids : run'[d] = run[d]
    BY <1>9, ConstantRecords DEF TakeJob, TypeOK, Ids, Worker
  <2>3. \A d \in Ids : deployments[d].status = "building" => process = "down"
    BY <1>9 DEF Owned, TakeJob, NoJob
  <2>4. QED
    BY <1>9, <2>1, <2>2, <2>3 DEF TakeJob, Owned, rows, worker
<1>10. ASSUME NEW r \in Runners, StartDeploy(r)  PROVE Owned'
  <2>1. r = Worker
    BY <1>10 DEF StartDeploy, Owned, Runners
  <2>2. CASE Fail(r)
    BY <1>10, <2>1, <2>2, OwnedEnd DEF StartDeploy, Fail, BuildPhase, rows, worker
  <2>3. CASE /\ SetStatus(active.arg, "building")
             /\ run' = [run EXCEPT ![r] =
                          [pc |-> "building", dep |-> active.arg, image |-> active.arg]]
             /\ UNCHANGED <<service, asked, jobs, sweeping, worker, remote, clean>>
    <3>1. \A e \in Ids : deployments'[e].status = "building" => e = active.arg \/ process = "down"
      BY <1>10, <2>1, <2>3, UpdateRow DEF SetStatus, StartDeploy, Owned, BuildPhase, TypeOK
    <3>2. active.kind = "deploy"
      BY <1>10, <2>1 DEF StartDeploy, Owned
    <3>3. \A d \in Ids : run'[d] = run[d]
      BY <2>1, <2>3 DEF TypeOK, Ids, Worker
    <3>4. run'[Worker].pc = "building" /\ run'[Worker].dep = active.arg
      BY <2>1, <2>3 DEF TypeOK
    <3>5. QED
      BY <2>3, <3>1, <3>2, <3>3, <3>4 DEF Owned, BuildPhase, jobs, worker
  <2>4. QED
    BY <1>10, <2>2, <2>3 DEF StartDeploy
<1>11. ASSUME NEW r \in Runners, StartRedeploy(r)  PROVE Owned'
  <2>1. CASE Fail(r)
    BY <1>11, <2>1, OwnedEnd DEF StartRedeploy, Fail, BuildPhase, rows, worker
  <2>2. CASE ~Fail(r)
    <3>1. \A e \in Ids : deployments'[e].status = "building" => deployments[e].status = "building"
      BY <1>11, <2>2 DEF StartRedeploy, TypeOK
    <3>2. /\ \A s \in Runners : s # r => run'[s] = run[s]
          /\ run'[r].pc = "shipping"
      BY <1>11, <2>2 DEF StartRedeploy, TypeOK
    <3>3. active' = active /\ process' = process
      BY <1>11, <2>2 DEF StartRedeploy, jobs, worker
    <3>4. run[r].pc \notin BuildPhase
      BY <1>11 DEF StartRedeploy, BuildPhase
    <3>5. QED
      BY <3>1, <3>2, <3>3, <3>4, OwnedRunner DEF BuildPhase
  <2>3. QED
    BY <2>1, <2>2
<1>12. ASSUME NEW r \in Runners, ResolveImage(r)  PROVE Owned'
  <2> DEFINE row == [deployments[run[r].dep] EXCEPT !.status = "deploying", !.image = run[r].image]
  <2>1. Update(run[r].dep, row)
    BY <1>12 DEF ResolveImage, SetStatus
  <2>2. \A e \in Ids : deployments'[e] = IF e = run[r].dep /\ Exists(run[r].dep) THEN row ELSE deployments[e]
    BY <2>1, UpdateRow DEF TypeOK
  <2>3. \A e \in Ids : deployments'[e].status = "building" =>
            deployments[e].status = "building" /\ e # run[r].dep
    BY <2>2 DEF TypeOK, Deployment, Exists
  <2>4. QED
    BY <1>12, <2>3, OwnedGoto DEF ResolveImage, BuildPhase, jobs, worker
<1>13. ASSUME NEW r \in Runners, Rollout(r)  PROVE Owned'
  <2>1. deployments' = deployments /\ run[r].pc \notin BuildPhase
    BY <1>13 DEF Rollout, rows, BuildPhase
  <2>2. QED
    BY <1>13, <2>1, OwnedGoto DEF Rollout, Idle, BuildPhase, jobs, worker
<1>14. ASSUME NEW r \in Runners, ReadVerdict(r)  PROVE Owned'
  <2>1. deployments' = deployments /\ run[r].pc \notin BuildPhase
    BY <1>14 DEF ReadVerdict, rows, BuildPhase
  <2>2. QED
    BY <1>14, <2>1, OwnedGoto DEF ReadVerdict, Idle, BuildPhase, jobs, worker
<1>15. ASSUME NEW r \in Runners, Throw(r)  PROVE Owned'
  <2>1. CASE RunsDeploy(r) /\ Goto(r, "failing") /\ UNCHANGED <<jobs, sweeping>>
    <3>1. r = Worker /\ active.kind = "deploy"
      BY <2>1 DEF RunsDeploy
    <3>2. run'[Worker].pc = "failing" /\ run'[Worker].dep = run[Worker].dep
      BY <2>1, <3>1, GotoRuns
    <3>3. \A d \in Ids : run'[d] = run[d]
      BY <2>1, <3>1, GotoRuns, ConstantRecords DEF Ids, Worker
    <3>4. QED
      BY <1>15, <2>1, <3>1, <3>2, <3>3 DEF Throw, Owned, BuildPhase, rows, jobs, worker
  <2>2. CASE ~RunsDeploy(r) /\ End(r, TRUE)
    <3>1. r = Worker => run[r].pc \notin BuildPhase
      BY <2>2 DEF RunsDeploy, Owned
    <3>2. QED
      BY <1>15, <2>2, <3>1, OwnedEnd DEF Throw, BuildPhase, rows, worker
  <2>3. QED
    BY <1>15, <2>1, <2>2 DEF Throw
<1>16. ASSUME NEW r \in Runners, RecordSucceeded(r)  PROVE Owned'
  <2> DEFINE row == [deployments[run[r].dep] EXCEPT !.status = "succeeded", !.watch = "open"]
  <2>1. Update(run[r].dep, row)
    BY <1>16 DEF RecordSucceeded, SetStatus
  <2>2. \A e \in Ids : deployments'[e] = IF e = run[r].dep /\ Exists(run[r].dep) THEN row ELSE deployments[e]
    BY <2>1, UpdateRow DEF TypeOK
  <2>3. \A e \in Ids : deployments'[e].status = "building" =>
            deployments[e].status = "building" /\ e # run[r].dep
    BY <2>2 DEF TypeOK, Deployment, Exists
  <2>4. QED
    BY <1>16, <2>3, OwnedGoto DEF RecordSucceeded, BuildPhase, jobs, worker
<1>17. ASSUME NEW r \in Runners, RecordCurrent(r)  PROVE Owned'
  <2>1. deployments' = deployments /\ run[r].pc \notin BuildPhase
    BY <1>17 DEF RecordCurrent, rows, BuildPhase
  <2>2. QED
    BY <1>17, <2>1, OwnedGoto DEF RecordCurrent, Idle, BuildPhase, jobs, worker
<1>18. ASSUME NEW r \in Runners, ClearSupersededWatch(r)  PROVE Owned'
  <2>1. \A e \in Ids : deployments'[e].status = "building" => deployments[e].status = "building"
    BY <1>18, UpdateRow DEF ClearSupersededWatch, SetStatus, TypeOK, Deployment
  <2>2. \A e \in Ids : deployments'[e].status = "building" => e # run[r].dep \/ run[r].pc \notin BuildPhase
    BY <1>18, UpdateRow DEF ClearSupersededWatch, SetStatus, TypeOK, Deployment, Exists, BuildPhase
  <2>3. QED
    BY <1>18, <2>1, <2>2, OwnedEnd DEF ClearSupersededWatch, BuildPhase, jobs, worker
<1>19. ASSUME NEW r \in Runners, RecordRolledBack(r)  PROVE Owned'
  <2> DEFINE row == [deployments[run[r].dep] EXCEPT !.status = "rolled_back"]
  <2>1. Update(run[r].dep, row)
    BY <1>19 DEF RecordRolledBack, SetStatus
  <2>2. \A e \in Ids : deployments'[e] = IF e = run[r].dep /\ Exists(run[r].dep) THEN row ELSE deployments[e]
    BY <2>1, UpdateRow DEF TypeOK
  <2>3. \A e \in Ids : deployments'[e].status = "building" =>
            deployments[e].status = "building" /\ e # run[r].dep
    BY <2>2 DEF TypeOK, Deployment, Exists
  <2>4. QED
    BY <1>19, <2>3, OwnedGoto DEF RecordRolledBack, BuildPhase, jobs, worker
<1>20. ASSUME NEW r \in Runners, RecordCrashed(r)  PROVE Owned'
  <2>1. deployments' = deployments /\ run[r].pc \notin BuildPhase
    BY <1>20 DEF RecordCrashed, rows, BuildPhase
  <2>2. QED
    BY <1>20, <2>1, OwnedEnd DEF RecordCrashed, BuildPhase, jobs, worker
<1>21. ASSUME NEW r \in Runners, RecordFailed(r)  PROVE Owned'
  <2> DEFINE row == [deployments[run[r].dep] EXCEPT !.status = "failed"]
  <2>1. Update(run[r].dep, row)
    BY <1>21 DEF RecordFailed, SetStatus
  <2>2. \A e \in Ids : deployments'[e] = IF e = run[r].dep /\ Exists(run[r].dep) THEN row ELSE deployments[e]
    BY <2>1, UpdateRow DEF TypeOK
  <2>3. \A e \in Ids : deployments'[e].status = "building" =>
            deployments[e].status = "building" /\ e # run[r].dep
    BY <2>2 DEF TypeOK, Deployment, Exists
  <2>4. QED
    BY <1>21, <2>3, OwnedGoto DEF RecordFailed, BuildPhase, jobs, worker
<1>22. ASSUME NEW r \in Runners, RecordFailedService(r)  PROVE Owned'
  <2>1. deployments' = deployments /\ run[r].pc \notin BuildPhase
    BY <1>22 DEF RecordFailedService, rows, BuildPhase
  <2>2. QED
    BY <1>22, <2>1, OwnedEnd DEF RecordFailedService, BuildPhase, jobs, worker
<1>23. ASSUME NEW r \in Runners, RemoveSwarm(r)  PROVE Owned'
  <2>1. deployments' = deployments /\ run[r].pc \notin BuildPhase
    BY <1>23 DEF RemoveSwarm, rows, BuildPhase
  <2>2. CASE End(r, FALSE)
    BY <1>23, <2>1, <2>2, OwnedEnd DEF RemoveSwarm, BuildPhase, worker
  <2>3. CASE Goto(r, "erasing") /\ UNCHANGED <<jobs, sweeping>>
    BY <1>23, <2>1, <2>3, OwnedGoto DEF RemoveSwarm, BuildPhase, jobs, worker
  <2>4. QED
    BY <1>23, <2>2, <2>3 DEF RemoveSwarm
<1>24. ASSUME NEW r \in Runners, EraseRow(r)  PROVE Owned'
  <2>1. \A e \in Ids : deployments'[e].status # "building"
    BY <1>24 DEF EraseRow, Absent
  <2>2. QED
    BY <1>24, <2>1, OwnedEnd DEF EraseRow, BuildPhase, worker
<1>25. ASSUME NEW r \in Runners, TeardownThrows(r)  PROVE Owned'
  <2>1. deployments' = deployments /\ run[r].pc \notin BuildPhase
    BY <1>25 DEF TeardownThrows, rows, BuildPhase
  <2>2. QED
    BY <1>25, <2>1, OwnedGoto DEF TeardownThrows, Idle, BuildPhase, jobs, worker
<1>26. ASSUME NEW r \in Runners, RecordStuck(r)  PROVE Owned'
  <2>1. deployments' = deployments /\ run[r].pc \notin BuildPhase
    BY <1>26 DEF RecordStuck, rows, BuildPhase
  <2>2. QED
    BY <1>26, <2>1, OwnedEnd DEF RecordStuck, BuildPhase, jobs, worker
<1>27. ASSUME NEW r \in Runners, Scale(r)  PROVE Owned'
  <2>1. deployments' = deployments /\ run[r].pc \notin BuildPhase
    BY <1>27 DEF Scale, Fail, rows, BuildPhase
  <2>2. CASE Goto(r, IF run[r].pc = "stop" THEN "stopped" ELSE "started")
             /\ UNCHANGED <<jobs, sweeping>>
    BY <1>27, <2>1, <2>2, OwnedGoto DEF Scale, Fail, BuildPhase, jobs, worker
  <2>3. CASE End(r, TRUE)
    BY <1>27, <2>1, <2>3, OwnedEnd DEF Scale, Fail, BuildPhase, worker
  <2>4. QED
    BY <1>27, <2>2, <2>3 DEF Scale, Fail
<1>28. ASSUME NEW r \in Runners, RecordLifecycle(r)  PROVE Owned'
  <2>1. deployments' = deployments /\ run[r].pc \notin BuildPhase
    BY <1>28 DEF RecordLifecycle, rows, BuildPhase
  <2>2. QED
    BY <1>28, <2>1, OwnedEnd DEF RecordLifecycle, BuildPhase, jobs, worker
<1>29. ASSUME StartSweep  PROVE Owned'
  <2>1. run'[Worker] = run[Worker]
    BY <1>29, ConstantRecords DEF StartSweep, Ids, Worker
  <2>2. \A d \in Ids : run'[d].pc # "deploy"
    BY <1>29, ConstantRecords DEF StartSweep, Owned, Idle
  <2>3. QED
    BY <1>29, <2>1, <2>2 DEF StartSweep, Owned, rows, jobs, worker
<1>30. ASSUME NEW d \in Ids, Inspect(d)  PROVE Owned'
  <2>0. d \in Runners
    BY ConstantRecords
  <2>1. deployments' = deployments /\ run[d].pc \notin BuildPhase
    BY <1>30 DEF Inspect, rows, BuildPhase
  <2>2. CASE Goto(d, "looping") /\ UNCHANGED <<jobs, sweeping>>
    BY <1>30, <2>0, <2>1, <2>2, OwnedGoto DEF Inspect, BuildPhase, jobs, worker
  <2>3. CASE End(d, TRUE) \/ End(d, FALSE)
    BY <1>30, <2>0, <2>1, <2>3, OwnedEnd DEF Inspect, BuildPhase, worker
  <2>4. QED
    BY <1>30, <2>2, <2>3 DEF Inspect, Fail
<1>31. ASSUME NEW d \in Ids, FindPrevious(d)  PROVE Owned'
  <2>0. d \in Runners
    BY ConstantRecords
  <2>1. deployments' = deployments /\ run[d].pc \notin BuildPhase
    BY <1>31 DEF FindPrevious, rows, BuildPhase
  <2>2. /\ \A s \in Runners : s # d => run'[s] = run[s]
        /\ run'[d].pc = "reverting"
    BY <1>31, <2>0 DEF FindPrevious, TypeOK, Locals
  <2>3. QED
    BY <1>31, <2>0, <2>1, <2>2, OwnedRunner DEF FindPrevious, BuildPhase, jobs, worker
<1>32. ASSUME NEW d \in Ids, RecordReverted(d)  PROVE Owned'
  <2>0. d \in Runners
    BY ConstantRecords
  <2> DEFINE row == [deployments[d] EXCEPT !.status = "reverted_by_watch", !.watch = "none"]
  <2>1. Update(d, row)
    BY <1>32 DEF RecordReverted, SetStatus
  <2>2. \A e \in Ids : deployments'[e] = IF e = d /\ Exists(d) THEN row ELSE deployments[e]
    BY <2>1, UpdateRow DEF TypeOK
  <2>3. \A e \in Ids : deployments'[e].status = "building" =>
            deployments[e].status = "building" /\ e # d
    BY <2>2 DEF TypeOK, Deployment, Exists
  <2>4. QED
    BY <1>32, <2>0, <2>3, OwnedGoto DEF RecordReverted, BuildPhase, jobs, worker
<1>33. ASSUME NEW d \in Ids, RecordStranded(d)  PROVE Owned'
  <2>0. d \in Runners
    BY ConstantRecords
  <2>1. deployments' = deployments /\ run[d].pc \notin BuildPhase
    BY <1>33, <2>0 DEF RecordStranded, rows, BuildPhase
  <2>2. QED
    BY <1>33, <2>0, <2>1, OwnedEnd DEF RecordStranded, BuildPhase, jobs, worker
<1>34. ASSUME NEW d \in Ids, WatchElapses(d)  PROVE Owned'
  BY <1>34 DEF WatchElapses, Owned, TypeOK, Deployment, jobs, procs, worker
<1>35. ASSUME Crash  PROVE Owned'
  BY <1>35, ConstantRecords DEF Crash, Owned, Idle, BuildPhase
<1>36. ASSUME RecoverDeployments  PROVE Owned'
  <2>1. \A d \in Ids : deployments'[d].status # "building"
    BY <1>36 DEF RecoverDeployments, InFlight, TypeOK, Deployment
  <2>2. QED
    BY <1>36, <2>1 DEF RecoverDeployments, Owned, jobs, procs
<1>37. ASSUME RecoverLook  PROVE Owned'
  BY <1>37 DEF RecoverLook, Owned, rows, jobs, procs
<1>38. ASSUME RecoverService  PROVE Owned'
  BY <1>38 DEF RecoverService, Owned, rows, jobs, procs
<1>39. ASSUME StalledJobReturns  PROVE Owned'
  BY <1>39, OwnedKept DEF StalledJobReturns, rows, procs, worker
<1>40. ASSUME SwarmBegins \/ SwarmConverges  PROVE Owned'
  BY <1>40, OwnedKept DEF SwarmBegins, SwarmConverges, rows, jobs, procs, worker
<1>41. ASSUME SwarmRollsBack  PROVE Owned'
  BY <1>41, OwnedKept DEF SwarmRollsBack, rows, jobs, procs, worker
<1>42. ASSUME TasksFail  PROVE Owned'
  BY <1>42, OwnedKept DEF TasksFail, rows, jobs, procs, worker
<1>43. CASE UNCHANGED vars
  BY <1>43, OwnedKept DEF vars, rows, jobs, procs, worker
<1>44. QED
  BY <1>1, <1>2, <1>3, <1>4, <1>5, <1>6, <1>7, <1>8, <1>9, <1>10, <1>11, <1>12, <1>13, <1>14, <1>15, <1>16, <1>17, <1>18, <1>19, <1>20, <1>21, <1>22, <1>23, <1>24, <1>25, <1>26, <1>27, <1>28, <1>29, <1>30, <1>31, <1>32, <1>33, <1>34, <1>35, <1>36, <1>37, <1>38, <1>39, <1>40, <1>41, <1>42, <1>43
     DEF Next, Dashboard, Step, Ship, Teardown, Watch, Restart

\* No deployment reads building while nobody builds it: whatever the order of
\* jobs, sweeps, teardowns, crashes and redeliveries, and however many of them.
THEOREM OwnerOfBuilding == Spec => []BuildingHasOwner
<1>1. Init => TypeOK /\ Owned
  BY InitType, OwnedInit
<1>2. TypeOK /\ Owned /\ [Next]_vars => (TypeOK /\ Owned)'
  BY TypeStep, OwnedStep
<1>3. Owned => BuildingHasOwner
  BY DEF Owned, BuildingHasOwner
<1>4. QED
  BY <1>1, <1>2, <1>3, PTL DEF Spec

-----------------------------------------------------------------------------
(***************************************************************************)
(* The history: a settled row stays as it is.                               *)
(*                                                                          *)
(* The argument is one of ownership.  A row that is not settled is written  *)
(* by one process only: the deploy job that was asked for it, or the        *)
(* redeploy that inserted it.  The two never share a row, for the jobs name *)
(* rows the dashboard inserted (`manual') and a redeploy inserts rows of    *)
(* another trigger.  A branch of the sweep writes to a third kind, a row    *)
(* that had succeeded.  A crash breaks the part of this that says a job     *)
(* runs once, and only that.                                                *)
(*                                                                          *)
(* On it rest three results that relate the runners to one another and to   *)
(* Swarm:                                                                   *)
(*   - of the rows whose watch is open, all but one are about to be closed  *)
(*     by a runner that has accepted a row and not yet cleared the others,  *)
(*   - the pointer of the service names a row that was accepted, for the    *)
(*     image a runner carries is the one its row was given before, and      *)
(*   - as long as nothing set the row and Swarm apart, one runner at a time *)
(*     stands between a change to Swarm and the last of its writes, and     *)
(*     knows what Swarm runs; when none does, the row tells it.             *)
(***************************************************************************)

\* The row of the service is gone, and its deployments with it.
Erased == service.status = "gone"

\* The counters of ship, of a build, and of a branch, in which a runner has
\* yet to write the row it is about.
ShipPhase   == {"shipping", "verdict", "accepted", "refused"}
DeployPhase == BuildPhase \cup ShipPhase
BranchPhase == {"inspect", "looping", "reverting"}

Asks(job, d) == job.kind = "deploy" /\ job.arg = d
Waits(d)     == request[d] # "none" \/ \E i \in DOMAIN queue : Asks(queue[i], d)

Redeploying(r) == run[r].pc \in ShipPhase /\ ~RunsDeploy(r)
Deploying      == active.kind = "deploy" /\ run[Worker].pc \in DeployPhase \cup {"deploy"}
Branching(d)   == run[d].pc \in BranchPhase

\* The processes of the worker run while it is up.
RunsWhileUp == process # "up" => active = NoJob /\ \A r \in Runners : run[r].pc = "idle"

\* The deployments go with the service.
ErasedIsEmpty == Erased => \A d \in Ids : ~Exists(d)

\* Deploy jobs name rows the dashboard inserted.
AskedIsManual ==
    ~Erased => \A d \in Ids :
        Waits(d) \/ Asks(active, d) \/ Asks(stalled, d) =>
            Exists(d) /\ deployments[d].trigger = "manual"

\* A deploy job builds and ships its own row, and the branches build nothing.
BuildsItsOwn ==
    /\ active.kind = "deploy" /\ run[Worker].pc \in DeployPhase => run[Worker].dep = active.arg
    /\ active.kind = "deploy" =>
         active.arg \in Ids /\ run[Worker].pc \notin {"rollback", "reshipping"}
    /\ \A d \in Ids : run[d].pc \notin BuildPhase

\* A redeploy ships a row it inserted, and no other redeploy the same one.
RedeploysItsOwn ==
    ~Erased => \A r \in Runners : Redeploying(r) =>
        /\ run[r].dep \in Ids
        /\ deployments[run[r].dep].status = "deploying"
        /\ deployments[run[r].dep].trigger # "manual"
RedeploysApart ==
    ~Erased => \A r, s \in Runners :
        Redeploying(r) /\ Redeploying(s) /\ r # s => run[r].dep # run[s].dep

\* A branch looks at a row no redeploy is shipping.
WatchesSettled ==
    ~Erased => \A d \in Ids : Branching(d) =>
        Exists(d) /\ (deployments[d].trigger = "manual" \/ deployments[d].status \in Settled)

\* Every deploy job names some row.
JobsNameRows ==
    /\ \A i \in DOMAIN queue : queue[i].kind = "deploy" => queue[i].arg \in Ids
    /\ stalled.kind = "deploy" => stalled.arg \in Ids

\* Before the first crash a row is asked for once, and waits until its job is
\* taken; the worker and the branches find the rows as they left them.
NothingStalled == crashes = 0 => stalled = NoJob /\ process = "up"
AskedOnce ==
    crashes = 0 =>
        /\ \A i, j \in DOMAIN queue : \A d \in Ids :
             Asks(queue[i], d) /\ Asks(queue[j], d) => i = j
        /\ \A i \in DOMAIN queue : \A d \in Ids :
             Asks(queue[i], d) => request[d] = "none"
        /\ \A d \in Ids : Asks(active, d) => ~Waits(d)
WaitsQueued ==
    crashes = 0 /\ ~Erased => \A d \in Ids : Waits(d) => deployments[d].status = "queued"
DeploysUnsettled ==
    crashes = 0 /\ ~Erased /\ Deploying => deployments[active.arg].status \notin Settled
WatchesSucceeded ==
    crashes = 0 /\ ~Erased => \A d \in Ids : Branching(d) => deployments[d].status = "succeeded"

History ==
    /\ RunsWhileUp /\ ErasedIsEmpty /\ AskedIsManual /\ BuildsItsOwn
    /\ RedeploysItsOwn /\ RedeploysApart /\ WatchesSettled
    /\ JobsNameRows /\ NothingStalled /\ AskedOnce /\ WaitsQueued /\ DeploysUnsettled /\ WatchesSucceeded

\* What the steps that move a runner leave alone.
OthersStay(r) == \A s \in Runners : s # r => run'[s] = run[s]
AskedStay == UNCHANGED <<request, queue, stalled, process, crashes>>
SameGone  == Erased' <=> Erased
SameRow(d) == /\ deployments'[d].status = deployments[d].status
              /\ deployments'[d].trigger = deployments[d].trigger
SameRows  == \A d \in Ids : SameRow(d)

LEMMA HistoryInit == Init => History
BY ConstantRecords
   DEF Init, History, RunsWhileUp, ErasedIsEmpty, AskedIsManual, BuildsItsOwn, RedeploysItsOwn,
       RedeploysApart, WatchesSettled, JobsNameRows, NothingStalled, AskedOnce, WaitsQueued,
       DeploysUnsettled, WatchesSucceeded, Erased, Exists, Absent, NoJob, Idle, Asks, Waits, Redeploying, Deploying,
       Branching, ShipPhase, DeployPhase, BuildPhase, BranchPhase

\* Rows that read as before are final.
LEMMA SameRowsStay == SameRows => SettledStays
BY DEF SameRows, SameRow, SettledStays

-----------------------------------------------------------------------------
(* The steps, by what they change *)

\* Nothing but the service, Swarm and the counters that matter to none of it.
LEMMA HistoryKept ==
    ASSUME History, SameRows, SameGone, UNCHANGED <<jobs, run, crashes>>,
           \A d \in Ids : request'[d] = "none" <=> request[d] = "none",
           process' = process \/ process # "up"
    PROVE  History' /\ SettledStays
<1>1. SettledStays
  BY SameRowsStay
<1>2. /\ \A d \in Ids : Exists(d)' <=> Exists(d)
      /\ \A d \in Ids : Waits(d)' <=> Waits(d)
      /\ \A r \in Runners : Redeploying(r)' <=> Redeploying(r)
      /\ \A d \in Ids : Branching(d)' <=> Branching(d)
      /\ Deploying' <=> Deploying
  BY DEF SameRows, SameRow, Exists, Waits, Redeploying, RunsDeploy, Branching, Deploying, jobs
<1>3. (RunsWhileUp /\ ErasedIsEmpty /\ AskedIsManual /\ BuildsItsOwn)'
  BY <1>2 DEF History, RunsWhileUp, ErasedIsEmpty, AskedIsManual, BuildsItsOwn, SameRows, SameRow,
              SameGone, Asks, jobs
<1>4. (RedeploysItsOwn /\ RedeploysApart /\ WatchesSettled)'
  BY <1>2 DEF History, RedeploysItsOwn, RedeploysApart, WatchesSettled, SameRows, SameRow, SameGone
<1>5. (JobsNameRows /\ NothingStalled /\ AskedOnce /\ WaitsQueued /\ DeploysUnsettled /\ WatchesSucceeded)'
  <2>1. (JobsNameRows /\ NothingStalled /\ AskedOnce)'
    BY <1>2 DEF History, JobsNameRows, NothingStalled, AskedOnce, Asks, jobs
  <2>2. (WaitsQueued /\ DeploysUnsettled /\ WatchesSucceeded)'
    BY <1>2 DEF History, BuildsItsOwn, WaitsQueued, DeploysUnsettled, WatchesSucceeded, Deploying,
                SameRows, SameRow, SameGone, jobs
  <2>3. QED
    BY <2>1, <2>2
<1>6. QED
  BY <1>1, <1>3, <1>4, <1>5 DEF History

\* What a step that touches no row and lets the others stand means for the
\* phases, when the runner leaves them.
LEMMA LeavesPhases ==
    ASSUME TypeOK, Owned, History, NEW r \in Runners, OthersStay(r),
           run'[r].pc \notin DeployPhase \cup BranchPhase \cup {"deploy"},
           r = Worker => run'[r].pc \notin {"rollback", "reshipping"},
           active' = active \/ (r = Worker /\ active' = NoJob)
    PROVE  /\ \A s \in Runners : Redeploying(s)' =>
                s # r /\ Redeploying(s) /\ run'[s] = run[s]
           /\ \A d \in Ids : Branching(d)' => d # r /\ Branching(d)
           /\ Deploying' => r # Worker /\ Deploying /\ active' = active
           /\ \A d \in Ids : Asks(active', d) => active' = active
           /\ \A d \in Ids : run'[d].pc \notin BuildPhase
           /\ active'.kind = "deploy" /\ run'[Worker].pc \in DeployPhase =>
                active' = active /\ run'[Worker] = run[Worker]
           /\ active'.kind = "deploy" =>
                active' = active /\ run'[Worker].pc \notin {"rollback", "reshipping"}
<1>1. \A s \in Runners : Redeploying(s)' => s # r /\ Redeploying(s) /\ run'[s] = run[s]
  BY DEF OthersStay, Redeploying, RunsDeploy, DeployPhase
<1>2. \A d \in Ids : Branching(d)' => d # r /\ Branching(d)
  BY ConstantRecords DEF OthersStay, Branching
<1>3. /\ Deploying' => r # Worker /\ Deploying /\ active' = active
      /\ active'.kind = "deploy" /\ run'[Worker].pc \in DeployPhase =>
           active' = active /\ run'[Worker] = run[Worker]
      /\ active'.kind = "deploy" =>
           active' = active /\ run'[Worker].pc \notin {"rollback", "reshipping"}
  BY ConstantRecords DEF OthersStay, Deploying, NoJob, History, BuildsItsOwn
<1>4. \A d \in Ids : run'[d].pc \notin BuildPhase
  BY ConstantRecords DEF OthersStay, History, BuildsItsOwn, DeployPhase
<1>5. QED
  BY <1>1, <1>2, <1>3, <1>4 DEF Asks, NoJob

\* A runner that leaves its phase without a write to a row.
LEMMA RunnerLeaves ==
    ASSUME TypeOK, Owned, History, NEW r \in Runners, run[r].pc # "idle", OthersStay(r),
           SameRows, SameGone, AskedStay,
           run'[r].pc \notin DeployPhase \cup BranchPhase \cup {"deploy"},
           r = Worker => run'[r].pc \notin {"rollback", "reshipping"},
           active' = active \/ (r = Worker /\ active' = NoJob)
    PROVE  History' /\ SettledStays
<1>1. SettledStays
  BY SameRowsStay
<1>2. /\ \A s \in Runners : Redeploying(s)' =>
           s # r /\ Redeploying(s) /\ run'[s] = run[s]
      /\ \A d \in Ids : Branching(d)' => d # r /\ Branching(d)
      /\ Deploying' => r # Worker /\ Deploying /\ active' = active
      /\ \A d \in Ids : Asks(active', d) => active' = active
      /\ \A d \in Ids : run'[d].pc \notin BuildPhase
      /\ active'.kind = "deploy" /\ run'[Worker].pc \in DeployPhase =>
           active' = active /\ run'[Worker] = run[Worker]
      /\ active'.kind = "deploy" =>
           active' = active /\ run'[Worker].pc \notin {"rollback", "reshipping"}
  BY LeavesPhases
<1>3. /\ \A d \in Ids : Exists(d)' <=> Exists(d)
      /\ \A d \in Ids : Waits(d)' <=> Waits(d)
  BY DEF SameRows, SameRow, Exists, Waits, AskedStay
<1>4. (RunsWhileUp /\ ErasedIsEmpty /\ AskedIsManual /\ BuildsItsOwn)'
  <2>1. RunsWhileUp'
    BY DEF History, RunsWhileUp, AskedStay
  <2>2. ErasedIsEmpty' /\ AskedIsManual'
    BY <1>2, <1>3 DEF History, ErasedIsEmpty, AskedIsManual, SameRows, SameRow, SameGone, AskedStay
  <2>3. BuildsItsOwn'
    BY <1>2 DEF History, BuildsItsOwn, NoJob
  <2>4. QED
    BY <2>1, <2>2, <2>3
<1>5. (RedeploysItsOwn /\ RedeploysApart /\ WatchesSettled)'
  BY <1>2, <1>3 DEF History, RedeploysItsOwn, RedeploysApart, WatchesSettled, SameRows, SameRow, SameGone
<1>6. (JobsNameRows /\ NothingStalled /\ AskedOnce /\ WaitsQueued /\ DeploysUnsettled /\ WatchesSucceeded)'
  <2>1. (JobsNameRows /\ NothingStalled /\ AskedOnce)'
    BY <1>2, <1>3 DEF History, JobsNameRows, NothingStalled, AskedOnce, AskedStay
  <2>2. DeploysUnsettled'
    <3>1. Deploying' => active.arg \in Ids
      BY <1>2 DEF History, BuildsItsOwn, Deploying
    <3>2. QED
      BY <1>2, <3>1 DEF History, DeploysUnsettled, SameRows, SameRow, SameGone, AskedStay
  <2>3. (WaitsQueued /\ WatchesSucceeded)'
    BY <1>2, <1>3 DEF History, WaitsQueued, WatchesSucceeded, SameRows, SameRow, SameGone, AskedStay
  <2>4. QED
    BY <2>1, <2>2, <2>3
<1>7. QED
  BY <1>1, <1>4, <1>5, <1>6 DEF History

\* A runner that moves on inside its phase without a write to a row.
LEMMA RunnerStays ==
    ASSUME TypeOK, Owned, History, NEW r \in Runners, run[r].pc # "idle", OthersStay(r),
           SameRows, SameGone, AskedStay, active' = active, run'[r].dep = run[r].dep,
           run'[r].pc \notin {"deploy", "building", "rollback", "reshipping"},
           run'[r].pc = "failing" => RunsDeploy(r),
           run'[r].pc \in DeployPhase => run[r].pc \in DeployPhase,
           run'[r].pc \in ShipPhase => run[r].pc \in ShipPhase,
           run'[r].pc \in BranchPhase => run[r].pc \in BranchPhase
    PROVE  History' /\ SettledStays
<1>1. SettledStays
  BY SameRowsStay
<1>2. /\ \A s \in Runners : run'[s].dep = run[s].dep
      /\ \A s \in Runners : Redeploying(s)' => Redeploying(s)
      /\ \A d \in Ids : Branching(d)' => Branching(d)
      /\ Deploying' => Deploying
      /\ \A d \in Ids : run'[d].pc \notin BuildPhase
      /\ active'.kind = "deploy" /\ run'[Worker].pc \in DeployPhase =>
           run[Worker].pc \in DeployPhase
  <2>1. /\ \A s \in Runners : run'[s].dep = run[s].dep
        /\ \A s \in Runners : Redeploying(s)' => Redeploying(s)
    BY DEF OthersStay, Redeploying, RunsDeploy
  <2>2. \A d \in Ids : Branching(d)' => Branching(d)
    BY ConstantRecords DEF OthersStay, Branching
  <2>3. Deploying' => Deploying
    BY ConstantRecords DEF OthersStay, Deploying
  <2>4. \A d \in Ids : run'[d].pc \notin BuildPhase
    <3>1. \A d \in Ids : d # Worker
      BY DEF Ids, Worker
    <3>2. QED
      BY <3>1, ConstantRecords DEF OthersStay, RunsDeploy, History, BuildsItsOwn, BuildPhase
  <2>5. active'.kind = "deploy" /\ run'[Worker].pc \in DeployPhase =>
          run[Worker].pc \in DeployPhase
    BY ConstantRecords DEF OthersStay
  <2>6. QED
    BY <2>1, <2>2, <2>3, <2>4, <2>5
<1>3. /\ \A d \in Ids : Exists(d)' <=> Exists(d)
      /\ \A d \in Ids : Waits(d)' <=> Waits(d)
  BY DEF SameRows, SameRow, Exists, Waits, AskedStay
<1>4. (RunsWhileUp /\ ErasedIsEmpty /\ AskedIsManual /\ BuildsItsOwn)'
  <2>1. RunsWhileUp'
    BY DEF History, RunsWhileUp, AskedStay
  <2>2. ErasedIsEmpty' /\ AskedIsManual'
    BY <1>2, <1>3 DEF History, ErasedIsEmpty, AskedIsManual, SameRows, SameRow, SameGone, AskedStay
  <2>3. BuildsItsOwn'
    BY <1>2, ConstantRecords DEF History, BuildsItsOwn, OthersStay
  <2>4. QED
    BY <2>1, <2>2, <2>3
<1>5. (RedeploysItsOwn /\ RedeploysApart /\ WatchesSettled)'
  BY <1>2, <1>3 DEF History, RedeploysItsOwn, RedeploysApart, WatchesSettled, SameRows, SameRow, SameGone
<1>6. (JobsNameRows /\ NothingStalled /\ AskedOnce /\ WaitsQueued /\ DeploysUnsettled /\ WatchesSucceeded)'
  <2>1. (JobsNameRows /\ NothingStalled /\ AskedOnce)'
    BY <1>2, <1>3 DEF History, JobsNameRows, NothingStalled, AskedOnce, AskedStay
  <2>2. (WaitsQueued /\ DeploysUnsettled /\ WatchesSucceeded)'
    BY <1>2, <1>3 DEF History, BuildsItsOwn, WaitsQueued, DeploysUnsettled, WatchesSucceeded,
                      Deploying, SameRows, SameRow, SameGone, AskedStay
  <2>3. QED
    BY <2>1, <2>2
<1>7. QED
  BY <1>1, <1>4, <1>5, <1>6 DEF History

\* Who may write the status of row e: the redeploy that inserted it, the
\* worker whose job was asked for it, the branch that watches it.
Owns(r, e) ==
    \/ Redeploying(r) /\ e = run[r].dep
    \/ r = Worker /\ Deploying /\ e = active.arg
    \/ r = e /\ run[r].pc = "reverting"

\* The row a runner owns is nobody else's.
LEMMA OwnsAlone ==
    ASSUME TypeOK, Owned, History, NEW r \in Runners, NEW e \in Ids, ~Erased, Owns(r, e)
    PROVE  /\ \A s \in Runners : s # r /\ Redeploying(s) => run[s].dep # e
           /\ crashes = 0 => ~Waits(e)
           /\ crashes = 0 /\ Deploying /\ active.arg = e => r = Worker
           /\ crashes = 0 /\ Branching(e) => r = e
<1>1. CASE Redeploying(r) /\ e = run[r].dep
  <2>1. deployments[e].status = "deploying" /\ deployments[e].trigger # "manual"
    BY <1>1 DEF History, RedeploysItsOwn
  <2>2. \A s \in Runners : s # r /\ Redeploying(s) => run[s].dep # e
    BY <1>1 DEF History, RedeploysApart
  <2>3. crashes = 0 => ~Waits(e)
    BY <2>1 DEF History, WaitsQueued
  <2>4. Deploying => active.arg # e
    BY <2>1 DEF History, AskedIsManual, Asks, Deploying
  <2>5. crashes = 0 => ~Branching(e)
    BY <2>1 DEF History, WatchesSucceeded
  <2>6. QED
    BY <2>2, <2>3, <2>4, <2>5
<1>2. CASE r = Worker /\ Deploying /\ e = active.arg
  <2>1. Exists(e) /\ deployments[e].trigger = "manual"
    BY <1>2 DEF History, AskedIsManual, Asks, Deploying
  <2>2. \A s \in Runners : Redeploying(s) => run[s].dep # e
    BY <2>1 DEF History, RedeploysItsOwn
  <2>3. crashes = 0 => ~Waits(e)
    BY <1>2 DEF History, AskedOnce, Asks, Deploying
  <2>4. crashes = 0 => deployments[e].status \notin Settled
    BY <1>2 DEF History, DeploysUnsettled
  <2>5. crashes = 0 => ~Branching(e)
    BY <2>4 DEF History, WatchesSucceeded, Settled
  <2>6. QED
    BY <1>2, <2>2, <2>3, <2>5
<1>3. CASE r = e /\ run[r].pc = "reverting"
  <2>1. Branching(e)
    BY <1>3 DEF Branching, BranchPhase
  <2>2. deployments[e].trigger = "manual" \/ deployments[e].status \in Settled
    BY <2>1 DEF History, WatchesSettled
  <2>3. \A s \in Runners : Redeploying(s) => run[s].dep # e
    BY <2>2 DEF History, RedeploysItsOwn, Settled
  <2>4. crashes = 0 => deployments[e].status = "succeeded"
    BY <2>1 DEF History, WatchesSucceeded
  <2>5. crashes = 0 => ~Waits(e)
    BY <2>4 DEF History, WaitsQueued
  <2>6. crashes = 0 => ~(Deploying /\ active.arg = e)
    BY <2>4 DEF History, DeploysUnsettled, Settled
  <2>7. QED
    BY <1>3, <2>3, <2>5, <2>6
<1>4. QED
  BY <1>1, <1>2, <1>3 DEF Owns

\* A settled row is written by its owner alone, and as SettledIsFinal says.
LEMMA OwnerStays ==
    ASSUME TypeOK, Owned, History, NEW r \in Runners, NEW e \in Ids, ~Erased => Owns(r, e),
           \A d \in Ids : d # e => SameRow(d),
           Exists(e)' <=> Exists(e),
           run[r].pc = "reverting" /\ Exists(e) => deployments'[e].status = "reverted_by_watch"
    PROVE  SettledStays
<1>1. ASSUME deployments[e].status \in Settled
      PROVE  \/ deployments[e].status = "succeeded" /\ deployments'[e].status = "reverted_by_watch"
             \/ /\ crashes > 0
                /\ run[e].pc = "reverting" \/ (active.kind = "deploy" /\ active.arg = e)
  <2>1. Exists(e) /\ ~Erased
    BY <1>1 DEF Exists, Settled, History, ErasedIsEmpty
  <2>2. CASE Redeploying(r) /\ e = run[r].dep
    BY <1>1, <2>1, <2>2 DEF History, RedeploysItsOwn, Settled
  <2>3. CASE r = Worker /\ Deploying /\ e = active.arg
    <3>1. crashes # 0
      BY <1>1, <2>1, <2>3 DEF History, DeploysUnsettled
    <3>2. QED
      BY <2>3, <3>1 DEF Deploying, TypeOK
  <2>4. CASE r = e /\ run[r].pc = "reverting"
    <3>1. crashes = 0 => deployments[e].status = "succeeded"
      BY <2>1, <2>4 DEF History, WatchesSucceeded, Branching, BranchPhase
    <3>2. QED
      BY <2>1, <2>4, <3>1 DEF TypeOK
  <2>5. QED
    BY <2>1, <2>2, <2>3, <2>4 DEF Owns
<1>2. QED
  BY <1>1 DEF SettledStays, SameRow

\* A runner that settles the row it owns and leaves its phase.
LEMMA RunnerSettles ==
    ASSUME TypeOK, Owned, History, NEW r \in Runners, run[r].pc # "idle", OthersStay(r),
           SameGone, AskedStay, active' = active,
           run'[r].pc \notin DeployPhase \cup BranchPhase \cup {"deploy"},
           r = Worker => run'[r].pc \notin {"rollback", "reshipping"},
           NEW e \in Ids, ~Erased => Owns(r, e),
           \A d \in Ids : d # e => SameRow(d),
           deployments'[e].trigger = deployments[e].trigger,
           Exists(e)' <=> Exists(e),
           Exists(e) => deployments'[e].status \in Settled,
           run[r].pc = "reverting" /\ Exists(e) => deployments'[e].status = "reverted_by_watch"
    PROVE  History' /\ SettledStays
<1>1. SettledStays
  BY OwnerStays
<1>2. /\ \A s \in Runners : Redeploying(s)' =>
           s # r /\ Redeploying(s) /\ run'[s] = run[s]
      /\ \A d \in Ids : Branching(d)' => d # r /\ Branching(d)
      /\ Deploying' => r # Worker /\ Deploying /\ active' = active
      /\ \A d \in Ids : run'[d].pc \notin BuildPhase
      /\ active'.kind = "deploy" /\ run'[Worker].pc \in DeployPhase =>
           active' = active /\ run'[Worker] = run[Worker]
      /\ active'.kind = "deploy" =>
           active' = active /\ run'[Worker].pc \notin {"rollback", "reshipping"}
  BY LeavesPhases
<1>3. /\ \A d \in Ids : Exists(d)' <=> Exists(d)
      /\ \A d \in Ids : Waits(d)' <=> Waits(d)
      /\ \A d \in Ids : deployments'[d].trigger = deployments[d].trigger
  BY DEF SameRow, Exists, Waits, AskedStay
<1>4. ~Erased => /\ \A s \in Runners : s # r /\ Redeploying(s) => run[s].dep # e
                 /\ crashes = 0 => ~Waits(e)
                 /\ crashes = 0 /\ Deploying /\ active.arg = e => r = Worker
                 /\ crashes = 0 /\ Branching(e) => r = e
  BY OwnsAlone
<1>5. (RunsWhileUp /\ ErasedIsEmpty /\ AskedIsManual /\ BuildsItsOwn)'
  <2>1. RunsWhileUp'
    BY DEF History, RunsWhileUp, AskedStay
  <2>2. ErasedIsEmpty' /\ AskedIsManual'
    BY <1>2, <1>3 DEF History, ErasedIsEmpty, AskedIsManual, SameGone, AskedStay
  <2>3. BuildsItsOwn'
    BY <1>2 DEF History, BuildsItsOwn
  <2>4. QED
    BY <2>1, <2>2, <2>3
<1>6. (RedeploysItsOwn /\ RedeploysApart /\ WatchesSettled)'
  <2>1. RedeploysItsOwn' /\ RedeploysApart'
    BY <1>2, <1>4 DEF History, RedeploysItsOwn, RedeploysApart, SameRow, SameGone
  <2>2. WatchesSettled'
    BY <1>2, <1>3 DEF History, WatchesSettled, SameRow, SameGone
  <2>3. QED
    BY <2>1, <2>2
<1>7. (JobsNameRows /\ NothingStalled /\ AskedOnce /\ WaitsQueued /\ DeploysUnsettled /\ WatchesSucceeded)'
  <2>1. (JobsNameRows /\ NothingStalled /\ AskedOnce)'
    BY <1>3 DEF History, JobsNameRows, NothingStalled, AskedOnce, AskedStay
  <2>2. DeploysUnsettled'
    <3>1. Deploying' => active.arg \in Ids
      BY <1>2 DEF History, BuildsItsOwn, Deploying
    <3>2. QED
      BY <1>2, <1>4, <3>1 DEF History, DeploysUnsettled, SameRow, SameGone, AskedStay
  <2>3. (WaitsQueued /\ WatchesSucceeded)'
    BY <1>2, <1>3, <1>4 DEF History, WaitsQueued, WatchesSucceeded, SameRow, SameGone, AskedStay
  <2>4. QED
    BY <2>1, <2>2, <2>3
<1>8. QED
  BY <1>1, <1>5, <1>6, <1>7 DEF History

\* The worker that begins to build its row, or to ship it.
LEMMA WorkerBuilds ==
    ASSUME TypeOK, Owned, History, OthersStay(Worker), SameGone, AskedStay, active' = active,
           Deploying, run[Worker].pc # "idle",
           run'[Worker].pc \in {"building", "shipping"}, run'[Worker].dep = active.arg,
           \A d \in Ids : d # active.arg => SameRow(d),
           deployments'[active.arg].trigger = deployments[active.arg].trigger,
           Exists(active.arg)' <=> Exists(active.arg),
           Exists(active.arg) => deployments'[active.arg].status \in InFlight
    PROVE  History' /\ SettledStays
<1>0. active.arg \in Ids /\ Worker \in Runners /\ Worker # active.arg
  BY ConstantRecords DEF History, BuildsItsOwn, Deploying, Ids, Worker
<1>1. SettledStays
  <2>1. run[Worker].pc # "reverting"
    BY DEF Deploying, DeployPhase, BuildPhase, ShipPhase
  <2>2. QED
    BY <1>0, <2>1, OwnerStays DEF Owns
<1>2. /\ \A s \in Runners : Redeploying(s)' =>
           s # Worker /\ Redeploying(s) /\ run'[s] = run[s]
      /\ \A d \in Ids : Branching(d)' => Branching(d)
      /\ \A d \in Ids : run'[d].pc \notin BuildPhase
  <2>1. \A d \in Ids : d # Worker /\ d \in Runners
    BY ConstantRecords DEF Ids, Worker
  <2>2. RunsDeploy(Worker)'
    BY DEF RunsDeploy, Deploying
  <2>3. QED
    BY <2>1, <2>2 DEF OthersStay, Redeploying, RunsDeploy, Branching, History, BuildsItsOwn
<1>3. /\ \A d \in Ids : Exists(d)' <=> Exists(d)
      /\ \A d \in Ids : Waits(d)' <=> Waits(d)
      /\ \A d \in Ids : deployments'[d].trigger = deployments[d].trigger
  BY DEF SameRow, Exists, Waits, AskedStay
<1>4. ~Erased => /\ \A s \in Runners : s # Worker /\ Redeploying(s) => run[s].dep # active.arg
                 /\ crashes = 0 => ~Waits(active.arg)
                 /\ crashes = 0 => ~Branching(active.arg)
  BY <1>0, OwnsAlone DEF Owns
<1>5. (RunsWhileUp /\ ErasedIsEmpty /\ AskedIsManual /\ BuildsItsOwn)'
  <2>1. RunsWhileUp'
    BY <1>0 DEF History, RunsWhileUp, AskedStay
  <2>2. ErasedIsEmpty' /\ AskedIsManual'
    BY <1>2, <1>3 DEF History, ErasedIsEmpty, AskedIsManual, SameGone, AskedStay
  <2>3. BuildsItsOwn'
    BY <1>2 DEF History, BuildsItsOwn
  <2>4. QED
    BY <2>1, <2>2, <2>3
<1>6. (RedeploysItsOwn /\ RedeploysApart /\ WatchesSettled)'
  <2>1. RedeploysItsOwn' /\ RedeploysApart'
    BY <1>2, <1>4 DEF History, RedeploysItsOwn, RedeploysApart, SameRow, SameGone
  <2>2. ~Erased => deployments[active.arg].trigger = "manual"
    BY <1>0 DEF History, AskedIsManual, Asks, Deploying
  <2>3. WatchesSettled'
    BY <1>2, <1>3, <2>2 DEF History, WatchesSettled, SameRow, SameGone
  <2>4. QED
    BY <2>1, <2>3
<1>7. (JobsNameRows /\ NothingStalled /\ AskedOnce /\ WaitsQueued /\ DeploysUnsettled /\ WatchesSucceeded)'
  <2>1. (JobsNameRows /\ NothingStalled /\ AskedOnce)'
    BY <1>3 DEF History, JobsNameRows, NothingStalled, AskedOnce, AskedStay
  <2>2. DeploysUnsettled'
    <3>1. ~Erased => Exists(active.arg)
      BY <1>0 DEF History, AskedIsManual, Asks, Deploying
    <3>2. QED
      BY <3>1 DEF DeploysUnsettled, SameGone, InFlight, Settled
  <2>3. (WaitsQueued /\ WatchesSucceeded)'
    BY <1>2, <1>3, <1>4 DEF History, WaitsQueued, WatchesSucceeded, SameRow, SameGone, AskedStay
  <2>4. QED
    BY <2>1, <2>2, <2>3
<1>8. QED
  BY <1>1, <1>5, <1>6, <1>7 DEF History

\* A redeploy inserts its row.
LEMMA RedeployBegins ==
    ASSUME TypeOK, Owned, History, NEW r \in Runners, OthersStay(r),
           run[r].pc \in {"rollback", "reshipping"}, run'[r].pc = "shipping",
           UNCHANGED <<service, active>>, AskedStay,
           NEW d \in Ids, Fresh(d), run'[r].dep = d,
           deployments'[d].status = "deploying", deployments'[d].trigger # "manual",
           \A e \in Ids : e # d => SameRow(e)
    PROVE  History' /\ SettledStays
<1>1. ~Erased /\ ~Exists(d) /\ deployments[d].status \notin Settled
  BY DEF Fresh, Erased, Exists, Settled
<1>2. SettledStays
  BY <1>1 DEF SettledStays, SameRow
<1>3. ~RunsDeploy(r)
  BY DEF RunsDeploy, History, BuildsItsOwn
<1>4. /\ \A s \in Runners : Redeploying(s)' => s = r \/ (Redeploying(s) /\ run'[s] = run[s])
      /\ \A e \in Ids : Branching(e)' => Branching(e)
      /\ \A e \in Ids : run'[e].pc \notin BuildPhase
      /\ Deploying' => Deploying
      /\ active.kind = "deploy" => r # Worker /\ run'[Worker] = run[Worker]
  <2>1. \A e \in Ids : e # Worker /\ e \in Runners
    BY ConstantRecords DEF Ids, Worker
  <2>2. active.kind = "deploy" => r # Worker /\ run'[Worker] = run[Worker]
    BY <1>3, ConstantRecords DEF RunsDeploy, OthersStay
  <2>3. \A e \in Ids : Branching(e)' => Branching(e)
    BY <2>1 DEF OthersStay, Branching, BranchPhase
  <2>4. \A e \in Ids : run'[e].pc \notin BuildPhase
    BY <2>1 DEF OthersStay, History, BuildsItsOwn, BuildPhase
  <2>5. QED
    BY <2>2, <2>3, <2>4 DEF OthersStay, Redeploying, RunsDeploy, Deploying
<1>5. /\ \A e \in Ids : Waits(e)' <=> Waits(e)
      /\ \A e \in Ids : e # d => (Exists(e)' <=> Exists(e))
      /\ ~Erased'
  BY <1>1 DEF SameRow, Exists, Waits, AskedStay, Erased
<1>6. ~Waits(d) /\ ~Asks(active, d) /\ ~Asks(stalled, d) /\ ~Branching(d)
  BY <1>1 DEF History, AskedIsManual, WatchesSettled
<1>7. \A s \in Runners : Redeploying(s) => run[s].dep # d
  BY <1>1 DEF History, RedeploysItsOwn, Exists
<1>8. (RunsWhileUp /\ ErasedIsEmpty /\ AskedIsManual /\ BuildsItsOwn)'
  <2>1. RunsWhileUp'
    BY DEF History, RunsWhileUp, AskedStay
  <2>2. ErasedIsEmpty' /\ AskedIsManual'
    BY <1>1, <1>5, <1>6 DEF History, ErasedIsEmpty, AskedIsManual, SameRow, AskedStay
  <2>3. BuildsItsOwn'
    BY <1>4 DEF History, BuildsItsOwn
  <2>4. QED
    BY <2>1, <2>2, <2>3
<1>9. (RedeploysItsOwn /\ RedeploysApart /\ WatchesSettled)'
  <2>1. RedeploysItsOwn'
    BY <1>1, <1>4, <1>7 DEF History, RedeploysItsOwn, SameRow
  <2>2. RedeploysApart'
    BY <1>1, <1>4, <1>7 DEF History, RedeploysApart
  <2>3. WatchesSettled'
    BY <1>1, <1>4, <1>5, <1>6 DEF History, WatchesSettled, SameRow
  <2>4. QED
    BY <2>1, <2>2, <2>3
<1>10. (JobsNameRows /\ NothingStalled /\ AskedOnce /\ WaitsQueued /\ DeploysUnsettled /\ WatchesSucceeded)'
  <2>1. (JobsNameRows /\ NothingStalled /\ AskedOnce)'
    BY <1>5 DEF History, JobsNameRows, NothingStalled, AskedOnce, AskedStay
  <2>2. DeploysUnsettled'
    BY <1>1, <1>4, <1>6 DEF History, DeploysUnsettled, BuildsItsOwn, Deploying, Asks, SameRow, AskedStay
  <2>3. (WaitsQueued /\ WatchesSucceeded)'
    BY <1>1, <1>4, <1>5, <1>6 DEF History, WaitsQueued, WatchesSucceeded, SameRow, AskedStay
  <2>4. QED
    BY <2>1, <2>2, <2>3
<1>11. QED
  BY <1>2, <1>8, <1>9, <1>10 DEF History

\* A step on the queue or a request that asks for no row it was not asked for.
LEMMA HistoryAsks ==
    ASSUME History, UNCHANGED <<deployments, service, active, stalled, run, process, crashes>>,
           \A d \in Ids : Waits(d)' => Waits(d),
           \A i \in DOMAIN queue' : queue'[i].kind = "deploy" => queue'[i].arg \in Ids,
           AskedOnce'
    PROVE  History' /\ SettledStays
<1>1. SettledStays
  BY DEF SettledStays
<1>2. (RunsWhileUp /\ ErasedIsEmpty /\ AskedIsManual /\ BuildsItsOwn)'
  BY DEF History, RunsWhileUp, ErasedIsEmpty, AskedIsManual, BuildsItsOwn, Exists, Erased
<1>3. (RedeploysItsOwn /\ RedeploysApart /\ WatchesSettled)'
  BY DEF History, RedeploysItsOwn, RedeploysApart, WatchesSettled, Redeploying, RunsDeploy,
         Branching, Exists, Erased
<1>4. (JobsNameRows /\ NothingStalled /\ WaitsQueued /\ DeploysUnsettled /\ WatchesSucceeded)'
  BY DEF History, JobsNameRows, NothingStalled, WaitsQueued, DeploysUnsettled, WatchesSucceeded,
         Deploying, Branching, Erased
<1>5. QED
  BY <1>1, <1>2, <1>3, <1>4 DEF History

\* What Append leaves in a queue.
LEMMA Appended ==
    ASSUME NEW job \in Job, queue \in Seq(Job), queue' = Append(queue, job)
    PROVE  /\ DOMAIN queue' = DOMAIN queue \cup {Len(queue) + 1}
           /\ Len(queue) + 1 \notin DOMAIN queue
           /\ queue'[Len(queue) + 1] = job
           /\ \A i \in DOMAIN queue : queue'[i] = queue[i]
OBVIOUS

\* A job of another kind is enqueued.
LEMMA HistoryAppend ==
    ASSUME TypeOK, History, NEW job \in Job, job.kind # "deploy", queue' = Append(queue, job),
           UNCHANGED <<deployments, service, request, active, stalled, run, process, crashes>>
    PROVE  History' /\ SettledStays
<1>1. /\ DOMAIN queue' = DOMAIN queue \cup {Len(queue) + 1}
      /\ queue'[Len(queue) + 1] = job
      /\ \A i \in DOMAIN queue : queue'[i] = queue[i]
  BY Appended DEF TypeOK
<1>2. \A i \in DOMAIN queue' : \A d \in Ids :
          Asks(queue'[i], d) => i \in DOMAIN queue /\ Asks(queue[i], d)
  BY <1>1 DEF Asks
<1>3. \A d \in Ids : Waits(d)' => Waits(d)
  BY <1>2 DEF Waits
<1>4. AskedOnce'
  BY <1>2, <1>3 DEF History, AskedOnce
<1>5. \A i \in DOMAIN queue' : queue'[i].kind = "deploy" => queue'[i].arg \in Ids
  BY <1>1 DEF History, JobsNameRows
<1>6. QED
  BY <1>3, <1>4, <1>5, HistoryAsks

\* queueServiceDeploy inserts a row nobody knows yet, ...
LEMMA HistoryRequestDeploy ==
    ASSUME TypeOK, History, NEW d \in Ids, RequestDeploy(d)
    PROVE  History' /\ SettledStays
<1>1. ~Erased /\ ~Exists(d)
  BY DEF RequestDeploy, Fresh, Erased
<1>2. /\ deployments'[d].status = "queued" /\ deployments'[d].trigger = "manual"
      /\ \A e \in Ids : e # d => deployments'[e] = deployments[e]
      /\ request'[d] # "none" /\ \A e \in Ids : e # d => request'[e] = request[e]
      /\ UNCHANGED <<service, queue, active, stalled, run, process, crashes>>
  BY DEF RequestDeploy, TypeOK, Absent, jobs, procs, worker
<1>3. ~Waits(d) /\ ~Asks(active, d) /\ ~Asks(stalled, d) /\ ~Branching(d)
  BY <1>1 DEF History, AskedIsManual, WatchesSettled
<1>4. /\ \A e \in Ids : e # d => (Exists(e)' <=> Exists(e))
      /\ Exists(d)'
      /\ \A e \in Ids : Waits(e)' => Waits(e) \/ e = d
      /\ ~Erased'
  BY <1>1, <1>2 DEF Exists, Waits, Erased
<1>5. \A r \in Runners : Redeploying(r) => run[r].dep # d
  BY <1>1 DEF History, RedeploysItsOwn, Exists
<1>6. SettledStays
  BY <1>1, <1>2 DEF SettledStays, Exists, Settled
<1>7. (RunsWhileUp /\ ErasedIsEmpty /\ AskedIsManual /\ BuildsItsOwn)'
  BY <1>1, <1>2, <1>4 DEF History, RunsWhileUp, ErasedIsEmpty, AskedIsManual, BuildsItsOwn
<1>8. (RedeploysItsOwn /\ RedeploysApart /\ WatchesSettled)'
  BY <1>1, <1>2, <1>3, <1>4, <1>5
     DEF History, RedeploysItsOwn, RedeploysApart, WatchesSettled, Redeploying, RunsDeploy, Branching
<1>9. (JobsNameRows /\ NothingStalled /\ AskedOnce)'
  <2>1. \A i \in DOMAIN queue : ~Asks(queue[i], d)
    BY <1>3 DEF Waits
  <2>2. QED
    BY <1>2, <1>3, <1>4, <2>1 DEF History, JobsNameRows, NothingStalled, AskedOnce
<1>10. (WaitsQueued /\ DeploysUnsettled /\ WatchesSucceeded)'
  BY <1>1, <1>2, <1>3, <1>4
     DEF History, WaitsQueued, DeploysUnsettled, WatchesSucceeded, BuildsItsOwn, Deploying,
         Branching, Asks
<1>11. QED
  BY <1>6, <1>7, <1>8, <1>9, <1>10 DEF History

\* ... and its job takes the place of the request.
LEMMA HistoryRequestEnqueue ==
    ASSUME TypeOK, History, NEW d \in Ids, RequestEnqueue(d)
    PROVE  History' /\ SettledStays
<1> DEFINE job == NewJob("deploy", d)
<1>1. job \in Job /\ \A e : Asks(job, e) <=> e = d
  BY NewJobType DEF Asks, NewJob, JobKinds
<1>2. /\ UNCHANGED <<deployments, service, active, stalled, run, process, crashes>>
      /\ queue' = Append(queue, job)
      /\ request[d] # "none" /\ request'[d] = "none"
      /\ \A e \in Ids : e # d => request'[e] = request[e]
  BY DEF RequestEnqueue, TypeOK, rows, procs, worker
<1>3. /\ DOMAIN queue' = DOMAIN queue \cup {Len(queue) + 1}
      /\ queue'[Len(queue) + 1] = job
      /\ \A i \in DOMAIN queue : queue'[i] = queue[i]
  BY <1>1, <1>2, Appended DEF TypeOK
<1>4. Waits(d)
  BY <1>2 DEF Waits
<1>5. \A e \in Ids : Waits(e)' => Waits(e)
  BY <1>1, <1>2, <1>3, <1>4 DEF Waits
<1>6. AskedOnce'
  BY <1>1, <1>2, <1>3, <1>4, <1>5 DEF History, AskedOnce
<1>7. \A i \in DOMAIN queue' : queue'[i].kind = "deploy" => queue'[i].arg \in Ids
  BY <1>3 DEF History, JobsNameRows, NewJob
<1>8. QED
  BY <1>2, <1>5, <1>6, <1>7, HistoryAsks

\* The worker takes a job.
LEMMA HistoryTakeJob ==
    ASSUME TypeOK, Owned, History, TakeJob
    PROVE  History' /\ SettledStays
<1>1. /\ process = "up" /\ active = NoJob /\ queue # <<>> /\ active' = Head(queue)
      /\ UNCHANGED <<service, deployments, request, stalled, process, crashes>>
  BY DEF TakeJob, rows, asked, worker
<1>2. /\ 1 \in DOMAIN queue /\ active' = queue[1]
      /\ \A i \in DOMAIN queue' : i + 1 \in DOMAIN queue /\ queue'[i] = queue[i + 1] /\ i + 1 # 1
      /\ \A i \in DOMAIN queue' : i \in Int
  BY <1>1 DEF TakeJob, TypeOK
<1>3. /\ run'[Worker].pc = active'.kind /\ active'.kind \in JobKinds
      /\ \A d \in Ids : run'[d] = run[d]
      /\ OthersStay(Worker)
  <2>1. active' \in Job
    BY <1>2 DEF TypeOK
  <2>2. active'.kind \in JobKinds
    BY <2>1 DEF Job
  <2>3. \A d \in Ids : d # Worker /\ d \in Runners
    BY ConstantRecords DEF Ids, Worker
  <2>4. QED
    BY <1>1, <2>2, <2>3, ConstantRecords DEF TakeJob, TypeOK, Locals, OthersStay
<1>4. /\ \A s \in Runners : Redeploying(s)' => Redeploying(s) /\ run'[s] = run[s]
      /\ \A d \in Ids : Branching(d)' <=> Branching(d)
      /\ run'[Worker].pc \notin DeployPhase \cup {"reshipping"}
      /\ active'.kind = "deploy" => run'[Worker].pc = "deploy"
  <2>1. run'[Worker].pc \notin DeployPhase \cup {"reshipping"}
    BY <1>3 DEF JobKinds, DeployPhase, BuildPhase, ShipPhase
  <2>2. \A s \in Runners : Redeploying(s)' => Redeploying(s) /\ run'[s] = run[s]
    BY <2>1, <1>3 DEF Redeploying, RunsDeploy, DeployPhase, OthersStay
  <2>3. QED
    BY <1>3, <2>1, <2>2 DEF Branching
<1>5. /\ \A d \in Ids : Waits(d)' => Waits(d)
      /\ \A d \in Ids : Asks(active', d) => Waits(d)
  BY <1>1, <1>2 DEF Waits
<1>6. SettledStays
  BY <1>1 DEF SettledStays
<1>7. (RunsWhileUp /\ ErasedIsEmpty /\ AskedIsManual)'
  BY <1>1, <1>5 DEF History, RunsWhileUp, ErasedIsEmpty, AskedIsManual, Exists, Erased
<1>8. BuildsItsOwn'
  BY <1>2, <1>3, <1>4 DEF History, BuildsItsOwn, JobsNameRows
<1>9. (RedeploysItsOwn /\ RedeploysApart /\ WatchesSettled)'
  BY <1>1, <1>4 DEF History, RedeploysItsOwn, RedeploysApart, WatchesSettled, Exists, Erased
<1>10. (JobsNameRows /\ NothingStalled)'
  BY <1>1, <1>2 DEF History, JobsNameRows, NothingStalled
<1>11. AskedOnce'
  <2> SUFFICES ASSUME crashes = 0
               PROVE  AskedOnce'
    BY <1>1 DEF AskedOnce
  <2>1. \A i, j \in DOMAIN queue' : \A d \in Ids :
            Asks(queue'[i], d) /\ Asks(queue'[j], d) => i = j
    <3>1. \A i, j \in DOMAIN queue' : \A d \in Ids :
            Asks(queue'[i], d) /\ Asks(queue'[j], d) => i + 1 = j + 1
      BY <1>2 DEF History, AskedOnce
    <3>2. QED
      BY <1>2, <3>1
  <2>2. \A i \in DOMAIN queue' : \A d \in Ids : Asks(queue'[i], d) => request'[d] = "none"
    BY <1>1, <1>2 DEF History, AskedOnce
  <2>3. \A d \in Ids : Asks(active', d) => ~Waits(d)'
    BY <1>1, <1>2 DEF History, AskedOnce, Waits
  <2>4. QED
    BY <2>1, <2>2, <2>3 DEF AskedOnce
<1>12. (WaitsQueued /\ DeploysUnsettled /\ WatchesSucceeded)'
  <2>1. WaitsQueued' /\ WatchesSucceeded'
    BY <1>1, <1>4, <1>5 DEF History, WaitsQueued, WatchesSucceeded, Erased
  <2>2. DeploysUnsettled'
    <3>1. Deploying' => active'.arg \in Ids /\ Asks(active', active'.arg)
      BY <1>2 DEF History, JobsNameRows, Deploying, Asks
    <3>2. QED
      BY <1>1, <1>5, <3>1 DEF History, WaitsQueued, DeploysUnsettled, Erased, Settled
  <2>3. QED
    BY <2>1, <2>2
<1>13. QED
  BY <1>6, <1>7, <1>8, <1>9, <1>10, <1>11, <1>12 DEF History

\* Branches begin, each on a row that reads succeeded.
LEMMA HistorySweep ==
    ASSUME TypeOK, Owned, History, StartSweep
    PROVE  History' /\ SettledStays
<1>1. /\ process = "up"
      /\ UNCHANGED <<service, deployments, request, queue, active, stalled, process, crashes>>
  BY DEF StartSweep, rows, asked, jobs, worker
<1>2. \A s \in Runners :
          \/ run'[s] = run[s]
          \/ s \in Ids /\ Watched(s) /\ run'[s].pc = "inspect"
  BY ConstantRecords DEF StartSweep, Idle
<1>3. \A d \in Ids : d # Worker /\ d \in Runners
  BY ConstantRecords DEF Ids, Worker
<1>4. run'[Worker] = run[Worker]
  BY <1>2, <1>3, ConstantRecords
<1>5. /\ \A s \in Runners : Redeploying(s)' => Redeploying(s) /\ run'[s] = run[s]
      /\ \A d \in Ids : Branching(d)' => Branching(d) \/ deployments[d].status = "succeeded"
      /\ \A d \in Ids : run'[d].pc \notin BuildPhase
  <2>1. \A s \in Runners : Redeploying(s)' => Redeploying(s) /\ run'[s] = run[s]
    BY <1>1, <1>2 DEF Redeploying, RunsDeploy, ShipPhase
  <2>2. \A d \in Ids : Branching(d)' => Branching(d) \/ deployments[d].status = "succeeded"
    BY <1>2, <1>3 DEF Branching, Watched
  <2>3. \A d \in Ids : run'[d].pc \notin BuildPhase
    BY <1>2, <1>3 DEF History, BuildsItsOwn, BuildPhase
  <2>4. QED
    BY <2>1, <2>2, <2>3
<1>6. SettledStays
  BY <1>1 DEF SettledStays
<1>7. (RunsWhileUp /\ ErasedIsEmpty /\ AskedIsManual /\ BuildsItsOwn)'
  BY <1>1, <1>4, <1>5
     DEF History, RunsWhileUp, ErasedIsEmpty, AskedIsManual, BuildsItsOwn, Exists, Erased, Waits
<1>8. (RedeploysItsOwn /\ RedeploysApart /\ WatchesSettled)'
  BY <1>1, <1>5 DEF History, RedeploysItsOwn, RedeploysApart, WatchesSettled, Exists, Erased, Settled
<1>9. (JobsNameRows /\ NothingStalled /\ AskedOnce)'
  BY <1>1 DEF History, JobsNameRows, NothingStalled, AskedOnce, Waits
<1>10. (WaitsQueued /\ DeploysUnsettled /\ WatchesSucceeded)'
  BY <1>1, <1>4, <1>5
     DEF History, WaitsQueued, DeploysUnsettled, WatchesSucceeded, Deploying, Erased, Waits
<1>11. QED
  BY <1>6, <1>7, <1>8, <1>9, <1>10 DEF History

\* The teardown erases the service and its history.
LEMMA HistoryErase ==
    ASSUME TypeOK, Owned, History, NEW r \in Runners, EraseRow(r)
    PROVE  History' /\ SettledStays
<1>1. /\ run[r].pc = "erasing" /\ Erased' /\ \A d \in Ids : deployments'[d].status = "absent"
      /\ UNCHANGED <<request, queue, stalled, process, crashes>>
  BY DEF EraseRow, End, Erased, Gone, Absent, asked, worker
<1>2. /\ OthersStay(r) /\ run'[r].pc = "idle"
      /\ active' = active \/ (r = Worker /\ active' = NoJob)
  <2>1. End(r, FALSE)
    BY DEF EraseRow
  <2>2. /\ OthersStay(r) /\ run'[r] = Idle
        /\ active' = active \/ (r = Worker /\ active' = NoJob)
    BY <2>1, EndRuns DEF OthersStay
  <2>3. QED
    BY <2>2 DEF Idle
<1>3. /\ \A d \in Ids : Asks(active', d) => active' = active
      /\ \A d \in Ids : run'[d].pc \notin BuildPhase
      /\ active'.kind = "deploy" /\ run'[Worker].pc \in DeployPhase =>
           active' = active /\ run'[Worker] = run[Worker]
      /\ active'.kind = "deploy" =>
           active' = active /\ run'[Worker].pc \notin {"rollback", "reshipping"}
  BY <1>2, LeavesPhases DEF DeployPhase, BuildPhase, ShipPhase, BranchPhase
<1>4. SettledStays
  BY <1>1 DEF SettledStays, Erased
<1>5. RunsWhileUp' /\ ErasedIsEmpty' /\ BuildsItsOwn'
  <2>1. RunsWhileUp' /\ ErasedIsEmpty'
    BY <1>1 DEF History, RunsWhileUp, ErasedIsEmpty, Exists
  <2>2. BuildsItsOwn'
    BY <1>3 DEF History, BuildsItsOwn
  <2>3. QED
    BY <2>1, <2>2
<1>6. (JobsNameRows /\ NothingStalled /\ AskedOnce)'
  BY <1>1, <1>3 DEF History, JobsNameRows, NothingStalled, AskedOnce, Waits
<1>7. QED
  BY <1>1, <1>4, <1>5, <1>6
     DEF History, AskedIsManual, RedeploysItsOwn, RedeploysApart, WatchesSettled, WaitsQueued,
         DeploysUnsettled, WatchesSucceeded

\* The worker is dead or recovers: no process of it stands anywhere.
LEMMA HistoryDown ==
    ASSUME TypeOK, History,
           \A r \in Runners : run'[r].pc = "idle", active' = NoJob,
           crashes' # 0, SameGone, UNCHANGED <<request, queue>>,
           \A d \in Ids : Asks(stalled', d) => Asks(stalled, d) \/ Asks(active, d),
           stalled'.kind = "deploy" => stalled'.arg \in Ids,
           \A d \in Ids : /\ Exists(d)' <=> Exists(d)
                          /\ deployments'[d].trigger = deployments[d].trigger
    PROVE  History'
<1>1. /\ \A r \in Runners : ~Redeploying(r)'
      /\ \A d \in Ids : ~Branching(d)'
      /\ \A d \in Ids : run'[d].pc \notin BuildPhase
      /\ \A d \in Ids : Waits(d)' <=> Waits(d)
      /\ active'.kind # "deploy"
  BY ConstantRecords
     DEF Redeploying, Branching, ShipPhase, BranchPhase, BuildPhase, Waits, NoJob
<1>2. (RunsWhileUp /\ ErasedIsEmpty /\ AskedIsManual /\ BuildsItsOwn)'
  BY <1>1 DEF History, RunsWhileUp, ErasedIsEmpty, AskedIsManual, BuildsItsOwn, SameGone, Asks
<1>3. (RedeploysItsOwn /\ RedeploysApart /\ WatchesSettled)'
  BY <1>1 DEF RedeploysItsOwn, RedeploysApart, WatchesSettled
<1>4. (JobsNameRows /\ NothingStalled /\ AskedOnce /\ WaitsQueued /\ DeploysUnsettled /\ WatchesSucceeded)'
  BY DEF History, JobsNameRows, NothingStalled, AskedOnce, WaitsQueued, DeploysUnsettled, WatchesSucceeded
<1>5. QED
  BY <1>2, <1>3, <1>4 DEF History

LEMMA HistoryCrash ==
    ASSUME TypeOK, History, Crash
    PROVE  History' /\ SettledStays
<1>1. /\ \A r \in Runners : run'[r].pc = "idle"
      /\ active' = NoJob /\ crashes' # 0
      /\ UNCHANGED <<service, deployments, request, queue>>
      /\ stalled' = stalled \/ stalled' = active
  BY DEF Crash, Idle, rows, asked, TypeOK
<1>2. SettledStays
  BY <1>1 DEF SettledStays
<1>3. stalled'.kind = "deploy" => stalled'.arg \in Ids
  BY <1>1 DEF History, JobsNameRows, BuildsItsOwn
<1>4. QED
  BY <1>1, <1>2, <1>3, HistoryDown DEF SameGone, Erased, Exists

LEMMA HistoryRecovers ==
    ASSUME TypeOK, History, RecoverDeployments
    PROVE  History' /\ SettledStays
<1>1. /\ process = "down"
      /\ UNCHANGED <<service, request, queue, active, stalled, run, crashes>>
      /\ \A d \in Ids : \/ deployments'[d] = deployments[d]
                        \/ /\ deployments[d].status \in InFlight
                           /\ deployments'[d] = [deployments[d] EXCEPT !.status = "failed"]
  BY DEF RecoverDeployments, asked, jobs, procs
<1>2. \A d \in Ids :
          /\ Exists(d)' <=> Exists(d)
          /\ deployments'[d].trigger = deployments[d].trigger
          /\ deployments[d].status \in Settled => deployments'[d].status = deployments[d].status
  BY <1>1 DEF Exists, InFlight, Settled, TypeOK, Deployment
<1>3. SettledStays
  BY <1>2 DEF SettledStays
<1>4. active = NoJob /\ (\A r \in Runners : run[r].pc = "idle") /\ crashes # 0
  BY <1>1 DEF History, RunsWhileUp, NothingStalled
<1>5. QED
  BY <1>1, <1>2, <1>3, <1>4, HistoryDown DEF SameGone, Erased, Asks, History, JobsNameRows

\* BullMQ hands the job of the dead worker out again.
LEMMA HistoryReturns ==
    ASSUME TypeOK, History, StalledJobReturns
    PROVE  History' /\ SettledStays
<1> DEFINE job == [stalled EXCEPT !.again = TRUE]
<1>1. /\ UNCHANGED <<service, deployments, request, active, run, process, crashes>>
      /\ queue' = <<job>> \o queue /\ stalled' = NoJob /\ stalled \in Job
  BY DEF StalledJobReturns, rows, asked, procs, worker, TypeOK
<1>2. job \in Job /\ job.kind = stalled.kind /\ job.arg = stalled.arg
  BY <1>1 DEF Job
<1>3. \A i \in DOMAIN queue' : queue'[i] = job \/ \E j \in DOMAIN queue : queue'[i] = queue[j]
  <2>1. queue \in Seq(Job) /\ <<job>> \in Seq(Job)
    BY <1>2 DEF TypeOK
  <2>2. \A i \in DOMAIN queue' : i = 1 \/ (i - 1 \in DOMAIN queue /\ queue'[i] = queue[i - 1])
    BY <1>1, <2>1
  <2>3. queue'[1] = job
    BY <1>1, <2>1
  <2>4. QED
    BY <2>2, <2>3
<1>4. \A d \in Ids : Waits(d)' => Waits(d) \/ Asks(stalled, d)
  BY <1>1, <1>2, <1>3 DEF Waits, Asks
<1>5. crashes # 0
  BY DEF StalledJobReturns, History, NothingStalled
<1>6. SettledStays
  BY <1>1 DEF SettledStays
<1>7. (RunsWhileUp /\ ErasedIsEmpty /\ AskedIsManual /\ BuildsItsOwn)'
  BY <1>1, <1>4 DEF History, RunsWhileUp, ErasedIsEmpty, AskedIsManual, BuildsItsOwn, Exists,
                    Erased, Asks, NoJob
<1>8. (RedeploysItsOwn /\ RedeploysApart /\ WatchesSettled)'
  BY <1>1 DEF History, RedeploysItsOwn, RedeploysApart, WatchesSettled, Redeploying, RunsDeploy,
              Branching, Exists, Erased
<1>9. JobsNameRows'
  BY <1>1, <1>2, <1>3 DEF History, JobsNameRows, NoJob
<1>10. (NothingStalled /\ AskedOnce /\ WaitsQueued /\ DeploysUnsettled /\ WatchesSucceeded)'
  BY <1>1, <1>5 DEF NothingStalled, AskedOnce, WaitsQueued, DeploysUnsettled, WatchesSucceeded
<1>11. QED
  BY <1>6, <1>7, <1>8, <1>9, <1>10 DEF History

-----------------------------------------------------------------------------
(* The steps *)

\* A job or a branch ends, and touches no row.
LEMMA HistoryEnd ==
    ASSUME TypeOK, Owned, History, NEW r \in Runners, NEW threw \in BOOLEAN, End(r, threw),
           run[r].pc # "idle", SameRows, SameGone, UNCHANGED <<request, process, crashes>>
    PROVE  History' /\ SettledStays
<1>1. /\ OthersStay(r) /\ run'[r] = Idle
      /\ active' = active \/ (r = Worker /\ active' = NoJob)
  BY EndRuns DEF OthersStay
<1>2. run'[r].pc \notin DeployPhase \cup BranchPhase \cup {"deploy", "rollback", "reshipping"}
  BY <1>1 DEF Idle, DeployPhase, BuildPhase, ShipPhase, BranchPhase
<1>3. AskedStay
  BY DEF End, AskedStay
<1>4. QED
  BY <1>1, <1>2, <1>3, RunnerLeaves

\* A runner goes on to a counter outside the phases, and touches no row.
LEMMA HistoryGoto ==
    ASSUME TypeOK, Owned, History, NEW r \in Runners, NEW pc, Goto(r, pc),
           run[r].pc # "idle", SameRows, SameGone, UNCHANGED <<request, jobs, process, crashes>>,
           pc \notin DeployPhase \cup BranchPhase \cup {"deploy", "rollback", "reshipping"}
    PROVE  History' /\ SettledStays
<1>1. /\ OthersStay(r) /\ run'[r].pc = pc /\ active' = active
  BY GotoRuns DEF OthersStay, jobs
<1>2. AskedStay
  BY DEF AskedStay, jobs
<1>3. QED
  BY <1>1, <1>2, RunnerLeaves

\* The writes to the service leave it there, and bring no erased one back.
LEMMA PatchSameGone ==
    ASSUME NEW row, row.status # "gone", UpdateService(row)
    PROVE  SameGone
BY DEF UpdateService, SameGone, Erased

\* None of the patches writes "gone".
LEMMA PatchStatus ==
    ASSUME service \in Service
    PROVE  /\ MarkDeploying(service).status # "gone"
           /\ MarkRunning(service).status # "gone"
           /\ MarkStopped(service).status # "gone"
           /\ MarkCrashed(service).status # "gone"
           /\ MarkDeleting(service).status # "gone"
           /\ MarkStuck(service).status # "gone"
BY DEF Service, MarkDeploying, MarkRunning, MarkStopped, MarkCrashed, MarkDeleting, MarkStuck

\* An UPDATE of a row keeps the others, its trigger, and what exists.
LEMMA UpdateOne ==
    ASSUME TypeOK, NEW e \in Ids, NEW row, Update(e, row),
           row.trigger = deployments[e].trigger, row.status # "absent"
    PROVE  /\ \A d \in Ids : d # e => SameRow(d)
           /\ deployments'[e].trigger = deployments[e].trigger
           /\ Exists(e)' <=> Exists(e)
           /\ Exists(e) => deployments'[e].status = row.status
BY DEF Update, SameRow, Exists, TypeOK

\* A runner in a phase of a deploy job or a redeploy holds a row, its own.
LEMMA ShipperOwns ==
    ASSUME TypeOK, Owned, History, NEW r \in Runners, run[r].pc \in DeployPhase
    PROVE  /\ ~Erased => run[r].dep \in Ids /\ Owns(r, run[r].dep)
           /\ RunsDeploy(r) => Deploying /\ run[r].dep = active.arg /\ run[r].dep \in Ids
           /\ run[r].pc \in BuildPhase => RunsDeploy(r)
<1>1. RunsDeploy(r) => Deploying /\ run[r].dep = active.arg /\ run[r].dep \in Ids /\ r = Worker
  BY DEF RunsDeploy, Deploying, History, BuildsItsOwn
<1>2. run[r].pc \in BuildPhase => RunsDeploy(r)
  BY DEF History, BuildsItsOwn, Owned, RunsDeploy, Runners
<1>3. ~RunsDeploy(r) => Redeploying(r)
  BY <1>2 DEF Redeploying, DeployPhase
<1>4. ~Erased /\ Redeploying(r) => run[r].dep \in Ids
  BY DEF History, RedeploysItsOwn
<1>5. QED
  BY <1>1, <1>2, <1>3, <1>4 DEF Owns

\* One step for each action.
LEMMA HistoryStep ==
    TypeOK /\ Owned /\ History /\ [Next]_vars => History' /\ SettledStays
<1> SUFFICES ASSUME TypeOK, Owned, History, [Next]_vars
             PROVE  History' /\ SettledStays
  OBVIOUS
<1>1. ASSUME NEW d \in Ids, RequestDeploy(d)  PROVE History' /\ SettledStays
  BY <1>1, HistoryRequestDeploy
<1>2. ASSUME NEW d \in Ids, RequestMark(d)  PROVE History' /\ SettledStays
  <2>1. SameGone
    BY <1>2, PatchSameGone, PatchStatus DEF RequestMark, TypeOK
  <2>2. \A e \in Ids : request'[e] = "none" <=> request[e] = "none"
    BY <1>2 DEF RequestMark, TypeOK
  <2>3. QED
    BY <1>2, <2>1, <2>2, HistoryKept DEF RequestMark, SameRows, SameRow, procs, worker
<1>3. ASSUME NEW d \in Ids, RequestEnqueue(d)  PROVE History' /\ SettledStays
  BY <1>3, HistoryRequestEnqueue
<1>4. ASSUME NEW d \in Ids, RequestLost(d)  PROVE History' /\ SettledStays
  <2>1. \A e \in Ids : Waits(e)' => Waits(e)
    BY <1>4 DEF RequestLost, Waits, TypeOK, jobs
  <2>2. /\ UNCHANGED <<deployments, service, queue, active, stalled, run, process, crashes>>
        /\ \A e \in Ids : request[e] = "none" => request'[e] = "none"
    BY <1>4 DEF RequestLost, TypeOK, rows, jobs, procs, worker
  <2>3. AskedOnce' /\ \A i \in DOMAIN queue' : queue'[i].kind = "deploy" => queue'[i].arg \in Ids
    BY <2>1, <2>2 DEF History, AskedOnce, JobsNameRows
  <2>4. QED
    BY <2>1, <2>2, <2>3, HistoryAsks
<1>5. ASSUME NEW d \in Ids, RequestRollback(d)  PROVE History' /\ SettledStays
  <2>1. /\ NewJob("rollback", deployments[d].image) \in Job
        /\ NewJob("rollback", deployments[d].image).kind # "deploy"
    BY NewJobType DEF TypeOK, Deployment, JobKinds, NewJob
  <2>2. QED
    BY <1>5, <2>1, HistoryAppend DEF RequestRollback, rows, asked, procs, worker
<1>6. ASSUME NEW a \in {"start", "stop", "restart"}, RequestLifecycle(a)  PROVE History' /\ SettledStays
  <2>1. NewJob(a, NoId) \in Job /\ NewJob(a, NoId).kind # "deploy"
    BY NewJobType DEF JobKinds, NewJob
  <2>2. QED
    BY <1>6, <2>1, HistoryAppend DEF RequestLifecycle, rows, asked, procs, worker
<1>7. ASSUME RequestDelete  PROVE History' /\ SettledStays
  <2>1. SameGone
    BY <1>7, PatchSameGone, PatchStatus DEF RequestDelete, TypeOK
  <2>2. QED
    BY <1>7, <2>1, HistoryKept DEF RequestDelete, SameRows, SameRow, procs, worker
<1>8. ASSUME DeleteEnqueue  PROVE History' /\ SettledStays
  <2>1. NewJob("delete", NoId) \in Job /\ NewJob("delete", NoId).kind # "deploy"
    BY NewJobType DEF JobKinds, NewJob
  <2>2. QED
    BY <1>8, <2>1, HistoryAppend DEF DeleteEnqueue, rows, procs, worker
<1>9. ASSUME TakeJob  PROVE History' /\ SettledStays
  BY <1>9, HistoryTakeJob
<1>10. ASSUME NEW r \in Runners, StartDeploy(r)  PROVE History' /\ SettledStays
  <2>1. r = Worker /\ active.kind = "deploy" /\ Deploying /\ active.arg \in Ids
    BY <1>10 DEF StartDeploy, Owned, Runners, Deploying, History, BuildsItsOwn
  <2>2. CASE Fail(r)
    BY <1>10, <2>2, HistoryEnd DEF StartDeploy, Fail, SameRows, SameRow, SameGone, Erased, rows, asked, worker
  <2>3. CASE /\ SetStatus(active.arg, "building")
             /\ run' = [run EXCEPT ![r] =
                          [pc |-> "building", dep |-> active.arg, image |-> active.arg]]
             /\ UNCHANGED <<service, asked, jobs, sweeping, worker, remote, clean>>
    <3>1. /\ OthersStay(Worker) /\ run'[Worker].pc = "building" /\ run'[Worker].dep = active.arg
          /\ run[Worker].pc # "idle"
      BY <1>10, <2>1, <2>3 DEF StartDeploy, OthersStay, TypeOK
    <3>2. SameGone /\ AskedStay /\ active' = active
      BY <2>3 DEF SameGone, Erased, AskedStay, asked, jobs, worker
    <3>4. /\ \A d \in Ids : d # active.arg => SameRow(d)
          /\ deployments'[active.arg].trigger = deployments[active.arg].trigger
          /\ Exists(active.arg)' <=> Exists(active.arg)
          /\ Exists(active.arg) => deployments'[active.arg].status = "building"
      BY <2>1, <2>3, <3>2 DEF SetStatus, Update, SameRow, Exists, TypeOK, Deployment
    <3>5. QED
      BY <2>1, <3>1, <3>2, <3>4, WorkerBuilds DEF InFlight
  <2>4. QED
    BY <1>10, <2>2, <2>3 DEF StartDeploy
<1>11. ASSUME NEW r \in Runners, StartRedeploy(r)  PROVE History' /\ SettledStays
  <2>1. CASE Fail(r)
    BY <1>11, <2>1, HistoryEnd DEF StartRedeploy, Fail, SameRows, SameRow, SameGone, Erased, rows, asked, worker
  <2>2. CASE ~Fail(r)
    <3>1. PICK d \in Ids : /\ Fresh(d)
                           /\ run'[r].pc = "shipping" /\ run'[r].dep = d
                           /\ deployments'[d].status = "deploying"
                           /\ deployments'[d].trigger # "manual"
                           /\ \A e \in Ids : e # d => deployments'[e] = deployments[e]
                           /\ OthersStay(r)
                           /\ UNCHANGED <<service, active, request, queue, stalled, process, crashes>>
      BY <1>11, <2>2 DEF StartRedeploy, TypeOK, OthersStay, asked, jobs, worker
    <3>2. run[r].pc \in {"rollback", "reshipping"}
      BY <1>11 DEF StartRedeploy
    <3>3. QED
      BY <3>1, <3>2, RedeployBegins DEF AskedStay, SameRow
  <2>3. QED
    BY <2>1, <2>2
<1>12. ASSUME NEW r \in Runners, ResolveImage(r)  PROVE History' /\ SettledStays
  <2>1. run[r].pc = "building" /\ RunsDeploy(r) /\ r = Worker /\ Deploying /\ run[r].dep = active.arg
        /\ active.arg \in Ids
    BY <1>12, ShipperOwns DEF ResolveImage, DeployPhase, BuildPhase, RunsDeploy
  <2>2. /\ OthersStay(Worker) /\ run'[Worker].pc = "shipping" /\ run'[Worker].dep = active.arg
    BY <1>12, <2>1, GotoRuns DEF ResolveImage, OthersStay
  <2>3. SameGone /\ AskedStay /\ active' = active
    BY <1>12 DEF ResolveImage, SameGone, Erased, AskedStay, asked, jobs, worker
  <2>5. /\ \A d \in Ids : d # active.arg => SameRow(d)
        /\ deployments'[active.arg].trigger = deployments[active.arg].trigger
        /\ Exists(active.arg)' <=> Exists(active.arg)
        /\ Exists(active.arg) => deployments'[active.arg].status = "deploying"
    BY <1>12, <2>1, <2>3 DEF ResolveImage, Update, SameRow, Exists, TypeOK, Deployment
  <2>6. QED
    BY <2>1, <2>2, <2>3, <2>5, WorkerBuilds DEF InFlight
<1>13. ASSUME NEW r \in Runners, Rollout(r)  PROVE History' /\ SettledStays
  <2>1. /\ OthersStay(r) /\ run'[r].pc = "verdict" /\ run'[r].dep = run[r].dep
    BY <1>13, GotoRuns DEF Rollout, OthersStay
  <2>2. SameRows /\ SameGone /\ AskedStay /\ active' = active
    BY <1>13 DEF Rollout, SameRows, SameRow, SameGone, Erased, AskedStay, rows, asked, jobs, worker
  <2>3. run[r].pc \in ShipPhase
    BY <1>13 DEF Rollout, ShipPhase
  <2>4. QED
    BY <2>1, <2>2, <2>3, RunnerStays DEF DeployPhase, BuildPhase, ShipPhase, BranchPhase
<1>14. ASSUME NEW r \in Runners, ReadVerdict(r)  PROVE History' /\ SettledStays
  <2>1. /\ OthersStay(r) /\ run'[r].pc \in {"accepted", "refused"} /\ run'[r].dep = run[r].dep
    BY <1>14, GotoRuns DEF ReadVerdict, OthersStay
  <2>2. SameRows /\ SameGone /\ AskedStay /\ active' = active
    BY <1>14 DEF ReadVerdict, SameRows, SameRow, SameGone, Erased, AskedStay, rows, asked, jobs, worker
  <2>3. run[r].pc \in ShipPhase
    BY <1>14 DEF ReadVerdict, ShipPhase
  <2>4. QED
    BY <2>1, <2>2, <2>3, RunnerStays DEF DeployPhase, BuildPhase, ShipPhase, BranchPhase
<1>15. ASSUME NEW r \in Runners, Throw(r)  PROVE History' /\ SettledStays
  <2>1. SameRows /\ SameGone /\ run[r].pc \in DeployPhase /\ run[r].pc # "idle"
    BY <1>15 DEF Throw, SameRows, SameRow, SameGone, Erased, rows, DeployPhase, BuildPhase, ShipPhase
  <2>2. CASE RunsDeploy(r) /\ Goto(r, "failing") /\ UNCHANGED <<jobs, sweeping>>
    <3>1. OthersStay(r) /\ run'[r].pc = "failing" /\ run'[r].dep = run[r].dep
      BY <2>2, GotoRuns DEF OthersStay
    <3>2. AskedStay /\ active' = active
      BY <1>15, <2>2 DEF Throw, AskedStay, asked, jobs, worker
    <3>3. QED
      BY <2>1, <2>2, <3>1, <3>2, RunnerStays DEF DeployPhase, BuildPhase, ShipPhase, BranchPhase
  <2>3. CASE End(r, TRUE)
    BY <1>15, <2>1, <2>3, HistoryEnd DEF Throw, asked, worker
  <2>4. QED
    BY <1>15, <2>2, <2>3 DEF Throw
<1>16. ASSUME NEW r \in Runners, RecordSucceeded(r)  PROVE History' /\ SettledStays
  <2>1. run[r].pc \in DeployPhase /\ run[r].pc # "idle" /\ run[r].pc # "reverting"
    BY <1>16 DEF RecordSucceeded, DeployPhase, BuildPhase, ShipPhase
  <2>2. /\ OthersStay(r) /\ run'[r].pc = "pointing"
        /\ SameGone /\ AskedStay /\ active' = active
    BY <1>16, GotoRuns DEF RecordSucceeded, OthersStay, SameGone, Erased, AskedStay, asked, jobs, worker
  <2>3. run'[r].pc \notin DeployPhase \cup BranchPhase \cup {"deploy", "rollback", "reshipping"}
    BY <2>2 DEF DeployPhase, BuildPhase, ShipPhase, BranchPhase
  <2>4. CASE run[r].dep \in Ids
    <3>0. PICK e \in Ids : e = run[r].dep
      BY <2>4
    <3>1. ~Erased => Owns(r, e)
      BY <2>1, <3>0, ShipperOwns
    <3>3. /\ \A d \in Ids : d # e => SameRow(d)
          /\ deployments'[e].trigger = deployments[e].trigger
          /\ Exists(e)' <=> Exists(e)
          /\ Exists(e) => deployments'[e].status = "succeeded"
      BY <1>16, <3>0 DEF RecordSucceeded, Update, SameRow, Exists, TypeOK, Deployment
    <3>4. Exists(e) => deployments'[e].status \in Settled
      BY <3>3 DEF Settled
    <3>5. QED
      BY <2>1, <2>2, <2>3, <3>1, <3>3, <3>4, RunnerSettles
  <2>5. CASE run[r].dep \notin Ids
    <3>1. Erased
      BY <2>1, <2>5, ShipperOwns
    <3>2. \A d \in Ids : SameRow(d)
      BY <1>16, <2>5, UpdateRow DEF RecordSucceeded, SameRow, TypeOK
    <3>3. QED
      BY <2>1, <2>2, <2>3, <3>2, RunnerLeaves DEF SameRows
  <2>6. QED
    BY <2>4, <2>5
<1>17. ASSUME NEW r \in Runners, RecordCurrent(r)  PROVE History' /\ SettledStays
  <2>1. SameGone
    BY <1>17, PatchSameGone DEF RecordCurrent, TypeOK, Service
  <2>2. QED
    BY <1>17, <2>1, HistoryGoto DEF RecordCurrent, SameRows, SameRow, asked, worker, DeployPhase, BuildPhase, ShipPhase, BranchPhase
<1>18. ASSUME NEW r \in Runners, ClearSupersededWatch(r)  PROVE History' /\ SettledStays
  <2>1. SameRows
    BY <1>18 DEF ClearSupersededWatch, SameRows, SameRow, TypeOK, Deployment
  <2>2. QED
    BY <1>18, <2>1, HistoryEnd DEF ClearSupersededWatch, SameGone, Erased, asked, worker
<1>19. ASSUME NEW r \in Runners, RecordRolledBack(r)  PROVE History' /\ SettledStays
  <2>1. run[r].pc \in DeployPhase /\ run[r].pc # "idle" /\ run[r].pc # "reverting"
    BY <1>19 DEF RecordRolledBack, DeployPhase, BuildPhase, ShipPhase
  <2>2. /\ OthersStay(r) /\ run'[r].pc = "crashing"
        /\ SameGone /\ AskedStay /\ active' = active
    BY <1>19, GotoRuns DEF RecordRolledBack, OthersStay, SameGone, Erased, AskedStay, asked, jobs, worker
  <2>3. run'[r].pc \notin DeployPhase \cup BranchPhase \cup {"deploy", "rollback", "reshipping"}
    BY <2>2 DEF DeployPhase, BuildPhase, ShipPhase, BranchPhase
  <2>4. CASE run[r].dep \in Ids
    <3>0. PICK e \in Ids : e = run[r].dep
      BY <2>4
    <3>1. ~Erased => Owns(r, e)
      BY <2>1, <3>0, ShipperOwns
    <3>3. /\ \A d \in Ids : d # e => SameRow(d)
          /\ deployments'[e].trigger = deployments[e].trigger
          /\ Exists(e)' <=> Exists(e)
          /\ Exists(e) => deployments'[e].status = "rolled_back"
      BY <1>19, <3>0 DEF RecordRolledBack, SetStatus, Update, SameRow, Exists, TypeOK, Deployment
    <3>4. Exists(e) => deployments'[e].status \in Settled
      BY <3>3 DEF Settled
    <3>5. QED
      BY <2>1, <2>2, <2>3, <3>1, <3>3, <3>4, RunnerSettles
  <2>5. CASE run[r].dep \notin Ids
    <3>1. Erased
      BY <2>1, <2>5, ShipperOwns
    <3>2. \A d \in Ids : SameRow(d)
      BY <1>19, <2>5, UpdateRow DEF RecordRolledBack, SetStatus, SameRow, TypeOK
    <3>3. QED
      BY <2>1, <2>2, <2>3, <3>2, RunnerLeaves DEF SameRows
  <2>6. QED
    BY <2>4, <2>5
<1>20. ASSUME NEW r \in Runners, RecordCrashed(r)  PROVE History' /\ SettledStays
  <2>1. SameGone
    BY <1>20, PatchSameGone DEF RecordCrashed, TypeOK, Service
  <2>2. QED
    BY <1>20, <2>1, HistoryEnd DEF RecordCrashed, SameRows, SameRow, asked, worker
<1>21. ASSUME NEW r \in Runners, RecordFailed(r)  PROVE History' /\ SettledStays
  <2>1. run[r].pc \in DeployPhase /\ run[r].pc # "idle" /\ run[r].pc # "reverting"
    BY <1>21 DEF RecordFailed, DeployPhase, BuildPhase, ShipPhase
  <2>2. /\ OthersStay(r) /\ run'[r].pc = "marking"
        /\ SameGone /\ AskedStay /\ active' = active
    BY <1>21, GotoRuns DEF RecordFailed, OthersStay, SameGone, Erased, AskedStay, asked, jobs, worker
  <2>3. run'[r].pc \notin DeployPhase \cup BranchPhase \cup {"deploy", "rollback", "reshipping"}
    BY <2>2 DEF DeployPhase, BuildPhase, ShipPhase, BranchPhase
  <2>4. CASE run[r].dep \in Ids
    <3>0. PICK e \in Ids : e = run[r].dep
      BY <2>4
    <3>1. ~Erased => Owns(r, e)
      BY <2>1, <3>0, ShipperOwns
    <3>3. /\ \A d \in Ids : d # e => SameRow(d)
          /\ deployments'[e].trigger = deployments[e].trigger
          /\ Exists(e)' <=> Exists(e)
          /\ Exists(e) => deployments'[e].status = "failed"
      BY <1>21, <3>0 DEF RecordFailed, SetStatus, Update, SameRow, Exists, TypeOK, Deployment
    <3>4. Exists(e) => deployments'[e].status \in Settled
      BY <3>3 DEF Settled
    <3>5. QED
      BY <2>1, <2>2, <2>3, <3>1, <3>3, <3>4, RunnerSettles
  <2>5. CASE run[r].dep \notin Ids
    <3>1. Erased
      BY <2>1, <2>5, ShipperOwns
    <3>2. \A d \in Ids : SameRow(d)
      BY <1>21, <2>5, UpdateRow DEF RecordFailed, SetStatus, SameRow, TypeOK
    <3>3. QED
      BY <2>1, <2>2, <2>3, <3>2, RunnerLeaves DEF SameRows
  <2>6. QED
    BY <2>4, <2>5
<1>22. ASSUME NEW r \in Runners, RecordFailedService(r)  PROVE History' /\ SettledStays
  <2>1. SameGone
    BY <1>22, PatchSameGone, PatchStatus DEF RecordFailedService, TypeOK
  <2>2. QED
    BY <1>22, <2>1, HistoryEnd DEF RecordFailedService, SameRows, SameRow, asked, worker
<1>23. ASSUME NEW r \in Runners, RemoveSwarm(r)  PROVE History' /\ SettledStays
  <2>1. SameRows /\ SameGone /\ run[r].pc = "delete"
    BY <1>23 DEF RemoveSwarm, SameRows, SameRow, SameGone, Erased, rows
  <2>2. CASE End(r, FALSE)
    BY <1>23, <2>1, <2>2, HistoryEnd DEF RemoveSwarm, asked, worker
  <2>3. CASE Goto(r, "erasing") /\ UNCHANGED <<jobs, sweeping>>
    BY <1>23, <2>1, <2>3, HistoryGoto DEF RemoveSwarm, asked, worker, DeployPhase, BuildPhase, ShipPhase, BranchPhase
  <2>4. QED
    BY <1>23, <2>2, <2>3 DEF RemoveSwarm
<1>24. ASSUME NEW r \in Runners, EraseRow(r)  PROVE History' /\ SettledStays
  BY <1>24, HistoryErase
<1>25. ASSUME NEW r \in Runners, TeardownThrows(r)  PROVE History' /\ SettledStays
  <2>1. SameRows /\ SameGone
    BY <1>25 DEF TeardownThrows, SameRows, SameRow, SameGone, Erased, rows
  <2>2. QED
    BY <1>25, <2>1, HistoryGoto DEF TeardownThrows, asked, worker, DeployPhase, BuildPhase, ShipPhase, BranchPhase
<1>26. ASSUME NEW r \in Runners, RecordStuck(r)  PROVE History' /\ SettledStays
  <2>1. SameGone
    BY <1>26, PatchSameGone, PatchStatus DEF RecordStuck, TypeOK
  <2>2. QED
    BY <1>26, <2>1, HistoryEnd DEF RecordStuck, SameRows, SameRow, asked, worker
<1>27. ASSUME NEW r \in Runners, Scale(r)  PROVE History' /\ SettledStays
  <2>1. SameRows /\ SameGone /\ run[r].pc # "idle"
    BY <1>27 DEF Scale, Fail, SameRows, SameRow, SameGone, Erased, rows
  <2>2. CASE End(r, TRUE)
    BY <1>27, <2>1, <2>2, HistoryEnd DEF Scale, Fail, asked, worker
  <2>3. CASE Goto(r, IF run[r].pc = "stop" THEN "stopped" ELSE "started")
             /\ UNCHANGED <<jobs, sweeping>>
    BY <1>27, <2>1, <2>3, HistoryGoto DEF Scale, Fail, asked, worker, DeployPhase, BuildPhase, ShipPhase, BranchPhase
  <2>4. QED
    BY <1>27, <2>2, <2>3 DEF Scale, Fail
<1>28. ASSUME NEW r \in Runners, RecordLifecycle(r)  PROVE History' /\ SettledStays
  <2>1. SameGone
    BY <1>28, PatchSameGone, PatchStatus DEF RecordLifecycle, SameGone, Erased, TypeOK
  <2>2. QED
    BY <1>28, <2>1, HistoryEnd DEF RecordLifecycle, SameRows, SameRow, asked, worker
<1>29. ASSUME StartSweep  PROVE History' /\ SettledStays
  BY <1>29, HistorySweep
<1>30. ASSUME NEW d \in Ids, Inspect(d)  PROVE History' /\ SettledStays
  <2>0. d \in Runners
    BY ConstantRecords
  <2>1. SameRows /\ SameGone /\ run[d].pc = "inspect"
    BY <1>30 DEF Inspect, SameRows, SameRow, SameGone, Erased, rows
  <2>2. CASE Goto(d, "looping") /\ UNCHANGED <<jobs, sweeping>>
    <3>1. OthersStay(d) /\ run'[d].pc = "looping" /\ run'[d].dep = run[d].dep
      BY <2>0, <2>2, GotoRuns DEF OthersStay
    <3>2. AskedStay /\ active' = active
      BY <1>30, <2>2 DEF Inspect, AskedStay, asked, jobs, worker
    <3>3. QED
      BY <2>0, <2>1, <3>1, <3>2, RunnerStays DEF DeployPhase, BuildPhase, ShipPhase, BranchPhase
  <2>3. CASE End(d, TRUE) \/ End(d, FALSE)
    BY <1>30, <2>0, <2>1, <2>3, HistoryEnd DEF Inspect, asked, worker
  <2>4. QED
    BY <1>30, <2>2, <2>3 DEF Inspect, Fail
<1>31. ASSUME NEW d \in Ids, FindPrevious(d)  PROVE History' /\ SettledStays
  <2>0. d \in Runners
    BY ConstantRecords
  <2>1. SameRows /\ SameGone /\ AskedStay /\ active' = active /\ run[d].pc = "looping"
    BY <1>31 DEF FindPrevious, SameRows, SameRow, SameGone, Erased, AskedStay, rows, asked, jobs, worker
  <2>2. OthersStay(d) /\ run'[d].pc = "reverting" /\ run'[d].dep = run[d].dep
    BY <1>31, <2>0 DEF FindPrevious, OthersStay, TypeOK, Locals
  <2>3. QED
    BY <2>0, <2>1, <2>2, RunnerStays DEF DeployPhase, BuildPhase, ShipPhase, BranchPhase
<1>32. ASSUME NEW d \in Ids, RecordReverted(d)  PROVE History' /\ SettledStays
  <2> DEFINE row == [deployments[d] EXCEPT !.status = "reverted_by_watch", !.watch = "none"]
  <2>0. d \in Runners /\ d # Worker
    BY ConstantRecords DEF Ids, Worker
  <2>1. run[d].pc = "reverting" /\ Owns(d, d)
    BY <1>32 DEF RecordReverted, Owns
  <2>2. /\ OthersStay(d) /\ run'[d].pc \in {"stranding", "reshipping"}
        /\ SameGone /\ AskedStay /\ active' = active
    BY <1>32, <2>0, GotoRuns DEF RecordReverted, OthersStay, SameGone, Erased, AskedStay, asked, jobs, worker
  <2>3. run'[d].pc \notin DeployPhase \cup BranchPhase \cup {"deploy"}
    BY <2>2 DEF DeployPhase, BuildPhase, ShipPhase, BranchPhase
  <2>4. row.trigger = deployments[d].trigger /\ row.status = "reverted_by_watch"
    BY DEF TypeOK, Deployment
  <2>5. /\ \A e \in Ids : e # d => SameRow(e)
        /\ deployments'[d].trigger = deployments[d].trigger
        /\ Exists(d)' <=> Exists(d)
        /\ Exists(d) => deployments'[d].status = "reverted_by_watch"
    BY <1>32, <2>4, UpdateOne DEF RecordReverted
  <2>6. QED
    BY <2>0, <2>1, <2>2, <2>3, <2>5, RunnerSettles DEF Settled
<1>33. ASSUME NEW d \in Ids, RecordStranded(d)  PROVE History' /\ SettledStays
  <2>0. d \in Runners
    BY ConstantRecords
  <2>1. SameGone
    BY <1>33, PatchSameGone, PatchStatus DEF RecordStranded, TypeOK
  <2>2. QED
    BY <1>33, <2>0, <2>1, HistoryEnd DEF RecordStranded, SameRows, SameRow, asked, worker
<1>34. ASSUME NEW d \in Ids, WatchElapses(d)  PROVE History' /\ SettledStays
  <2>1. SameRows
    BY <1>34 DEF WatchElapses, SameRows, SameRow, TypeOK, Deployment
  <2>2. QED
    BY <1>34, <2>1, HistoryKept DEF WatchElapses, SameGone, Erased, asked, procs, worker
<1>35. ASSUME Crash  PROVE History' /\ SettledStays
  BY <1>35, HistoryCrash
<1>36. ASSUME RecoverDeployments  PROVE History' /\ SettledStays
  BY <1>36, HistoryRecovers
<1>37. ASSUME RecoverLook  PROVE History' /\ SettledStays
  BY <1>37, HistoryKept DEF RecoverLook, SameRows, SameRow, SameGone, Erased, rows, asked, procs
<1>38. ASSUME RecoverService  PROVE History' /\ SettledStays
  <2>1. SameGone
    BY <1>38, PatchSameGone, PatchStatus DEF RecoverService, TypeOK
  <2>2. QED
    BY <1>38, <2>1, HistoryKept DEF RecoverService, SameRows, SameRow, asked, procs
<1>39. ASSUME StalledJobReturns  PROVE History' /\ SettledStays
  BY <1>39, HistoryReturns
<1>40. ASSUME SwarmBegins \/ SwarmConverges \/ SwarmRollsBack \/ TasksFail  PROVE History' /\ SettledStays
  BY <1>40, HistoryKept
     DEF SwarmBegins, SwarmConverges, SwarmRollsBack, TasksFail, SameRows, SameRow, SameGone, Erased, rows, asked, procs, worker
<1>41. CASE UNCHANGED vars
  BY <1>41, HistoryKept DEF vars, SameRows, SameRow, SameGone, Erased, rows, asked, jobs, procs, worker
<1>42. QED
  BY <1>1, <1>2, <1>3, <1>4, <1>5, <1>6, <1>7, <1>8, <1>9, <1>10, <1>11, <1>12, <1>13, <1>14, <1>15, <1>16, <1>17, <1>18, <1>19, <1>20, <1>21, <1>22, <1>23, <1>24, <1>25, <1>26, <1>27, <1>28, <1>29, <1>30, <1>31, <1>32, <1>33, <1>34, <1>35, <1>36, <1>37, <1>38, <1>39, <1>40, <1>41
     DEF Next, Dashboard, Step, Ship, Teardown, Watch, Restart

\* A settled row stays as it is, but for what SettledIsFinal names: whatever
\* the order of requests, jobs, sweeps, teardowns, crashes and redeliveries.
THEOREM HistoryIsFinal == Spec => SettledIsFinal
<1>1. Init => TypeOK /\ Owned /\ History
  BY InitType, OwnedInit, HistoryInit
<1>2. TypeOK /\ Owned /\ History /\ [Next]_vars => (TypeOK /\ Owned /\ History)'
  BY TypeStep, OwnedStep, HistoryStep
<1>3. TypeOK /\ Owned /\ History /\ [Next]_vars => [SettledStays]_vars
  BY HistoryStep
<1>4. QED
  BY <1>1, <1>2, <1>3, PTL DEF Spec, SettledIsFinal


-----------------------------------------------------------------------------
(* Which runner stands where *)

\* The counters between the acceptance of a row and the last statement of
\* recordAcceptedService.
Recording == {"pointing", "clearing"}

Lifecycles == {"start", "stop", "restart"}
WorkerOnly == Lifecycles \cup {"rollback", "delete", "erasing", "stuck", "started", "stopped"}
BranchOnly == BranchPhase \cup {"stranding", "reshipping"}

\* The worker runs the job it holds, and only the branches watch.
Roles ==
    /\ \A d \in Ids : run[d].pc \notin WorkerOnly
    /\ run[Worker].pc \notin BranchOnly
    /\ run[Worker].pc \in Lifecycles \cup {"rollback"} => active.kind = run[Worker].pc
    /\ run[Worker].pc = "stopped" => active.kind = "stop"
    /\ run[Worker].pc = "started" => active.kind \in {"start", "restart"}
    /\ active = NoJob => run[Worker].pc = "idle"

LEMMA RolesInit == Init => Roles
BY ConstantRecords
   DEF Init, Roles, Idle, WorkerOnly, BranchOnly, BranchPhase, Lifecycles

LEMMA WorkerApart == \A d \in Ids : d # Worker /\ d \in Runners
BY ConstantRecords DEF Ids, Worker

LEMMA RolesKept ==
    ASSUME Roles, UNCHANGED <<run, active>>
    PROVE  Roles'
BY DEF Roles

\* A runner goes on.
LEMMA RolesGoto ==
    ASSUME TypeOK, Roles, NEW r \in Runners, NEW pc, Goto(r, pc), run[r].pc # "idle",
           active' = active,
           pc \in WorkerOnly => r = Worker /\ pc \notin Lifecycles \cup {"rollback"},
           pc \in BranchOnly => r # Worker,
           pc = "stopped" => active.kind = "stop",
           pc = "started" => active.kind \in {"start", "restart"}
    PROVE  Roles'
<1>1. /\ \A s \in Runners : s # r => run'[s] = run[s]
      /\ run'[r].pc = pc
  BY GotoRuns
<1>2. \A d \in Ids : run'[d].pc \notin WorkerOnly
  BY <1>1, WorkerApart DEF Roles
<1>3. CASE r = Worker
  BY <1>1, <1>2, <1>3 DEF Roles, WorkerOnly
<1>4. CASE r # Worker
  BY <1>1, <1>2, <1>4, ConstantRecords DEF Roles
<1>5. QED
  BY <1>3, <1>4

LEMMA RolesEnd ==
    ASSUME TypeOK, Roles, NEW r \in Runners, NEW threw \in BOOLEAN, End(r, threw)
    PROVE  Roles'
<1>1. /\ \A s \in Runners : s # r => run'[s] = run[s]
      /\ run'[r].pc = "idle"
      /\ active' = active \/ (r = Worker /\ active' = NoJob)
  BY EndRuns DEF Idle
<1>2. \A d \in Ids : run'[d].pc \notin WorkerOnly
  BY <1>1, WorkerApart DEF Roles, WorkerOnly, Lifecycles
<1>3. CASE r = Worker
  BY <1>1, <1>2, <1>3 DEF Roles, BranchOnly, BranchPhase, Lifecycles
<1>4. CASE r # Worker
  BY <1>1, <1>2, <1>4, ConstantRecords DEF Roles
<1>5. QED
  BY <1>3, <1>4

LEMMA RolesStep == TypeOK /\ Owned /\ Roles /\ [Next]_vars => Roles'
<1> SUFFICES ASSUME TypeOK, Owned, Roles, [Next]_vars
             PROVE  Roles'
  OBVIOUS
<1> USE DEF WorkerOnly, BranchOnly, BranchPhase, Lifecycles
<1>1. ASSUME UNCHANGED <<run, active>>  PROVE Roles'
  BY <1>1, RolesKept
<1>2. ASSUME NEW r \in Runners, NEW threw \in BOOLEAN, End(r, threw)  PROVE Roles'
  BY <1>2, RolesEnd
<1>3. ASSUME TakeJob  PROVE Roles'
  <2>1. queue # <<>> /\ active' = Head(queue) /\ active' \in Job
    BY <1>3 DEF TakeJob, TypeOK
  <2>2. /\ run'[Worker].pc = active'.kind /\ active'.kind \in JobKinds
        /\ \A d \in Ids : run'[d] = run[d]
    BY <1>3, <2>1, WorkerApart, ConstantRecords DEF TakeJob, TypeOK, Locals, Job
  <2>3. active' # NoJob
    BY <2>2 DEF NoJob, JobKinds
  <2>4. QED
    BY <2>2, <2>3 DEF Roles, JobKinds
<1>4. ASSUME NEW r \in Runners, StartDeploy(r)  PROVE Roles'
  <2>1. CASE Fail(r)
    BY <1>2, <2>1 DEF Fail
  <2>2. CASE run' = [run EXCEPT ![r] = [pc |-> "building", dep |-> active.arg, image |-> active.arg]]
             /\ UNCHANGED jobs
    <3>1. r = Worker /\ active # NoJob
      BY <1>4 DEF StartDeploy, Owned, Runners, NoJob
    <3>2. QED
      BY <2>2, <3>1, WorkerApart, ConstantRecords DEF Roles, jobs, TypeOK
  <2>3. QED
    BY <1>4, <2>1, <2>2 DEF StartDeploy
<1>5. ASSUME NEW r \in Runners, StartRedeploy(r)  PROVE Roles'
  <2>1. CASE Fail(r)
    BY <1>2, <2>1 DEF Fail
  <2>2. CASE ~Fail(r)
    <3>1. PICK s : s.pc = "shipping" /\ run' = [run EXCEPT ![r] = s] /\ UNCHANGED jobs
      BY <1>5, <2>2 DEF StartRedeploy
    <3>2. r = Worker => active # NoJob
      BY <1>5 DEF StartRedeploy, Roles
    <3>3. QED
      BY <3>1, <3>2, WorkerApart, ConstantRecords DEF Roles, jobs, TypeOK
  <2>3. QED
    BY <2>1, <2>2
<1>6. ASSUME NEW r \in Runners, ResolveImage(r) \/ Rollout(r) \/ RecordSucceeded(r)
                 \/ RecordCurrent(r) \/ RecordRolledBack(r) \/ RecordFailed(r)
      PROVE  Roles'
  <2>1. CASE ResolveImage(r)
    BY <2>1, RolesGoto DEF ResolveImage, jobs
  <2>2. CASE Rollout(r)
    BY <2>2, RolesGoto DEF Rollout, jobs
  <2>3. CASE RecordSucceeded(r)
    BY <2>3, RolesGoto DEF RecordSucceeded, jobs
  <2>4. CASE RecordCurrent(r)
    BY <2>4, RolesGoto DEF RecordCurrent, jobs
  <2>5. CASE RecordRolledBack(r)
    BY <2>5, RolesGoto DEF RecordRolledBack, jobs
  <2>6. CASE RecordFailed(r)
    BY <2>6, RolesGoto DEF RecordFailed, jobs
  <2>7. QED
    BY <1>6, <2>1, <2>2, <2>3, <2>4, <2>5, <2>6
<1>7. ASSUME NEW r \in Runners, ReadVerdict(r)  PROVE Roles'
  BY <1>7, RolesGoto DEF ReadVerdict, jobs
<1>8. ASSUME NEW r \in Runners, Throw(r)  PROVE Roles'
  <2>1. CASE Goto(r, "failing") /\ UNCHANGED <<jobs, sweeping>>
    BY <1>8, <2>1, RolesGoto DEF Throw, jobs
  <2>2. QED
    BY <1>2, <1>8, <2>1 DEF Throw
<1>9. ASSUME NEW r \in Runners, ClearSupersededWatch(r) \/ RecordCrashed(r) \/ RecordFailedService(r)
                 \/ EraseRow(r) \/ RecordStuck(r) \/ RecordLifecycle(r)
      PROVE  Roles'
  BY <1>2, <1>9
     DEF ClearSupersededWatch, RecordCrashed, RecordFailedService, EraseRow, RecordStuck, RecordLifecycle
<1>10. ASSUME NEW r \in Runners, run[r].pc \in {"start", "stop", "restart", "delete"}
       PROVE  r = Worker /\ (run[r].pc # "delete" => active.kind = run[r].pc)
  BY <1>10 DEF Roles, Runners
<1>11. ASSUME NEW r \in Runners, RemoveSwarm(r)  PROVE Roles'
  <2>1. CASE Goto(r, "erasing") /\ UNCHANGED <<jobs, sweeping>>
    BY <1>10, <1>11, <2>1, RolesGoto DEF RemoveSwarm, jobs
  <2>2. QED
    BY <1>2, <1>11, <2>1 DEF RemoveSwarm
<1>12. ASSUME NEW r \in Runners, TeardownThrows(r)  PROVE Roles'
  BY <1>10, <1>12, RolesGoto DEF TeardownThrows, jobs
<1>13. ASSUME NEW r \in Runners, Scale(r)  PROVE Roles'
  <2>1. CASE End(r, TRUE)
    BY <1>2, <2>1
  <2>2. CASE Goto(r, IF run[r].pc = "stop" THEN "stopped" ELSE "started") /\ UNCHANGED <<jobs, sweeping>>
    <3>1. r = Worker /\ active.kind = run[r].pc /\ run[r].pc \in {"start", "stop", "restart"}
      BY <1>10, <1>13 DEF Scale
    <3>2. QED
      BY <2>2, <3>1, RolesGoto DEF jobs
  <2>3. QED
    BY <1>13, <2>1, <2>2 DEF Scale, Fail
<1>14. ASSUME StartSweep  PROVE Roles'
  <2>1. run'[Worker] = run[Worker] /\ active' = active
    BY <1>14, WorkerApart, ConstantRecords DEF StartSweep, jobs
  <2>2. \A d \in Ids : run'[d].pc \notin WorkerOnly
    BY <1>14, WorkerApart DEF StartSweep, Roles, Idle
  <2>3. QED
    BY <2>1, <2>2 DEF Roles
<1>15. ASSUME NEW d \in Ids, Inspect(d)  PROVE Roles'
  <2>1. CASE Goto(d, "looping") /\ UNCHANGED <<jobs, sweeping>>
    BY <1>15, <2>1, WorkerApart, RolesGoto DEF Inspect, jobs
  <2>2. QED
    BY <1>2, <1>15, <2>1, WorkerApart DEF Inspect, Fail
<1>16. ASSUME NEW d \in Ids, FindPrevious(d)  PROVE Roles'
  <2>1. /\ \A s \in Runners : s # d => run'[s] = run[s]
        /\ run'[d].pc = "reverting" /\ active' = active
    BY <1>16, WorkerApart DEF FindPrevious, TypeOK, Locals, jobs
  <2>2. QED
    BY <2>1, WorkerApart, ConstantRecords DEF Roles
<1>17. ASSUME NEW d \in Ids, RecordReverted(d)  PROVE Roles'
  BY <1>17, WorkerApart, RolesGoto DEF RecordReverted, jobs
<1>18. ASSUME NEW d \in Ids, RecordStranded(d)  PROVE Roles'
  BY <1>2, <1>18, WorkerApart DEF RecordStranded
<1>19. ASSUME Crash  PROVE Roles'
  BY <1>19, WorkerApart, ConstantRecords DEF Crash, Roles, Idle
<1>20. CASE Dashboard
  BY <1>1, <1>20
     DEF Dashboard, RequestDeploy, RequestMark, RequestEnqueue, RequestLost, RequestRollback,
         RequestLifecycle, RequestDelete, DeleteEnqueue, jobs, procs
<1>21. CASE Restart \/ \E d \in Ids : WatchElapses(d)
  BY <1>1, <1>21
     DEF Restart, RecoverDeployments, RecoverLook, RecoverService, StalledJobReturns, WatchElapses,
         jobs, procs
<1>22. CASE SwarmBegins \/ SwarmConverges \/ SwarmRollsBack \/ TasksFail \/ UNCHANGED vars
  BY <1>1, <1>22 DEF SwarmBegins, SwarmConverges, SwarmRollsBack, TasksFail, vars, jobs, procs
<1>23. QED
  BY <1>3, <1>4, <1>5, <1>6, <1>7, <1>8, <1>9, <1>11, <1>12, <1>13, <1>14, <1>15, <1>16, <1>17, <1>18, <1>19, <1>20, <1>21, <1>22
     DEF Next, Step, Ship, Teardown, Watch

-----------------------------------------------------------------------------
(* One watched row *)

\* OneWatched is not inductive: while acceptances are being recorded several
\* rows are watched, and then one of any two belongs to a recording that has
\* yet to close the watch of the other.
Watched1 ==
    crashes = 0 => \A d, e \in Ids :
        deployments[d].watch = "open" /\ deployments[e].watch = "open" /\ d # e =>
            \E r \in Runners : run[r].pc \in Recording /\ run[r].dep \in {d, e}

\* A step opens no watch and ends no recording.
LEMMA WatchKept ==
    ASSUME Watched1, crashes' = 0 => crashes = 0,
           \A d \in Ids : deployments'[d].watch = "open" => deployments[d].watch = "open",
           \A r \in Runners : run[r].pc \in Recording =>
               run'[r].pc \in Recording /\ run'[r].dep = run[r].dep
    PROVE  Watched1'
BY DEF Watched1

\* The steps of one runner that is not recording, and opens no watch.
LEMMA WatchRunner ==
    ASSUME Watched1, crashes' = crashes, NEW r \in Runners, OthersStay(r),
           run[r].pc \notin Recording,
           \A d \in Ids : deployments'[d].watch = "open" => deployments[d].watch = "open"
    PROVE  Watched1'
<1>1. \A s \in Runners : run[s].pc \in Recording => run'[s] = run[s]
  BY DEF OthersStay
<1>2. QED
  BY <1>1, WatchKept

LEMMA WatchEnd ==
    ASSUME TypeOK, Watched1, crashes' = crashes, NEW r \in Runners, NEW threw \in BOOLEAN,
           End(r, threw), run[r].pc \notin Recording,
           \A d \in Ids : deployments'[d].watch = "open" => deployments[d].watch = "open"
    PROVE  Watched1'
BY EndRuns, WatchRunner DEF OthersStay

LEMMA WatchGoto ==
    ASSUME TypeOK, Watched1, crashes' = crashes, NEW r \in Runners, NEW pc,
           Goto(r, pc), run[r].pc \notin Recording,
           \A d \in Ids : deployments'[d].watch = "open" => deployments[d].watch = "open"
    PROVE  Watched1'
BY GotoRuns, WatchRunner DEF OthersStay

\* An UPDATE of a row that does not open its watch.
LEMMA UpdateWatch ==
    ASSUME TypeOK, NEW d, NEW row, Update(d, row),
           d \in Ids /\ row.watch = "open" => deployments[d].watch = "open"
    PROVE  \A e \in Ids : deployments'[e].watch = "open" => deployments[e].watch = "open"
BY UpdateRow DEF TypeOK

LEMMA SetStatusWatch ==
    ASSUME TypeOK, NEW d, NEW status, SetStatus(d, status)
    PROVE  \A e \in Ids : deployments'[e].watch = "open" => deployments[e].watch = "open"
BY UpdateWatch DEF SetStatus, TypeOK, Deployment

LEMMA WatchStep == TypeOK /\ Roles /\ Watched1 /\ [Next]_vars => Watched1'
<1> SUFFICES ASSUME TypeOK, Roles, Watched1, [Next]_vars
             PROVE  Watched1'
  OBVIOUS
<1> USE DEF Recording
<1>1. ASSUME UNCHANGED <<deployments, run, crashes>>  PROVE Watched1'
  BY <1>1, WatchKept
<1>2. ASSUME NEW d \in Ids, RequestDeploy(d)  PROVE Watched1'
  BY <1>2, WatchKept DEF RequestDeploy, Absent, TypeOK, procs, worker
<1>3. ASSUME TakeJob  PROVE Watched1'
  <2>1. OthersStay(Worker) /\ run[Worker].pc = "idle" /\ UNCHANGED <<deployments, crashes>>
    BY <1>3, ConstantRecords DEF TakeJob, Roles, OthersStay, TypeOK, rows, worker
  <2>2. QED
    BY <2>1, ConstantRecords, WatchRunner
<1>4. ASSUME NEW r \in Runners, StartDeploy(r)  PROVE Watched1'
  <2>1. CASE Fail(r)
    BY <1>4, <2>1, WatchEnd DEF StartDeploy, Fail, rows, worker
  <2>2. CASE ~Fail(r)
    <3>1. SetStatus(active.arg, "building") /\ OthersStay(r) /\ crashes' = crashes
      BY <1>4, <2>2 DEF StartDeploy, OthersStay, TypeOK, worker
    <3>2. QED
      BY <1>4, <3>1, SetStatusWatch, WatchRunner DEF StartDeploy
  <2>3. QED
    BY <2>1, <2>2
<1>5. ASSUME NEW r \in Runners, StartRedeploy(r)  PROVE Watched1'
  <2>1. CASE Fail(r)
    BY <1>5, <2>1, WatchEnd DEF StartRedeploy, Fail, rows, worker
  <2>2. CASE ~Fail(r)
    <3>1. PICK d, row : /\ d \in Ids
                        /\ deployments' = [deployments EXCEPT ![d] = row]
                        /\ row.watch = "none"
                        /\ OthersStay(r) /\ crashes' = crashes
      BY <1>5, <2>2 DEF StartRedeploy, OthersStay, TypeOK, worker
    <3>2. \A e \in Ids : deployments'[e].watch = "open" => deployments[e].watch = "open"
      BY <3>1 DEF TypeOK
    <3>3. QED
      BY <1>5, <3>1, <3>2, WatchRunner DEF StartRedeploy
  <2>3. QED
    BY <2>1, <2>2
<1>6. ASSUME NEW r \in Runners, ResolveImage(r)  PROVE Watched1'
  <2>1. \A e \in Ids : deployments'[e].watch = "open" => deployments[e].watch = "open"
    BY <1>6, UpdateWatch DEF ResolveImage, TypeOK, Deployment
  <2>2. QED
    BY <1>6, <2>1, WatchGoto DEF ResolveImage, worker
<1>7. ASSUME NEW r \in Runners, Rollout(r) \/ ReadVerdict(r)  PROVE Watched1'
  BY <1>7, WatchGoto DEF Rollout, ReadVerdict, rows, worker
<1>8. ASSUME NEW r \in Runners, Throw(r)  PROVE Watched1'
  BY <1>8, WatchGoto, WatchEnd DEF Throw, rows, worker
<1>9. ASSUME NEW r \in Runners, RecordSucceeded(r)  PROVE Watched1'
  <2>1. /\ \A s \in Runners : s # r => run'[s] = run[s]
        /\ run'[r].pc = "pointing" /\ run'[r].dep = run[r].dep
        /\ run[r].pc = "accepted" /\ crashes' = crashes
    BY <1>9, GotoRuns DEF RecordSucceeded, worker
  <2>2. \A e \in Ids : e # run[r].dep => deployments'[e] = deployments[e]
    BY <1>9, UpdateRow DEF RecordSucceeded, TypeOK
  <2>3. \A s \in Runners : run[s].pc \in Recording => s # r /\ run'[s] = run[s]
    BY <2>1
  <2>4. QED
    BY <2>1, <2>2, <2>3 DEF Watched1
<1>10. ASSUME NEW r \in Runners, RecordCurrent(r)  PROVE Watched1'
  <2>1. /\ \A s \in Runners : s # r => run'[s] = run[s]
        /\ run'[r].pc = "clearing" /\ run'[r].dep = run[r].dep
    BY <1>10, GotoRuns DEF RecordCurrent
  <2>2. QED
    BY <1>10, <2>1, WatchKept DEF RecordCurrent, worker
<1>11. ASSUME NEW r \in Runners, ClearSupersededWatch(r)  PROVE Watched1'
  <2>1. \A d \in Ids : d # run[r].dep => deployments'[d].watch = "none"
    BY <1>11 DEF ClearSupersededWatch, TypeOK, Deployment
  <2>2. QED
    BY <2>1 DEF Watched1
<1>12. ASSUME NEW r \in Runners, RecordRolledBack(r)  PROVE Watched1'
  BY <1>12, SetStatusWatch, WatchGoto DEF RecordRolledBack, worker
<1>13. ASSUME NEW r \in Runners, RecordFailed(r)  PROVE Watched1'
  BY <1>13, SetStatusWatch, WatchGoto DEF RecordFailed, worker
<1>14. ASSUME NEW r \in Runners,
              RecordCrashed(r) \/ RecordFailedService(r) \/ RecordStuck(r) \/ RecordLifecycle(r)
       PROVE  Watched1'
  BY <1>14, WatchEnd
     DEF RecordCrashed, RecordFailedService, RecordStuck, RecordLifecycle, worker
<1>15. ASSUME NEW r \in Runners, EraseRow(r)  PROVE Watched1'
  <2>1. \A d \in Ids : deployments'[d].watch = "none"
    BY <1>15 DEF EraseRow, Absent
  <2>2. QED
    BY <2>1 DEF Watched1
<1>16. ASSUME NEW r \in Runners, RemoveSwarm(r) \/ TeardownThrows(r)  PROVE Watched1'
  BY <1>16, WatchEnd, WatchGoto DEF RemoveSwarm, TeardownThrows, rows, worker
<1>17. ASSUME NEW r \in Runners, Scale(r)  PROVE Watched1'
  BY <1>17, WatchEnd, WatchGoto DEF Scale, Fail, rows, worker
<1>18. ASSUME StartSweep  PROVE Watched1'
  <2>1. \A r \in Runners : run[r].pc \in Recording => run'[r] = run[r]
    BY <1>18 DEF StartSweep
  <2>2. QED
    BY <1>18, <2>1, WatchKept DEF StartSweep, rows, worker
<1>19. ASSUME NEW d \in Ids, Inspect(d)  PROVE Watched1'
  BY <1>19, WorkerApart, WatchEnd, WatchGoto DEF Inspect, Fail, rows, worker
<1>20. ASSUME NEW d \in Ids, FindPrevious(d)  PROVE Watched1'
  <2>1. OthersStay(d)
    BY <1>20, WorkerApart DEF FindPrevious, OthersStay, TypeOK
  <2>2. QED
    BY <1>20, <2>1, WorkerApart, WatchRunner DEF FindPrevious, rows, worker
<1>21. ASSUME NEW d \in Ids, RecordReverted(d)  PROVE Watched1'
  <2>1. \A e \in Ids : deployments'[e].watch = "open" => deployments[e].watch = "open"
    BY <1>21, UpdateWatch DEF RecordReverted, TypeOK, Deployment
  <2>2. QED
    BY <1>21, <2>1, WorkerApart, WatchGoto DEF RecordReverted, worker
<1>22. ASSUME NEW d \in Ids, RecordStranded(d)  PROVE Watched1'
  BY <1>22, WorkerApart, WatchEnd DEF RecordStranded, worker
<1>23. ASSUME NEW d \in Ids, WatchElapses(d)  PROVE Watched1'
  BY <1>23, WatchKept DEF WatchElapses, TypeOK, Deployment, procs, worker
<1>24. ASSUME Crash  PROVE Watched1'
  BY <1>24 DEF Crash, Watched1, TypeOK
<1>25. ASSUME RecoverDeployments  PROVE Watched1'
  BY <1>25, WatchKept DEF RecoverDeployments, TypeOK, Deployment, procs
<1>26. CASE \/ RequestDelete \/ DeleteEnqueue
            \/ \E d \in Ids : RequestMark(d) \/ RequestEnqueue(d) \/ RequestLost(d) \/ RequestRollback(d)
            \/ \E a \in {"start", "stop", "restart"} : RequestLifecycle(a)
  BY <1>1, <1>26
     DEF RequestMark, RequestEnqueue, RequestLost, RequestRollback, RequestLifecycle, RequestDelete,
         DeleteEnqueue, rows, procs, worker
<1>27. CASE RecoverLook \/ RecoverService \/ StalledJobReturns
  BY <1>1, <1>27 DEF RecoverLook, RecoverService, StalledJobReturns, rows, procs, worker
<1>28. CASE SwarmBegins \/ SwarmConverges \/ SwarmRollsBack \/ TasksFail \/ UNCHANGED vars
  BY <1>1, <1>28
     DEF SwarmBegins, SwarmConverges, SwarmRollsBack, TasksFail, vars, rows, procs, worker
<1>29. QED
  BY <1>2, <1>3, <1>4, <1>5, <1>6, <1>7, <1>8, <1>9, <1>10, <1>11, <1>12, <1>13, <1>14, <1>15, <1>16, <1>17, <1>18, <1>19, <1>20, <1>21, <1>22, <1>23, <1>24, <1>25, <1>26, <1>27, <1>28
     DEF Next, Dashboard, Step, Ship, Teardown, Watch, Restart

\* Once nobody records, one row at most is watched.
LEMMA WatchedAlone == TypeOK /\ Watched1 => OneWatched
<1> SUFFICES ASSUME TypeOK, Watched1, AllIdle, crashes = 0
             PROVE  Cardinality({d \in Ids : deployments[d].watch = "open"}) <= 1
  BY DEF OneWatched
<1> DEFINE Open == {d \in Ids : deployments[d].watch = "open"}
<1>1. \A d, e \in Open : d = e
  BY DEF Watched1, AllIdle, Recording
<1>2. CASE Open = {}
  BY <1>2, FS_EmptySet
<1>3. CASE Open # {}
  <2>1. PICK d \in Open : Open = {d}
    BY <1>1, <1>3
  <2>2. Cardinality({d}) = 1
    BY FS_Singleton
  <2>3. Cardinality(Open) <= 1
    BY <2>1, <2>2
  <2>4. QED
    BY <2>3
<1>4. QED
  BY <1>2, <1>3

\* However many acceptances interleave, statement by statement, once the
\* writers are done at most one deployment of the service is watched, as long
\* as the worker did not die.
THEOREM OneWatchedAlways == Spec => []OneWatched
<1>1. Init => TypeOK /\ Owned /\ Roles /\ Watched1
  BY InitType, OwnedInit, RolesInit DEF Init, Watched1, Absent
<1>2. TypeOK /\ Owned /\ Roles /\ Watched1 /\ [Next]_vars => (TypeOK /\ Owned /\ Roles /\ Watched1)'
  BY TypeStep, OwnedStep, RolesStep, WatchStep
<1>3. QED
  BY <1>1, <1>2, WatchedAlone, PTL DEF Spec


-----------------------------------------------------------------------------
(* What a step does to the images of the rows, to the service's pointer and *)
(* to what the runners hold                                                 *)

\* The counters of a runner that ships or records a row with an image.
Taken == {"shipping", "verdict", "accepted"} \cup Recording

\* The image a redeploy is given.
Given(r) == IF r = Worker THEN active.arg ELSE run[r].image

\* A row keeps its image, is inserted, gets the image its build names, or
\* goes with the service.
KeepsImage(d) ==
    \/ deployments'[d].image = deployments[d].image /\ (Exists(d)' <=> Exists(d))
    \/ ~Exists(d) /\ Exists(d)'
    \/ /\ ResolveImage(Worker) /\ d = run[Worker].dep /\ Exists(d) /\ Exists(d)'
       /\ deployments'[d].image = run[Worker].image
    \/ Erased' /\ ~Exists(d)' /\ deployments'[d].image = NoId

\* The pointer stays, goes with the service, or moves to the recorded row.
KeepsPointer ==
    \/ service'.current = service.current /\ SameGone /\ (Erased => service' = service)
    \/ Erased' /\ service' = Gone
    \/ \E r \in Runners :
         RecordCurrent(r) /\ ~Erased /\ ~Erased' /\ service'.current = run[r].dep

\* A runner comes by its row and its image in three ways.
ComesByImage(r) ==
    /\ run'[r].pc \in {"building", "reshipping"} =>
         \/ run'[r] = run[r]
         \/ run'[r].image \in Ids
    /\ run'[r].pc \in Taken =>
         \/ run[r].pc \in Taken /\ run'[r].dep = run[r].dep /\ run'[r].image = run[r].image
         \/ ResolveImage(r) /\ run'[r].dep = run[r].dep /\ run'[r].image = run[r].image
         \/ /\ run[r].pc \in {"rollback", "reshipping"}
            /\ run'[r].dep \in Ids /\ Fresh(run'[r].dep)
            /\ run'[r].image = Given(r) /\ deployments'[run'[r].dep].image = Given(r)
    /\ run'[r].pc \in Recording => run[r].pc \in Recording \/ RecordSucceeded(r)

LEMMA GotoImage ==
    ASSUME TypeOK, NEW r \in Runners, NEW pc, Goto(r, pc)
    PROVE  run'[r].image = run[r].image
BY DEF Goto, TypeOK, Locals

\* An UPDATE that leaves the image of its row.
LEMMA UpdateKeeps ==
    ASSUME TypeOK, NEW d, NEW row, Update(d, row),
           d \in Ids => row.image = deployments[d].image /\ row.status # "absent"
    PROVE  \A e \in Ids : KeepsImage(e)
<1>1. \A e \in Ids : deployments'[e] = IF e = d /\ Exists(d) THEN row ELSE deployments[e]
  BY UpdateRow DEF TypeOK
<1>2. QED
  BY <1>1 DEF KeepsImage, Exists

LEMMA SetStatusKeeps ==
    ASSUME TypeOK, NEW d, NEW status, status # "absent", SetStatus(d, status)
    PROVE  \A e \in Ids : KeepsImage(e)
BY UpdateKeeps DEF SetStatus, TypeOK, Deployment

\* A row is inserted.
LEMMA InsertKeeps ==
    ASSUME TypeOK, NEW d \in Ids, ~Exists(d), NEW row, row.status # "absent",
           deployments' = [deployments EXCEPT ![d] = row]
    PROVE  \A e \in Ids : KeepsImage(e)
BY DEF KeepsImage, Exists, TypeOK

LEMMA ImageEffect ==
    TypeOK /\ Owned /\ History /\ Roles /\ [Next]_vars => \A d \in Ids : KeepsImage(d)
<1> SUFFICES ASSUME TypeOK, Owned, History, Roles, [Next]_vars
             PROVE  \A e \in Ids : KeepsImage(e)
  OBVIOUS
<1> DEFINE Goal == \A e \in Ids : KeepsImage(e)
<1>1. ASSUME deployments' = deployments  PROVE Goal
  BY <1>1 DEF KeepsImage, Exists
<1>2. ASSUME NEW d \in Ids, RequestDeploy(d)  PROVE Goal
  <2>1. ~Exists(d) /\ deployments' = [deployments EXCEPT ![d] = [Absent EXCEPT !.status = "queued"]]
        /\ [Absent EXCEPT !.status = "queued"].status # "absent"
    BY <1>2 DEF RequestDeploy, Fresh, Absent
  <2>2. QED
    BY <2>1, InsertKeeps
<1>3. ASSUME NEW r \in Runners, StartDeploy(r)  PROVE Goal
  BY <1>1, <1>3, SetStatusKeeps DEF StartDeploy, Fail, rows
<1>4. ASSUME NEW r \in Runners, StartRedeploy(r)  PROVE Goal
  <2>1. CASE Fail(r)
    BY <1>1, <2>1 DEF Fail, rows
  <2>2. CASE ~Fail(r)
    <3>1. PICK d, row : /\ d \in Ids /\ ~Exists(d) /\ row.status # "absent"
                        /\ deployments' = [deployments EXCEPT ![d] = row]
      BY <1>4, <2>2 DEF StartRedeploy, Fresh
    <3>2. QED
      BY <3>1, InsertKeeps
  <2>3. QED
    BY <2>1, <2>2
<1>5. ASSUME NEW r \in Runners, ResolveImage(r)  PROVE Goal
  <2>1. r = Worker
    BY <1>5, ShipperOwns DEF ResolveImage, DeployPhase, BuildPhase, RunsDeploy
  <2> DEFINE new == [deployments[run[r].dep] EXCEPT !.status = "deploying", !.image = run[r].image]
  <2>2. \A e \in Ids : deployments'[e] = IF e = run[r].dep /\ Exists(run[r].dep) THEN new ELSE deployments[e]
    BY <1>5, UpdateRow DEF ResolveImage, TypeOK
  <2>3. run[r].dep \in Ids => new.image = run[r].image /\ new.status = "deploying"
    BY DEF TypeOK, Deployment
  <2>4. QED
    BY <1>5, <2>1, <2>2, <2>3 DEF KeepsImage, Exists
<1>6. ASSUME NEW r \in Runners, RecordSucceeded(r)  PROVE Goal
  BY <1>6, UpdateKeeps DEF RecordSucceeded, TypeOK, Deployment
<1>7. ASSUME NEW r \in Runners, ClearSupersededWatch(r)  PROVE Goal
  BY <1>7 DEF ClearSupersededWatch, KeepsImage, Exists, TypeOK, Deployment
<1>8. ASSUME NEW r \in Runners, RecordRolledBack(r) \/ RecordFailed(r)  PROVE Goal
  BY <1>8, SetStatusKeeps DEF RecordRolledBack, RecordFailed
<1>9. ASSUME NEW r \in Runners, EraseRow(r)  PROVE Goal
  BY <1>9 DEF EraseRow, KeepsImage, Exists, Absent, Erased, Gone
<1>10. ASSUME NEW d \in Ids, RecordReverted(d)  PROVE Goal
  BY <1>10, UpdateKeeps DEF RecordReverted, TypeOK, Deployment
<1>11. ASSUME NEW d \in Ids, WatchElapses(d)  PROVE Goal
  BY <1>11 DEF WatchElapses, KeepsImage, Exists, TypeOK, Deployment
<1>12. ASSUME RecoverDeployments  PROVE Goal
  BY <1>12 DEF RecoverDeployments, KeepsImage, Exists, TypeOK, Deployment, InFlight
<1>13. CASE \/ RequestDelete \/ DeleteEnqueue
            \/ \E d \in Ids : RequestMark(d) \/ RequestEnqueue(d) \/ RequestLost(d) \/ RequestRollback(d)
            \/ \E a \in {"start", "stop", "restart"} : RequestLifecycle(a)
  BY <1>1, <1>13
     DEF RequestMark, RequestEnqueue, RequestLost, RequestRollback, RequestLifecycle, RequestDelete,
         DeleteEnqueue, rows
<1>14. CASE \E r \in Runners :
              \/ Rollout(r) \/ ReadVerdict(r) \/ Throw(r) \/ RecordCurrent(r) \/ RecordCrashed(r)
              \/ RecordFailedService(r) \/ RemoveSwarm(r) \/ TeardownThrows(r) \/ RecordStuck(r)
              \/ Scale(r) \/ RecordLifecycle(r)
  BY <1>1, <1>14
     DEF Rollout, ReadVerdict, Throw, RecordCurrent, RecordCrashed, RecordFailedService, RemoveSwarm,
         TeardownThrows, RecordStuck, Scale, Fail, RecordLifecycle, rows
<1>15. CASE TakeJob \/ StartSweep \/ Crash \/ RecoverLook \/ RecoverService \/ StalledJobReturns
  BY <1>1, <1>15 DEF TakeJob, StartSweep, Crash, RecoverLook, RecoverService, StalledJobReturns, rows
<1>16. CASE \E d \in Ids : Inspect(d) \/ FindPrevious(d) \/ RecordStranded(d)
  BY <1>1, <1>16 DEF Inspect, FindPrevious, RecordStranded, rows
<1>17. CASE SwarmBegins \/ SwarmConverges \/ SwarmRollsBack \/ TasksFail \/ UNCHANGED vars
  BY <1>1, <1>17 DEF SwarmBegins, SwarmConverges, SwarmRollsBack, TasksFail, vars, rows
<1>18. QED
  BY <1>2, <1>3, <1>4, <1>5, <1>6, <1>7, <1>8, <1>9, <1>10, <1>11, <1>12, <1>13, <1>14, <1>15, <1>16, <1>17
     DEF Next, Dashboard, Step, Ship, Teardown, Watch, Restart

\* The patches of the status leave the pointer.
LEMMA PatchKeeps ==
    ASSUME service \in Service, NEW row, UpdateService(row), row.current = service.current,
           row.status # "gone"
    PROVE  KeepsPointer
BY DEF UpdateService, KeepsPointer, SameGone, Erased

LEMMA PatchCurrent ==
    ASSUME service \in Service
    PROVE  /\ MarkDeploying(service).current = service.current
           /\ MarkRunning(service).current = service.current
           /\ MarkStopped(service).current = service.current
           /\ MarkCrashed(service).current = service.current
           /\ MarkDeleting(service).current = service.current
           /\ MarkStuck(service).current = service.current
BY DEF Service, MarkDeploying, MarkRunning, MarkStopped, MarkCrashed, MarkDeleting, MarkStuck

LEMMA PointerEffect == TypeOK /\ [Next]_vars => KeepsPointer
<1> SUFFICES ASSUME TypeOK, [Next]_vars
             PROVE  KeepsPointer
  OBVIOUS
<1>0. service \in Service
  BY DEF TypeOK
<1>1. ASSUME service' = service  PROVE KeepsPointer
  BY <1>1 DEF KeepsPointer, SameGone, Erased
<1>2. ASSUME \/ UpdateService(MarkDeploying(service)) \/ UpdateService(MarkRunning(service))
             \/ UpdateService(MarkStopped(service)) \/ UpdateService(MarkCrashed(service))
             \/ UpdateService(MarkDeleting(service)) \/ UpdateService(MarkStuck(service))
      PROVE  KeepsPointer
  BY <1>0, <1>2, PatchKeeps, PatchCurrent, PatchStatus
<1>3. ASSUME NEW r \in Runners, RecordCurrent(r)  PROVE KeepsPointer
  <2>1. service' = IF Erased THEN service
                   ELSE [service EXCEPT !.current = run[r].dep, !.status = "running"]
    BY <1>3 DEF RecordCurrent, UpdateService, Erased
  <2>2. CASE Erased
    BY <1>1, <2>1, <2>2
  <2>3. CASE ~Erased
    <3>1. service'.current = run[r].dep /\ service'.status = "running"
      BY <1>0, <2>1, <2>3 DEF Service
    <3>2. QED
      BY <1>3, <2>3, <3>1 DEF KeepsPointer, Erased
  <2>4. QED
    BY <2>2, <2>3
<1>4. ASSUME NEW r \in Runners, RecordCrashed(r)  PROVE KeepsPointer
  BY <1>0, <1>4, PatchKeeps DEF RecordCrashed, Service
<1>5. ASSUME NEW r \in Runners, EraseRow(r)  PROVE KeepsPointer
  BY <1>5 DEF EraseRow, KeepsPointer, Erased, Gone
<1>6. ASSUME NEW r \in Runners, RecordLifecycle(r)  PROVE KeepsPointer
  BY <1>1, <1>2, <1>6 DEF RecordLifecycle
<1>7. CASE \/ RequestDelete \/ RecoverService
           \/ \E d \in Ids : RequestMark(d) \/ RecordStranded(d)
           \/ \E r \in Runners : RecordFailedService(r) \/ RecordStuck(r)
  BY <1>2, <1>7
     DEF RequestDelete, RecoverService, RequestMark, RecordStranded, RecordFailedService, RecordStuck
<1>8. CASE \/ DeleteEnqueue
           \/ \E d \in Ids : RequestDeploy(d) \/ RequestEnqueue(d) \/ RequestLost(d) \/ RequestRollback(d)
           \/ \E a \in {"start", "stop", "restart"} : RequestLifecycle(a)
  BY <1>1, <1>8
     DEF RequestDeploy, RequestEnqueue, RequestLost, RequestRollback, RequestLifecycle, DeleteEnqueue, rows
<1>9. CASE \E r \in Runners :
             \/ StartDeploy(r) \/ StartRedeploy(r) \/ ResolveImage(r) \/ Rollout(r) \/ ReadVerdict(r)
             \/ Throw(r) \/ RecordSucceeded(r) \/ ClearSupersededWatch(r) \/ RecordRolledBack(r)
             \/ RecordFailed(r) \/ RemoveSwarm(r) \/ TeardownThrows(r) \/ Scale(r)
  BY <1>1, <1>9
     DEF StartDeploy, StartRedeploy, ResolveImage, Rollout, ReadVerdict, Throw, RecordSucceeded,
         ClearSupersededWatch, RecordRolledBack, RecordFailed, RemoveSwarm, TeardownThrows, Scale,
         Fail, rows
<1>10. CASE \/ TakeJob \/ StartSweep \/ Crash \/ RecoverDeployments \/ RecoverLook \/ StalledJobReturns
            \/ \E d \in Ids : Inspect(d) \/ FindPrevious(d) \/ RecordReverted(d) \/ WatchElapses(d)
  BY <1>1, <1>10
     DEF TakeJob, StartSweep, Crash, RecoverDeployments, RecoverLook, StalledJobReturns, Inspect,
         FindPrevious, RecordReverted, WatchElapses, rows
<1>11. CASE SwarmBegins \/ SwarmConverges \/ SwarmRollsBack \/ TasksFail \/ UNCHANGED vars
  BY <1>1, <1>11 DEF SwarmBegins, SwarmConverges, SwarmRollsBack, TasksFail, vars, rows
<1>12. QED
  BY <1>3, <1>4, <1>5, <1>6, <1>7, <1>8, <1>9, <1>10, <1>11
     DEF Next, Dashboard, Step, Ship, Teardown, Watch, Restart

\* A runner that stands, ends, or goes on outside the counters named.
LEMMA StandsBy ==
    ASSUME NEW r \in Runners, run'[r] = run[r]
    PROVE  ComesByImage(r)
BY DEF ComesByImage, Recording, Taken

LEMMA GoesBy ==
    ASSUME NEW r \in Runners, run'[r].pc \notin Taken \cup {"building", "reshipping"}
    PROVE  ComesByImage(r)
BY DEF ComesByImage, Taken

LEMMA RunEffect ==
    TypeOK /\ Owned /\ History /\ Roles /\ [Next]_vars => \A r \in Runners : ComesByImage(r)
<1> SUFFICES ASSUME TypeOK, Owned, History, Roles, [Next]_vars
             PROVE  \A s \in Runners : ComesByImage(s)
  OBVIOUS
<1> DEFINE Goal == \A s \in Runners : ComesByImage(s)
<1> USE DEF Taken, Recording
<1>1. ASSUME run' = run  PROVE Goal
  BY <1>1, StandsBy
<1>2. ASSUME NEW r \in Runners, OthersStay(r), ComesByImage(r)  PROVE Goal
  BY <1>2, StandsBy DEF OthersStay
<1>3. ASSUME NEW r \in Runners, NEW threw \in BOOLEAN, End(r, threw)  PROVE Goal
  <2>1. OthersStay(r) /\ run'[r].pc = "idle"
    BY <1>3, EndRuns DEF OthersStay, Idle
  <2>2. QED
    BY <1>2, <2>1, GoesBy
<1>4. ASSUME NEW r \in Runners, NEW pc, Goto(r, pc), pc \notin Taken \cup {"building", "reshipping"}
      PROVE  Goal
  <2>1. OthersStay(r) /\ run'[r].pc = pc
    BY <1>4, GotoRuns DEF OthersStay
  <2>2. QED
    BY <1>2, <1>4, <2>1, GoesBy
<1>5. ASSUME TakeJob  PROVE Goal
  <2>1. queue # <<>> /\ Head(queue) \in Job
    BY <1>5 DEF TakeJob, TypeOK
  <2>2. OthersStay(Worker) /\ run'[Worker].pc \in JobKinds
    BY <1>5, <2>1, ConstantRecords DEF TakeJob, TypeOK, Locals, Job, OthersStay
  <2>3. QED
    BY <1>2, <2>2, ConstantRecords, GoesBy DEF JobKinds
<1>6. ASSUME NEW r \in Runners, StartDeploy(r)  PROVE Goal
  <2>1. CASE Fail(r)
    BY <1>3, <2>1 DEF Fail
  <2>2. CASE ~Fail(r)
    <3>1. active.arg \in Ids
      BY <1>6 DEF StartDeploy, Owned, Runners, History, BuildsItsOwn
    <3>2. OthersStay(r) /\ run'[r].pc = "building" /\ run'[r].image = active.arg
      BY <1>6, <2>2 DEF StartDeploy, OthersStay, TypeOK
    <3>3. QED
      BY <1>2, <3>1, <3>2 DEF ComesByImage
  <2>3. QED
    BY <2>1, <2>2
<1>7. ASSUME NEW r \in Runners, StartRedeploy(r)  PROVE Goal
  <2>1. CASE Fail(r)
    BY <1>3, <2>1 DEF Fail
  <2>2. CASE ~Fail(r)
    <3>1. run[r].pc \in {"rollback", "reshipping"}
      BY <1>7 DEF StartRedeploy
    <3>2. PICK d \in Ids :
             /\ Fresh(d)
             /\ deployments' = [deployments EXCEPT ![d] =
                  [status  |-> "deploying",
                   trigger |-> IF r = Worker THEN "rollback" ELSE "watch_revert",
                   image   |-> Given(r),
                   watch   |-> "none"]]
             /\ run' = [run EXCEPT ![r] = [pc |-> "shipping", dep |-> d, image |-> Given(r)]]
      BY <1>7, <2>2 DEF StartRedeploy, Given
    <3>3. /\ OthersStay(r) /\ run'[r].pc = "shipping" /\ run'[r].dep = d /\ run'[r].image = Given(r)
          /\ deployments'[d].image = Given(r)
      BY <3>2 DEF OthersStay, TypeOK
    <3>4. QED
      BY <1>2, <3>1, <3>2, <3>3 DEF ComesByImage
  <2>3. QED
    BY <2>1, <2>2
<1>8. ASSUME NEW r \in Runners, ResolveImage(r)  PROVE Goal
  <2>1. /\ OthersStay(r) /\ run'[r].pc = "shipping"
        /\ run'[r].dep = run[r].dep /\ run'[r].image = run[r].image
    BY <1>8, GotoRuns, GotoImage DEF ResolveImage, OthersStay
  <2>2. QED
    BY <1>2, <1>8, <2>1 DEF ComesByImage
<1>9. ASSUME NEW r \in Runners, NEW pc, Goto(r, pc), run[r].pc \in Taken,
             pc \in {"verdict", "accepted"} \/ (pc = "pointing" /\ RecordSucceeded(r))
             \/ (pc = "clearing" /\ run[r].pc = "pointing")
      PROVE  Goal
  <2>1. /\ OthersStay(r) /\ run'[r].pc = pc
        /\ run'[r].dep = run[r].dep /\ run'[r].image = run[r].image
    BY <1>9, GotoRuns, GotoImage DEF OthersStay
  <2>2. QED
    BY <1>2, <1>9, <2>1 DEF ComesByImage
<1>10. ASSUME NEW r \in Runners, Rollout(r)  PROVE Goal
  BY <1>9, <1>10 DEF Rollout
<1>11. ASSUME NEW r \in Runners, ReadVerdict(r)  PROVE Goal
  <2>1. CASE Accepted
    BY <1>9, <1>11, <2>1 DEF ReadVerdict
  <2>2. CASE ~Accepted
    BY <1>4, <1>11, <2>2 DEF ReadVerdict
  <2>3. QED
    BY <2>1, <2>2
<1>12. ASSUME NEW r \in Runners, RecordSucceeded(r)  PROVE Goal
  BY <1>9, <1>12 DEF RecordSucceeded
<1>13. ASSUME NEW r \in Runners, RecordCurrent(r)  PROVE Goal
  BY <1>9, <1>13 DEF RecordCurrent
<1>14. ASSUME NEW r \in Runners,
              Throw(r) \/ RecordRolledBack(r) \/ RecordFailed(r) \/ RemoveSwarm(r) \/ TeardownThrows(r)
       PROVE  Goal
  BY <1>3, <1>4, <1>14
     DEF Throw, RecordRolledBack, RecordFailed, RemoveSwarm, TeardownThrows
<1>15. ASSUME NEW r \in Runners, Scale(r)  PROVE Goal
  BY <1>3, <1>4, <1>15 DEF Scale, Fail
<1>16. CASE \E r \in Runners :
              \/ ClearSupersededWatch(r) \/ RecordCrashed(r) \/ RecordFailedService(r)
              \/ EraseRow(r) \/ RecordStuck(r) \/ RecordLifecycle(r)
  BY <1>3, <1>16
     DEF ClearSupersededWatch, RecordCrashed, RecordFailedService, EraseRow, RecordStuck, RecordLifecycle
<1>17. ASSUME StartSweep  PROVE Goal
  <2>1. \A s \in Runners : run'[s] = run[s] \/ run'[s].pc = "inspect"
    BY <1>17 DEF StartSweep, Idle
  <2>2. QED
    BY <2>1, StandsBy, GoesBy
<1>18. ASSUME NEW d \in Ids, Inspect(d)  PROVE Goal
  BY <1>3, <1>4, <1>18, WorkerApart DEF Inspect, Fail
<1>19. ASSUME NEW d \in Ids, FindPrevious(d)  PROVE Goal
  <2>1. OthersStay(d) /\ run'[d].pc = "reverting"
    BY <1>19, WorkerApart DEF FindPrevious, OthersStay, TypeOK, Locals
  <2>2. QED
    BY <1>2, <2>1, WorkerApart, GoesBy
<1>20. ASSUME NEW d \in Ids, RecordReverted(d)  PROVE Goal
  <2>1. CASE run[d].image = NoId
    BY <1>4, <1>20, <2>1, WorkerApart DEF RecordReverted
  <2>2. CASE run[d].image # NoId
    <3>1. OthersStay(d) /\ run'[d].pc = "reshipping" /\ run'[d].image = run[d].image
      BY <1>20, <2>2, WorkerApart, GotoRuns, GotoImage DEF RecordReverted, OthersStay
    <3>2. run[d].image \in Ids
      BY <2>2, WorkerApart, LocalsType DEF TypeOK
    <3>3. QED
      BY <1>2, <3>1, <3>2, WorkerApart DEF ComesByImage
  <2>3. QED
    BY <2>1, <2>2
<1>21. ASSUME NEW d \in Ids, RecordStranded(d)  PROVE Goal
  BY <1>3, <1>21, WorkerApart DEF RecordStranded
<1>22. ASSUME Crash  PROVE Goal
  <2>1. \A s \in Runners : run'[s].pc = "idle"
    BY <1>22 DEF Crash, Idle
  <2>2. QED
    BY <2>1, GoesBy
<1>23. CASE Dashboard
  BY <1>1, <1>23
     DEF Dashboard, RequestDeploy, RequestMark, RequestEnqueue, RequestLost, RequestRollback,
         RequestLifecycle, RequestDelete, DeleteEnqueue, procs
<1>24. CASE Restart \/ \E d \in Ids : WatchElapses(d)
  BY <1>1, <1>24
     DEF Restart, RecoverDeployments, RecoverLook, RecoverService, StalledJobReturns, WatchElapses, procs
<1>25. CASE SwarmBegins \/ SwarmConverges \/ SwarmRollsBack \/ TasksFail \/ UNCHANGED vars
  BY <1>1, <1>25 DEF SwarmBegins, SwarmConverges, SwarmRollsBack, TasksFail, vars, procs
<1>26. QED
  BY <1>5, <1>6, <1>7, <1>8, <1>10, <1>11, <1>12, <1>13, <1>14, <1>15, <1>16, <1>17, <1>18, <1>19, <1>20, <1>21, <1>22, <1>23, <1>24, <1>25
     DEF Next, Step, Ship, Teardown, Watch


-----------------------------------------------------------------------------
(* The service points at a row that was accepted *)

\* A rollback job names an image.
JobImages ==
    /\ \A i \in DOMAIN queue : queue[i].kind = "rollback" => queue[i].arg # NoId
    /\ active.kind = "rollback" => active.arg # NoId
    /\ stalled.kind = "rollback" => stalled.arg # NoId

\* What is absent has nothing.
NothingLeft ==
    /\ \A d \in Ids : ~Exists(d) => deployments[d].image = NoId
    /\ Erased => service = Gone

\* What is built or shipped has an image, and so has the row it is shipped for.
RunImages ==
    \A r \in Runners :
        /\ run[r].pc \in {"building", "reshipping"} => run[r].image # NoId
        /\ run[r].pc \in Taken /\ ~Erased =>
             run[r].dep \in Ids /\ deployments[run[r].dep].image # NoId

\* CurrentWasAccepted asks of the current row what must hold of a row whose
\* acceptance is being recorded already.
CurrentImage == service.current # NoId => deployments[service.current].image # NoId
AcceptedStay ==
    crashes = 0 =>
        /\ service.current # NoId =>
             deployments[service.current].status \in {"succeeded", "reverted_by_watch"}
        /\ ~Erased => \A r \in Runners : run[r].pc \in Recording =>
             deployments[run[r].dep].status \in {"succeeded", "reverted_by_watch"}

Pointing == JobImages /\ NothingLeft /\ RunImages /\ CurrentImage /\ AcceptedStay

LEMMA PointingInit == Init => Pointing
BY ConstantRecords
   DEF Init, Pointing, JobImages, NothingLeft, RunImages, CurrentImage, AcceptedStay, Absent, Idle,
       NoJob, NoId, Erased, Taken, Recording

\* A job joins the queue.
LEMMA AppendImages ==
    ASSUME TypeOK, JobImages, NEW job \in Job, queue' = Append(queue, job),
           job.kind = "rollback" => job.arg # NoId, UNCHANGED <<active, stalled>>
    PROVE  JobImages'
<1>1. /\ DOMAIN queue' = DOMAIN queue \cup {Len(queue) + 1}
      /\ queue'[Len(queue) + 1] = job
      /\ \A i \in DOMAIN queue : queue'[i] = queue[i]
  BY Appended DEF TypeOK
<1>2. QED
  BY <1>1 DEF JobImages

LEMMA JobImagesStep == TypeOK /\ JobImages /\ [Next]_vars => JobImages'
<1> SUFFICES ASSUME TypeOK, JobImages, [Next]_vars
             PROVE  JobImages'
  OBVIOUS
<1>1. ASSUME UNCHANGED <<queue, stalled>>, active' = active \/ active' = NoJob  PROVE JobImages'
  BY <1>1 DEF JobImages, NoJob
<1>2. ASSUME NEW r \in Runners, NEW threw \in BOOLEAN, End(r, threw)  PROVE JobImages'
  BY <1>1, <1>2 DEF End
<1>3. ASSUME NEW d \in Ids, RequestEnqueue(d)  PROVE JobImages'
  <2>1. NewJob("deploy", d) \in Job /\ NewJob("deploy", d).kind = "deploy"
    BY NewJobType DEF JobKinds, NewJob
  <2>2. QED
    BY <1>3, <2>1, AppendImages DEF RequestEnqueue
<1>4. ASSUME NEW d \in Ids, RequestRollback(d)  PROVE JobImages'
  <2> DEFINE job == NewJob("rollback", deployments[d].image)
  <2>1. job \in Job /\ job.arg = deployments[d].image
    BY NewJobType DEF JobKinds, NewJob, TypeOK, Deployment
  <2>2. deployments[d].image # NoId /\ queue' = Append(queue, job) /\ UNCHANGED <<active, stalled>>
    BY <1>4 DEF RequestRollback
  <2>3. QED
    BY <2>1, <2>2, AppendImages
<1>5. ASSUME NEW a \in {"start", "stop", "restart"}, RequestLifecycle(a)  PROVE JobImages'
  <2>1. NewJob(a, NoId) \in Job /\ NewJob(a, NoId).kind = a
    BY NewJobType DEF JobKinds, NewJob
  <2>2. QED
    BY <1>5, <2>1, AppendImages DEF RequestLifecycle
<1>6. ASSUME DeleteEnqueue  PROVE JobImages'
  <2>1. NewJob("delete", NoId) \in Job /\ NewJob("delete", NoId).kind = "delete"
    BY NewJobType DEF JobKinds, NewJob
  <2>2. QED
    BY <1>6, <2>1, AppendImages DEF DeleteEnqueue
<1>7. ASSUME TakeJob  PROVE JobImages'
  <2>1. /\ 1 \in DOMAIN queue /\ active' = queue[1] /\ stalled' = stalled
        /\ \A i \in DOMAIN queue' : i + 1 \in DOMAIN queue /\ queue'[i] = queue[i + 1]
    BY <1>7 DEF TakeJob, TypeOK
  <2>2. QED
    BY <2>1 DEF JobImages
<1>8. ASSUME Crash  PROVE JobImages'
  BY <1>8 DEF Crash, JobImages, NoJob
<1>9. ASSUME StalledJobReturns  PROVE JobImages'
  <2> DEFINE job == [stalled EXCEPT !.again = TRUE]
  <2>1. job \in Job /\ job.kind = stalled.kind /\ job.arg = stalled.arg
    BY <1>9 DEF StalledJobReturns, TypeOK, Job
  <2>2. queue' = <<job>> \o queue /\ stalled' = NoJob /\ active' = active
    BY <1>9 DEF StalledJobReturns
  <2>3. \A i \in DOMAIN queue' : queue'[i] = job \/ \E j \in DOMAIN queue : queue'[i] = queue[j]
    <3>1. queue \in Seq(Job) /\ <<job>> \in Seq(Job)
      BY <2>1 DEF TypeOK
    <3>2. \A i \in DOMAIN queue' : i = 1 \/ (i - 1 \in DOMAIN queue /\ queue'[i] = queue[i - 1])
      BY <2>2, <3>1
    <3>3. queue'[1] = job
      BY <2>2, <3>1
    <3>4. QED
      BY <3>2, <3>3
  <2>4. QED
    BY <2>1, <2>2, <2>3 DEF JobImages, NoJob
<1>10. CASE RequestDelete \/ \E d \in Ids : RequestDeploy(d) \/ RequestMark(d) \/ RequestLost(d)
  BY <1>1, <1>10 DEF RequestDelete, RequestDeploy, RequestMark, RequestLost, jobs
<1>11. CASE \E r \in Runners : StartDeploy(r) \/ StartRedeploy(r)
  BY <1>1, <1>2, <1>11 DEF StartDeploy, StartRedeploy, Fail, jobs
<1>12. CASE \E r \in Runners : Ship(r)
  BY <1>1, <1>2, <1>12
     DEF Ship, ResolveImage, Rollout, ReadVerdict, Throw, RecordSucceeded, RecordCurrent,
         ClearSupersededWatch, RecordRolledBack, RecordCrashed, RecordFailed, RecordFailedService, jobs
<1>13. CASE \E r \in Runners : Teardown(r) \/ Scale(r) \/ RecordLifecycle(r)
  BY <1>1, <1>2, <1>13
     DEF Teardown, RemoveSwarm, EraseRow, TeardownThrows, RecordStuck, Scale, Fail, RecordLifecycle, jobs
<1>14. CASE \E d \in Ids : Watch(d) \/ WatchElapses(d)
  BY <1>1, <1>2, <1>14, WorkerApart
     DEF Watch, Inspect, Fail, FindPrevious, RecordReverted, RecordStranded, WatchElapses, jobs
<1>15. CASE StartSweep \/ RecoverDeployments \/ RecoverLook \/ RecoverService
  BY <1>1, <1>15 DEF StartSweep, RecoverDeployments, RecoverLook, RecoverService, jobs
<1>16. CASE SwarmBegins \/ SwarmConverges \/ SwarmRollsBack \/ TasksFail \/ UNCHANGED vars
  BY <1>1, <1>16 DEF SwarmBegins, SwarmConverges, SwarmRollsBack, TasksFail, vars, jobs
<1>17. QED
  BY <1>3, <1>4, <1>5, <1>6, <1>7, <1>8, <1>9, <1>10, <1>11, <1>12, <1>13, <1>14, <1>15, <1>16
     DEF Next, Dashboard, Step, Restart

\* A row with an image keeps having one, until the service is erased.
LEMMA ImageStays ==
    ASSUME NothingLeft, RunImages, NEW d \in Ids, KeepsImage(d),
           deployments[d].image # NoId, ~Erased'
    PROVE  deployments'[d].image # NoId /\ Exists(d) /\ Exists(d)'
<1>1. Exists(d)
  BY DEF NothingLeft
<1>2. ResolveImage(Worker) => run[Worker].image # NoId
  BY ConstantRecords DEF RunImages, ResolveImage
<1>3. QED
  BY <1>1, <1>2 DEF KeepsImage

\* The count of crashes only grows.
LEMMA CrashesGrow ==
    ASSUME TypeOK, [Next]_vars, crashes' = 0
    PROVE  crashes = 0
<1>1. CASE Crash
  BY <1>1 DEF Crash, TypeOK
<1>2. CASE Dashboard \/ TakeJob \/ StartSweep \/ Restart \/ \E d \in Ids : WatchElapses(d)
  BY <1>2
     DEF Dashboard, RequestDeploy, RequestMark, RequestEnqueue, RequestLost, RequestRollback,
         RequestLifecycle, RequestDelete, DeleteEnqueue, TakeJob, StartSweep, Restart,
         RecoverDeployments, RecoverLook, RecoverService, StalledJobReturns, WatchElapses, worker
<1>3. CASE \E r \in Runners : StartDeploy(r) \/ StartRedeploy(r) \/ Ship(r)
  BY <1>3
     DEF StartDeploy, StartRedeploy, Fail, Ship, ResolveImage, Rollout, ReadVerdict, Throw,
         RecordSucceeded, RecordCurrent, ClearSupersededWatch, RecordRolledBack, RecordCrashed,
         RecordFailed, RecordFailedService, worker
<1>4. CASE \E r \in Runners : Teardown(r) \/ Scale(r) \/ RecordLifecycle(r)
  BY <1>4
     DEF Teardown, RemoveSwarm, EraseRow, TeardownThrows, RecordStuck, Scale, Fail, RecordLifecycle, worker
<1>5. CASE \E d \in Ids : Watch(d)
  BY <1>5 DEF Watch, Inspect, Fail, FindPrevious, RecordReverted, RecordStranded, worker
<1>6. CASE SwarmBegins \/ SwarmConverges \/ SwarmRollsBack \/ TasksFail \/ UNCHANGED vars
  BY <1>6 DEF SwarmBegins, SwarmConverges, SwarmRollsBack, TasksFail, vars, worker
<1>7. QED
  BY <1>1, <1>2, <1>3, <1>4, <1>5, <1>6 DEF Next, Step

LEMMA PointingStep ==
    TypeOK /\ Owned /\ History /\ Roles /\ Pointing /\ [Next]_vars => Pointing'
<1> SUFFICES ASSUME TypeOK, Owned, History, Roles, Pointing, [Next]_vars
             PROVE  Pointing'
  OBVIOUS
<1>1. /\ JobImages /\ NothingLeft /\ RunImages /\ CurrentImage /\ AcceptedStay
      /\ TypeOK'
      /\ SettledStays
      /\ \A d \in Ids : KeepsImage(d)
      /\ KeepsPointer
      /\ \A r \in Runners : ComesByImage(r)
  BY TypeStep, HistoryStep, ImageEffect, PointerEffect, RunEffect DEF Pointing
<1>2. \A d \in Ids : d # NoId
  BY DEF Ids, NoId
<1>3. ~Erased' => ~Erased
  BY <1>1 DEF KeepsPointer, SameGone, Erased
<1>4. NothingLeft'
  <2>1. \A d \in Ids : ~Exists(d)' => deployments'[d].image = NoId
    BY <1>1 DEF KeepsImage, NothingLeft
  <2>2. Erased' => service' = Gone
    BY <1>1 DEF KeepsPointer, NothingLeft, SameGone
  <2>3. QED
    BY <2>1, <2>2 DEF NothingLeft
<1>5. RunImages'
  <2>1. ASSUME NEW r \in Runners, run'[r].pc \in {"building", "reshipping"}
        PROVE  run'[r].image # NoId
    BY <1>1, <1>2, <2>1 DEF ComesByImage, RunImages
  <2>2. ASSUME NEW r \in Runners, run'[r].pc \in Taken, ~Erased'
        PROVE  run'[r].dep \in Ids /\ deployments'[run'[r].dep].image # NoId
    <3>1. CASE run[r].pc \in Taken /\ run'[r].dep = run[r].dep
      BY <1>1, <1>3, <2>2, <3>1, ImageStays DEF RunImages
    <3>2. CASE ResolveImage(r) /\ run'[r].dep = run[r].dep
      <4>1. /\ r = Worker /\ run[r].dep = active.arg /\ active.arg \in Ids /\ Deploying
            /\ run[r].image # NoId
        BY <1>1, <3>2, ShipperOwns DEF ResolveImage, DeployPhase, BuildPhase, RunsDeploy, RunImages
      <4>2. Exists(run[r].dep)
        BY <1>3, <2>2, <4>1 DEF History, AskedIsManual, Deploying, Asks
      <4>3. deployments'[run[r].dep].image = run[r].image
        <5> DEFINE new == [deployments[run[r].dep] EXCEPT !.status = "deploying", !.image = run[r].image]
        <5>1. deployments'[run[r].dep] = new
          BY <3>2, <4>1, <4>2 DEF ResolveImage, Update, TypeOK
        <5>2. new.image = run[r].image
          BY <4>1 DEF TypeOK, Deployment
        <5>3. QED
          BY <5>1, <5>2
      <4>4. QED
        BY <3>2, <4>1, <4>3
    <3>3. CASE /\ run[r].pc \in {"rollback", "reshipping"} /\ run'[r].dep \in Ids
               /\ deployments'[run'[r].dep].image = Given(r)
      <4>1. CASE r = Worker
        BY <1>1, <3>3, <4>1 DEF Roles, BranchOnly, JobImages, Given
      <4>2. CASE r # Worker
        BY <1>1, <3>3, <4>2 DEF Roles, Runners, WorkerOnly, RunImages, Given
      <4>3. QED
        BY <4>1, <4>2
    <3>4. QED
      BY <1>1, <2>2, <3>1, <3>2, <3>3 DEF ComesByImage
  <2>3. QED
    BY <2>1, <2>2 DEF RunImages
<1>6. service'.current # NoId => service'.current \in Ids /\ ~Erased'
  <2>1. service'.current \in Ids \cup {NoId}
    BY <1>1 DEF TypeOK, Service
  <2>2. QED
    BY <1>4, <2>1 DEF NothingLeft, Gone
<1>7. ASSUME service'.current # NoId
      PROVE  \/ service.current = service'.current
             \/ \E r \in Runners :
                  /\ RecordCurrent(r) /\ run[r].pc = "pointing"
                  /\ service'.current = run[r].dep /\ deployments' = deployments
  BY <1>1, <1>6, <1>7 DEF KeepsPointer, RecordCurrent
<1>8. CurrentImage'
  <2> SUFFICES ASSUME service'.current # NoId
               PROVE  deployments'[service'.current].image # NoId
    BY DEF CurrentImage
  <2>1. CASE service.current = service'.current
    BY <1>1, <1>6, <2>1, ImageStays DEF CurrentImage
  <2>2. CASE service.current # service'.current
    BY <1>1, <1>3, <1>6, <1>7, <2>2 DEF RunImages, Taken, Recording
  <2>3. QED
    BY <2>1, <2>2
<1>9. AcceptedStay'
  <2> DEFINE Was == {"succeeded", "reverted_by_watch"}
  <2> SUFFICES ASSUME crashes' = 0
               PROVE  /\ service'.current # NoId => deployments'[service'.current].status \in Was
                      /\ ~Erased' => \A r \in Runners : run'[r].pc \in Recording =>
                           deployments'[run'[r].dep].status \in Was
    BY DEF AcceptedStay
  <2>0. crashes = 0
    BY CrashesGrow
  <2>1. ASSUME NEW d \in Ids, deployments[d].status \in Was, ~Erased'
        PROVE  deployments'[d].status \in Was
    BY <1>1, <2>0, <2>1 DEF SettledStays, Settled, Erased
  <2>2. service'.current # NoId => deployments'[service'.current].status \in Was
    <3> SUFFICES ASSUME service'.current # NoId
                 PROVE  deployments'[service'.current].status \in Was
      OBVIOUS
    <3>1. CASE service.current = service'.current
      BY <1>1, <1>6, <2>0, <2>1, <3>1 DEF AcceptedStay
    <3>2. CASE service.current # service'.current
      BY <1>1, <1>3, <1>6, <1>7, <2>0, <3>2 DEF AcceptedStay, Recording
    <3>3. QED
      BY <3>1, <3>2
  <2>3. ASSUME NEW r \in Runners, run'[r].pc \in Recording, ~Erased'
        PROVE  deployments'[run'[r].dep].status \in Was
    <3>1. CASE run[r].pc \in Recording
      <4>1. run'[r].dep = run[r].dep /\ run[r].dep \in Ids
        BY <1>1, <1>3, <2>3, <3>1
           DEF ComesByImage, RunImages, Taken, Recording, ResolveImage
      <4>2. QED
        BY <1>1, <1>3, <2>0, <2>1, <2>3, <3>1, <4>1 DEF AcceptedStay
    <3>2. CASE RecordSucceeded(r)
      <4>1. run[r].dep \in Ids /\ Exists(run[r].dep) /\ run'[r].dep = run[r].dep
        BY <1>1, <1>3, <2>3, <3>2, GotoRuns DEF RecordSucceeded, RunImages, Taken, NothingLeft
      <4>2. deployments'[run[r].dep].status = "succeeded"
        <5> DEFINE new == [deployments[run[r].dep] EXCEPT !.status = "succeeded", !.watch = "open"]
        <5>1. deployments'[run[r].dep] = new
          BY <3>2, <4>1 DEF RecordSucceeded, Update, TypeOK
        <5>2. new.status = "succeeded"
          BY <4>1 DEF TypeOK, Deployment
        <5>3. QED
          BY <5>1, <5>2
      <4>3. QED
        BY <4>1, <4>2
    <3>3. QED
      BY <1>1, <2>3, <3>1, <3>2 DEF ComesByImage
  <2>4. QED
    BY <2>2, <2>3
<1>10. QED
  BY <1>1, <1>4, <1>5, <1>8, <1>9, JobImagesStep DEF Pointing

\* The rollback and the dashboard start from the row the service points at:
\* it has an image, whatever happened, and while the worker did not die it is
\* a row that was accepted.
THEOREM CurrentAccepted == Spec => []CurrentWasAccepted
<1> DEFINE IInv == TypeOK /\ Owned /\ History /\ Roles /\ Pointing
<1>1. Init => IInv
  BY InitType, OwnedInit, HistoryInit, RolesInit, PointingInit
<1>2. IInv /\ [Next]_vars => IInv'
  BY TypeStep, OwnedStep, HistoryStep, RolesStep, PointingStep
<1>3. IInv => CurrentWasAccepted
  BY DEF Pointing, CurrentImage, AcceptedStay, CurrentWasAccepted
<1>4. QED
  BY <1>1, <1>2, <1>3, PTL DEF Spec


-----------------------------------------------------------------------------
(* What the row says runs is what Swarm runs *)

\* The teardown has removed the Swarm service, or the row as well.
Ends == Erased \/ run[Worker].pc = "erasing"

Has(image)  == swarm.exists /\ swarm.image = image /\ image # NoId
RunsCurrent == service.current # NoId /\ Has(deployments[service.current].image)

\* An update that is still to come, or under way, changes nothing.
Still ==
    swarm.update \in {"pending", "updating"} =>
        swarm.previous = swarm.image /\ swarm.before = swarm.replicas

\* While nobody stands between a change to Swarm and the last of its writes,
\* Swarm runs what the service points at.
AtRest ==
    /\ swarm.exists => RunsCurrent /\ Still
    /\ service.status = "running" => swarm.exists /\ swarm.replicas = 1

\* A runner that does stand there knows what Swarm runs: the image it ships,
\* or after a refusal the one the service points at.
Amid(r) ==
    /\ run[r].pc = "verdict" =>
         \/ /\ swarm.update # "rolled_back" /\ swarm.replicas = 1 /\ Has(run[r].image)
            /\ swarm.update # "none" =>
                 /\ service.current # NoId
                 /\ swarm.previous = deployments[service.current].image
         \/ swarm.update = "rolled_back" /\ RunsCurrent
    /\ run[r].pc \in {"accepted", "pointing"} =>
         swarm.update \in {"none", "completed"} /\ swarm.replicas = 1 /\ Has(run[r].image)
    /\ run[r].pc = "clearing" =>
         swarm.update \in {"none", "completed"} /\ swarm.replicas = 1 /\ RunsCurrent
    /\ run[r].pc \in {"refused", "crashing"} => swarm.update = "rolled_back" /\ RunsCurrent
    /\ run[r].pc \in {"started", "stopped"} => RunsCurrent /\ Still
    /\ run[r].pc = "started" /\ (active.kind = "start" \/ service.status = "running") =>
         swarm.replicas = 1

CleanMeans == clean => crashes = 0
OneShips   == clean => \A r, s \in Runners : Shipping(r) /\ Shipping(s) => r = s
ShipsItsRow ==
    clean /\ ~Erased => \A r \in Runners :
        run[r].pc \in Taken => deployments[run[r].dep].image = run[r].image
Serving ==
    clean /\ ~Ends =>
        /\ (\A r \in Runners : ~Shipping(r)) => AtRest
        /\ \A r \in Runners : Shipping(r) => Amid(r)

Served == CleanMeans /\ OneShips /\ ShipsItsRow /\ Serving

LEMMA ServedInit == Init => Served
BY DEF Init, Served, CleanMeans, OneShips, ShipsItsRow, Serving, AtRest, Shipping, Taken, Recording,
       Idle, NoSwarm

\* Nothing makes a history clean again, and a crash spoils it.
LEMMA CleanEffect ==
    ASSUME TypeOK, [Next]_vars, clean'
    PROVE  clean /\ crashes' = crashes
<1>1. CASE Crash
  BY <1>1 DEF Crash
<1>2. CASE Dashboard \/ TakeJob \/ StartSweep \/ Restart \/ \E d \in Ids : WatchElapses(d)
  BY <1>2
     DEF Dashboard, RequestDeploy, RequestMark, RequestEnqueue, RequestLost, RequestRollback,
         RequestLifecycle, RequestDelete, DeleteEnqueue, TakeJob, StartSweep, Restart,
         RecoverDeployments, RecoverLook, RecoverService, StalledJobReturns, WatchElapses, worker
<1>3. CASE \E r \in Runners : StartDeploy(r) \/ StartRedeploy(r) \/ Ship(r)
  BY <1>3
     DEF StartDeploy, StartRedeploy, Fail, Ship, ResolveImage, Rollout, ReadVerdict, Throw,
         RecordSucceeded, RecordCurrent, ClearSupersededWatch, RecordRolledBack, RecordCrashed,
         RecordFailed, RecordFailedService, worker
<1>4. CASE \E r \in Runners : Teardown(r) \/ Scale(r) \/ RecordLifecycle(r)
  BY <1>4
     DEF Teardown, RemoveSwarm, EraseRow, TeardownThrows, RecordStuck, Scale, Fail, RecordLifecycle, worker
<1>5. CASE \E d \in Ids : Watch(d)
  BY <1>5 DEF Watch, Inspect, Fail, FindPrevious, RecordReverted, RecordStranded, worker
<1>6. CASE SwarmBegins \/ SwarmConverges \/ SwarmRollsBack \/ TasksFail \/ UNCHANGED vars
  BY <1>6 DEF SwarmBegins, SwarmConverges, SwarmRollsBack, TasksFail, vars, worker
<1>7. QED
  BY <1>1, <1>2, <1>3, <1>4, <1>5, <1>6 DEF Next, Step

\* Before the first crash an accepted row keeps its image: the job that could
\* name another builds a row that is not settled.
LEMMA AcceptedImage ==
    ASSUME TypeOK, Owned, History, crashes = 0, ~Erased, ~Erased',
           NEW d \in Ids, KeepsImage(d),
           deployments[d].status \in {"succeeded", "reverted_by_watch"}
    PROVE  deployments'[d].image = deployments[d].image
<1>1. Exists(d)
  BY DEF Exists
<1>2. ResolveImage(Worker) => run[Worker].dep # d
  <2>1. ASSUME ResolveImage(Worker)
        PROVE  Deploying /\ run[Worker].dep = active.arg
    BY <2>1, ConstantRecords, ShipperOwns DEF ResolveImage, DeployPhase, BuildPhase, RunsDeploy
  <2>2. QED
    BY <2>1 DEF History, DeploysUnsettled, Settled
<1>3. QED
  BY <1>1, <1>2 DEF KeepsImage

LEMMA ShipsItsRowStep ==
    ASSUME TypeOK, Owned, History, Roles, Pointing, Served, [Next]_vars
    PROVE  ShipsItsRow'
<1> SUFFICES ASSUME clean', ~Erased', NEW r \in Runners, run'[r].pc \in Taken
             PROVE  deployments'[run'[r].dep].image = run'[r].image
  BY DEF ShipsItsRow
<1>1. /\ clean /\ crashes = 0
      /\ \A d \in Ids : KeepsImage(d)
      /\ KeepsPointer
      /\ ComesByImage(r)
      /\ NothingLeft /\ RunImages /\ AcceptedStay
  BY CleanEffect, ImageEffect, PointerEffect, RunEffect DEF Served, CleanMeans, Pointing
<1>2. ~Erased
  BY <1>1 DEF KeepsPointer, SameGone
<1>3. CASE run[r].pc \in Taken /\ run'[r].dep = run[r].dep /\ run'[r].image = run[r].image
  <2> DEFINE d == run[r].dep
  <2>1. d \in Ids /\ deployments[d].image = run[r].image /\ deployments[d].image # NoId /\ Exists(d)
    BY <1>1, <1>2, <1>3 DEF RunImages, NothingLeft, Served, ShipsItsRow
  <2>2. CASE run[r].pc \in Recording
    BY <1>1, <1>2, <1>3, <2>1, <2>2, AcceptedImage DEF AcceptedStay
  <2>3. CASE run[r].pc \notin Recording
    <3>1. ASSUME ResolveImage(Worker), run[Worker].dep = d
          PROVE  FALSE
      <4>1. r # Worker
        BY <1>3, <3>1 DEF ResolveImage, Taken, Recording
      <4>2. Redeploying(r)
        BY <1>3, <2>3, <4>1 DEF Redeploying, RunsDeploy, Taken, ShipPhase
      <4>3. Owns(Worker, d)
        BY <1>2, <3>1, ConstantRecords, ShipperOwns DEF ResolveImage, DeployPhase, BuildPhase
      <4>4. QED
        BY <1>2, <2>1, <4>1, <4>2, <4>3, ConstantRecords, OwnsAlone
    <3>2. QED
      BY <1>1, <1>3, <2>1, <3>1 DEF KeepsImage
  <2>4. QED
    BY <2>2, <2>3
<1>4. CASE ResolveImage(r) /\ run'[r].dep = run[r].dep /\ run'[r].image = run[r].image
  <2>1. r = Worker /\ run[r].dep = active.arg /\ active.arg \in Ids /\ Deploying
    BY <1>4, ShipperOwns DEF ResolveImage, DeployPhase, BuildPhase, RunsDeploy
  <2>2. Exists(run[r].dep)
    BY <1>2, <2>1 DEF History, AskedIsManual, Deploying, Asks
  <2> DEFINE new == [deployments[run[r].dep] EXCEPT !.status = "deploying", !.image = run[r].image]
  <2>3. deployments'[run[r].dep] = new
    BY <1>4, <2>1, <2>2 DEF ResolveImage, Update, TypeOK
  <2>4. new.image = run[r].image
    BY <2>1 DEF TypeOK, Deployment
  <2>5. QED
    BY <1>4, <2>3, <2>4
<1>5. CASE run'[r].image = Given(r) /\ deployments'[run'[r].dep].image = Given(r)
  BY <1>5
<1>6. QED
  BY <1>1, <1>3, <1>4, <1>5 DEF ComesByImage

-----------------------------------------------------------------------------
(* The steps beside the change to Swarm *)

\* The pointer's row keeps its image.
CurrentKept ==
    clean' /\ ~Erased' /\ service.current # NoId =>
        deployments'[service.current].image = deployments[service.current].image

LEMMA CurrentKeptStep ==
    ASSUME TypeOK, Owned, History, Roles, Pointing, Served, [Next]_vars
    PROVE  CurrentKept
<1> SUFFICES ASSUME clean', ~Erased', service.current # NoId
             PROVE  deployments'[service.current].image = deployments[service.current].image
  BY DEF CurrentKept
<1>1. /\ crashes = 0 /\ KeepsPointer /\ AcceptedStay
      /\ \A d \in Ids : KeepsImage(d)
  BY CleanEffect, ImageEffect, PointerEffect DEF Served, CleanMeans, Pointing
<1>2. service.current \in Ids /\ ~Erased
  BY <1>1 DEF TypeOK, Service, KeepsPointer, SameGone
<1>3. QED
  BY <1>1, <1>2, AcceptedImage DEF AcceptedStay

\* Nothing but the rows, and the runners that are not shipping.
LEMMA BesideSwarm ==
    ASSUME OneShips, Serving, CurrentKept, UNCHANGED swarm, clean' => clean,
           service'.current = service.current,
           service'.status = "running" => service.status = "running",
           ~Ends' => ~Ends,
           \A r \in Runners : Shipping(r)' <=> Shipping(r),
           \A r \in Runners : Shipping(r) => run'[r] = run[r],
           run[Worker].pc = "started" => active' = active,
           Roles
    PROVE  OneShips' /\ Serving'
<1>1. OneShips'
  BY DEF OneShips
<1>2. ASSUME clean', ~Ends'
      PROVE  /\ (\A r \in Runners : ~Shipping(r)') => AtRest'
             /\ \A r \in Runners : Shipping(r)' => Amid(r)'
  <2>1. /\ (\A r \in Runners : ~Shipping(r)) => AtRest
        /\ \A r \in Runners : Shipping(r) => Amid(r)
    BY <1>2 DEF Serving
  <2>2. /\ RunsCurrent => RunsCurrent'
        /\ Still => Still'
        /\ \A image : Has(image) => Has(image)'
        /\ service.current # NoId =>
             deployments'[service.current].image = deployments[service.current].image
    BY <1>2 DEF RunsCurrent, Has, Still, CurrentKept, Ends
  <2>3. AtRest => AtRest'
    BY <2>2 DEF AtRest
  <2>4. ASSUME NEW r \in Runners, Shipping(r)
        PROVE  Amid(r)'
    <3>1. run'[r] = run[r] /\ Amid(r)
      BY <2>1, <2>4
    <3>2. run[r].pc = "started" => r = Worker /\ active' = active
      BY DEF Roles, Runners, WorkerOnly
    <3>3. QED
      BY <2>2, <3>1, <3>2 DEF Amid
  <2>5. QED
    BY <2>1, <2>3, <2>4
<1>3. QED
  BY <1>1, <1>2 DEF Serving

\* A step of a runner that is not shipping.
LEMMA BesideRunner ==
    ASSUME OneShips, Serving, CurrentKept, Roles, UNCHANGED swarm, clean' => clean,
           NEW r \in Runners, OthersStay(r), ~Shipping(r), ~Shipping(r)',
           run[r].pc # "erasing",
           active' = active \/ r = Worker,
           service'.current = service.current,
           service'.status = "running" => service.status = "running",
           ~Erased' => ~Erased
    PROVE  OneShips' /\ Serving'
<1>1. /\ \A s \in Runners : Shipping(s)' <=> Shipping(s)
      /\ \A s \in Runners : Shipping(s) => run'[s] = run[s]
  BY DEF OthersStay, Shipping
<1>2. ~Ends' => ~Ends
  BY ConstantRecords DEF OthersStay, Ends
<1>3. run[Worker].pc = "started" => active' = active
  BY DEF Shipping
<1>4. QED
  BY <1>1, <1>2, <1>3, BesideSwarm

LEMMA BesideEnd ==
    ASSUME TypeOK, OneShips, Serving, CurrentKept, Roles, UNCHANGED swarm, clean' => clean,
           NEW r \in Runners, NEW threw \in BOOLEAN, End(r, threw),
           ~Shipping(r), run[r].pc # "erasing",
           service'.current = service.current,
           service'.status = "running" => service.status = "running",
           ~Erased' => ~Erased
    PROVE  OneShips' /\ Serving'
<1>1. OthersStay(r) /\ run'[r].pc = "idle" /\ (active' = active \/ r = Worker)
  BY EndRuns DEF OthersStay, Idle
<1>2. ~Shipping(r)'
  BY <1>1 DEF Shipping
<1>3. QED
  BY <1>1, <1>2, BesideRunner

LEMMA BesideGoto ==
    ASSUME TypeOK, OneShips, Serving, CurrentKept, Roles, UNCHANGED <<swarm, active>>, clean' => clean,
           NEW r \in Runners, NEW pc, Goto(r, pc),
           pc \notin {"verdict", "accepted", "pointing", "clearing", "refused", "crashing",
                      "started", "stopped"},
           ~Shipping(r), run[r].pc # "erasing",
           service'.current = service.current,
           service'.status = "running" => service.status = "running",
           ~Erased' => ~Erased
    PROVE  OneShips' /\ Serving'
<1>1. OthersStay(r) /\ run'[r].pc = pc
  BY GotoRuns DEF OthersStay
<1>2. ~Shipping(r)'
  BY <1>1 DEF Shipping
<1>3. QED
  BY <1>1, <1>2, BesideRunner

\* The patches of the status, but for MarkRunning, say of nothing that it runs.
LEMMA PatchNotRunning ==
    ASSUME service \in Service,
           \/ UpdateService(MarkDeploying(service)) \/ UpdateService(MarkCrashed(service))
           \/ UpdateService(MarkStopped(service)) \/ UpdateService(MarkDeleting(service))
           \/ UpdateService(MarkStuck(service))
    PROVE  /\ service'.current = service.current
           /\ service'.status = "running" => service.status = "running"
           /\ ~Erased' => ~Erased
BY DEF Service, UpdateService, MarkDeploying, MarkCrashed, MarkStopped, MarkDeleting, MarkStuck, Erased


-----------------------------------------------------------------------------
(* The steps that ship *)

\* A runner that is alone takes up Swarm; once it stands amid its writes,
\* nobody else does.
LEMMA TakesUp ==
    ASSUME TypeOK, OneShips, NEW r \in Runners, OthersStay(r), ~Shipping(r), clean' => clean /\ Alone(r),
           clean' /\ ~Ends' /\ Shipping(r)' => Amid(r)',
           clean' /\ ~Ends' /\ ~Shipping(r)' => AtRest'
    PROVE  OneShips' /\ Serving'
<1>1. clean' => \A s \in Runners : s # r => ~Shipping(s)'
  BY DEF OthersStay, Alone, Shipping
<1>2. QED
  BY <1>1 DEF OneShips, Serving

\* A runner amid its writes goes on, or is done.
LEMMA GoesOn ==
    ASSUME TypeOK, OneShips, NEW r \in Runners, OthersStay(r), Shipping(r), clean' => clean,
           clean' /\ ~Ends' /\ Shipping(r)' => Amid(r)',
           clean' /\ ~Ends' /\ ~Shipping(r)' => AtRest'
    PROVE  OneShips' /\ Serving'
<1>1. clean' => \A s \in Runners : s # r => ~Shipping(s)'
  BY DEF OthersStay, OneShips, Shipping
<1>2. QED
  BY <1>1 DEF OneShips, Serving

\* The teardown took the service away.
LEMMA EndedServes ==
    ASSUME OneShips, clean' => clean, Ends',
           \A r \in Runners : Shipping(r)' => Shipping(r)
    PROVE  OneShips' /\ Serving'
BY DEF OneShips, Serving

\* What is known of a runner amid its writes, and of a state of rest.
LEMMA KnownAmid ==
    ASSUME Serving, NEW r \in Runners, Shipping(r), clean, ~Ends
    PROVE  Amid(r)
BY DEF Serving

LEMMA KnownAlone ==
    ASSUME Serving, NEW r \in Runners, ~Shipping(r), Alone(r), clean, ~Ends
    PROVE  AtRest
BY DEF Serving, Alone

\* A step of one runner and End' mean Ends when the teardown is not at work.
LEMMA EndsBefore ==
    ASSUME NEW r \in Runners, OthersStay(r), run[r].pc # "erasing", ~Erased' => ~Erased
    PROVE  ~Ends' => ~Ends
BY ConstantRecords DEF OthersStay, Ends

LEMMA RolloutServes ==
    ASSUME TypeOK, Roles, Pointing, Served, CurrentKept, NEW r \in Runners, Rollout(r)
    PROVE  OneShips' /\ Serving'
<1>1. /\ OthersStay(r) /\ run'[r].pc = "verdict" /\ run'[r].image = run[r].image
      /\ run[r].pc = "shipping" /\ ~Shipping(r) /\ Shipping(r)'
      /\ clean' => clean /\ Alone(r)
      /\ service' = service /\ deployments' = deployments
  BY GotoRuns, GotoImage DEF Rollout, OthersStay, Shipping, rows
<1>2. ~Ends' => ~Ends
  BY <1>1, EndsBefore DEF Erased
<1>3. ASSUME clean', ~Ends'
      PROVE  Amid(r)'
  <2>1. AtRest /\ ~Erased
    BY <1>1, <1>2, <1>3, KnownAlone DEF Served, Ends
  <2>2. run[r].image # NoId
    BY <1>1, <1>3, <2>1 DEF Pointing, RunImages, Served, ShipsItsRow, Taken
  <2>3. CASE swarm.exists
    <3>1. RunsCurrent
      BY <2>1, <2>3 DEF AtRest
    <3>2. /\ swarm'.exists /\ swarm'.image = run[r].image /\ swarm'.replicas = 1
          /\ swarm'.previous = swarm.image /\ swarm'.update = "pending"
      BY <2>3 DEF Rollout
    <3>3. QED
      BY <1>1, <2>2, <3>1, <3>2 DEF Amid, Has, RunsCurrent
  <2>4. CASE ~swarm.exists
    <3>1. /\ swarm'.exists /\ swarm'.image = run[r].image /\ swarm'.replicas = 1
          /\ swarm'.update = "none"
      BY <2>4 DEF Rollout, NoSwarm
    <3>2. QED
      BY <1>1, <2>2, <3>1 DEF Amid, Has
  <2>5. QED
    BY <2>3, <2>4
<1>4. QED
  BY <1>1, <1>3, TakesUp DEF Served

LEMMA VerdictServes ==
    ASSUME TypeOK, Served, CurrentKept, NEW r \in Runners, ReadVerdict(r)
    PROVE  OneShips' /\ Serving'
<1>1. /\ OthersStay(r) /\ run'[r].pc = (IF Accepted THEN "accepted" ELSE "refused")
      /\ run'[r].image = run[r].image
      /\ run[r].pc = "verdict" /\ Shipping(r) /\ Shipping(r)'
      /\ clean' => clean /\ swarm.update \notin {"pending", "updating"}
      /\ UNCHANGED <<service, deployments, swarm>>
  BY GotoRuns, GotoImage DEF ReadVerdict, OthersStay, Shipping, rows
<1>2. ~Ends' => ~Ends
  BY <1>1, EndsBefore DEF Erased
<1>3. ASSUME clean', ~Ends'
      PROVE  Amid(r)'
  <2>1. Amid(r)
    BY <1>1, <1>2, <1>3, KnownAmid DEF Served
  <2>2. swarm.exists
    BY <1>1, <2>1 DEF Amid, Has, RunsCurrent
  <2>3. CASE Accepted
    <3>1. swarm.update \in {"none", "completed"}
      BY <1>1, <1>3, <2>2, <2>3 DEF Accepted
    <3>2. swarm.replicas = 1 /\ Has(run[r].image)
      BY <1>1, <2>1, <3>1 DEF Amid
    <3>3. QED
      BY <1>1, <2>3, <3>1, <3>2 DEF Amid, Has
  <2>4. CASE ~Accepted
    <3>1. swarm.update = "rolled_back"
      BY <1>1, <1>3, <2>4 DEF Accepted, TypeOK, Swarm
    <3>2. RunsCurrent
      BY <1>1, <2>1, <3>1 DEF Amid
    <3>3. QED
      BY <1>1, <2>4, <3>1, <3>2 DEF Amid, Has, RunsCurrent
  <2>5. QED
    BY <2>3, <2>4
<1>4. QED
  BY <1>1, <1>3, GoesOn DEF Served

\* The writes of recordAcceptedService and recordRefusedService, up to the last.
LEMMA SucceededServes ==
    ASSUME TypeOK, Served, CurrentKept, NEW r \in Runners, RecordSucceeded(r)
    PROVE  OneShips' /\ Serving'
<1>1. /\ OthersStay(r) /\ run'[r].pc = "pointing" /\ run'[r].image = run[r].image
      /\ run[r].pc = "accepted" /\ Shipping(r) /\ Shipping(r)'
      /\ UNCHANGED <<clean, service, swarm>>
  BY GotoRuns, GotoImage DEF RecordSucceeded, OthersStay, Shipping, remote
<1>2. ~Ends' => ~Ends
  BY <1>1, EndsBefore DEF Erased
<1>3. ASSUME clean', ~Ends'
      PROVE  Amid(r)'
  BY <1>1, <1>2, <1>3, KnownAmid DEF Served, Amid, Has
<1>4. QED
  BY <1>1, <1>3, GoesOn DEF Served

LEMMA CurrentServes ==
    ASSUME TypeOK, Pointing, Served, CurrentKept, NEW r \in Runners, RecordCurrent(r)
    PROVE  OneShips' /\ Serving'
<1>1. /\ OthersStay(r) /\ run'[r].pc = "clearing" /\ run'[r].image = run[r].image
      /\ run[r].pc = "pointing" /\ Shipping(r) /\ Shipping(r)'
      /\ UNCHANGED <<clean, deployments, swarm>>
      /\ UpdateService([service EXCEPT !.current = run[r].dep, !.status = "running"])
  BY GotoRuns, GotoImage DEF RecordCurrent, OthersStay, Shipping, remote
<1>2. ~Erased' => ~Erased
  BY <1>1 DEF UpdateService, Erased
<1>3. ~Ends' => ~Ends
  BY <1>1, <1>2, EndsBefore
<1>4. ASSUME clean', ~Ends'
      PROVE  Amid(r)'
  <2>1. Amid(r) /\ ~Erased /\ clean
    BY <1>1, <1>3, <1>4, KnownAmid DEF Served, Ends
  <2>2. service'.current = run[r].dep
    BY <1>1, <2>1 DEF UpdateService, Erased, TypeOK, Service
  <2>3. run[r].dep \in Ids /\ deployments[run[r].dep].image = run[r].image
    BY <1>1, <2>1 DEF Pointing, RunImages, Served, ShipsItsRow, Taken, Recording
  <2>4. run[r].dep # NoId
    BY <2>3 DEF Ids, NoId
  <2>5. QED
    BY <1>1, <2>1, <2>2, <2>3, <2>4 DEF Amid, Has, RunsCurrent
<1>5. QED
  BY <1>1, <1>4, GoesOn DEF Served

LEMMA RolledBackServes ==
    ASSUME TypeOK, Served, CurrentKept, NEW r \in Runners, RecordRolledBack(r)
    PROVE  OneShips' /\ Serving'
<1>1. /\ OthersStay(r) /\ run'[r].pc = "crashing"
      /\ run[r].pc = "refused" /\ Shipping(r) /\ Shipping(r)'
      /\ UNCHANGED <<clean, service, swarm>>
  BY GotoRuns DEF RecordRolledBack, OthersStay, Shipping, remote
<1>2. ~Ends' => ~Ends
  BY <1>1, EndsBefore DEF Erased
<1>3. ASSUME clean', ~Ends'
      PROVE  Amid(r)'
  <2>1. swarm.update = "rolled_back" /\ RunsCurrent
    BY <1>1, <1>2, <1>3, KnownAmid DEF Served, Amid
  <2>2. RunsCurrent'
    BY <1>1, <1>3, <2>1 DEF RunsCurrent, Has, CurrentKept, Ends
  <2>3. QED
    BY <1>1, <2>1, <2>2 DEF Amid
<1>4. QED
  BY <1>1, <1>3, GoesOn DEF Served

\* The last write of a runner leaves a state of rest.
LEMMA LastWrite ==
    ASSUME TypeOK, Served, NEW r \in Runners, End(r, FALSE), Shipping(r), UNCHANGED clean,
           ~Erased' => ~Erased,
           clean /\ ~Ends /\ ~Ends' /\ Amid(r) => AtRest'
    PROVE  OneShips' /\ Serving'
<1>1. OthersStay(r) /\ run'[r].pc = "idle"
  BY DEF End, OthersStay, TypeOK, Idle
<1>2. ~Ends' => ~Ends
  BY <1>1, EndsBefore DEF Shipping
<1>3. ~Shipping(r)'
  BY <1>1 DEF Shipping
<1>4. clean' /\ ~Ends' => AtRest'
  BY <1>2, KnownAmid DEF Served
<1>5. QED
  BY <1>1, <1>3, <1>4, GoesOn DEF Served

LEMMA ClearServes ==
    ASSUME TypeOK, Served, CurrentKept, NEW r \in Runners, ClearSupersededWatch(r)
    PROVE  OneShips' /\ Serving'
<1>1. /\ run[r].pc = "clearing" /\ Shipping(r) /\ End(r, FALSE)
      /\ UNCHANGED <<clean, service, swarm>>
  BY DEF ClearSupersededWatch, Shipping, remote
<1>2. ASSUME clean, ~Ends, ~Ends', Amid(r)
      PROVE  AtRest'
  <2>1. swarm.update \in {"none", "completed"} /\ swarm.replicas = 1 /\ RunsCurrent
    BY <1>1, <1>2 DEF Amid
  <2>2. RunsCurrent'
    BY <1>1, <1>2, <2>1 DEF RunsCurrent, Has, CurrentKept, Ends
  <2>3. QED
    BY <1>1, <2>1, <2>2 DEF AtRest, Still, RunsCurrent, Has
<1>3. QED
  BY <1>1, <1>2, LastWrite DEF Erased

LEMMA CrashedServes ==
    ASSUME TypeOK, Served, CurrentKept, NEW r \in Runners, RecordCrashed(r)
    PROVE  OneShips' /\ Serving'
<1>1. /\ run[r].pc = "crashing" /\ Shipping(r) /\ End(r, FALSE)
      /\ UNCHANGED <<clean, deployments, swarm>>
      /\ UpdateService([service EXCEPT !.status = "crashed"])
  BY DEF RecordCrashed, Shipping, remote
<1>2. ~Erased' => /\ ~Erased /\ service'.status = "crashed"
                  /\ service'.current = service.current
  BY <1>1 DEF UpdateService, Erased, TypeOK, Service
<1>3. ASSUME clean, ~Ends, ~Ends', Amid(r)
      PROVE  AtRest'
  BY <1>1, <1>2, <1>3 DEF Amid, AtRest, Still, RunsCurrent, Has, Ends
<1>4. QED
  BY <1>1, <1>2, <1>3, LastWrite

LEMMA LifecycleServes ==
    ASSUME TypeOK, Roles, Served, CurrentKept, NEW r \in Runners, RecordLifecycle(r)
    PROVE  OneShips' /\ Serving'
<1>1. /\ run[r].pc \in {"started", "stopped"} /\ Shipping(r) /\ End(r, FALSE)
      /\ UNCHANGED <<clean, deployments, swarm>>
  BY DEF RecordLifecycle, Shipping, remote
<1>2. r = Worker
  BY <1>1 DEF Roles, Runners, WorkerOnly
<1>3. \/ active.kind = "stop" /\ UpdateService(MarkStopped(service))
      \/ active.kind = "start" /\ UpdateService(MarkRunning(service))
      \/ active.kind = "restart" /\ service' = service
  BY DEF RecordLifecycle
<1>4. /\ service'.current = service.current
      /\ ~Erased' => ~Erased
      /\ service'.status = "running" =>
           active.kind = "start" \/ (active.kind = "restart" /\ service.status = "running")
           \/ Erased'
  BY <1>3 DEF UpdateService, Erased, TypeOK, Service, MarkStopped, MarkRunning
<1>5. ASSUME clean, ~Ends, ~Ends', Amid(r)
      PROVE  AtRest'
  <2>1. RunsCurrent /\ Still
    BY <1>1, <1>5 DEF Amid
  <2>2. service'.status = "running" => swarm.replicas = 1
    BY <1>1, <1>2, <1>4, <1>5 DEF Amid, Roles, Ends
  <2>3. QED
    BY <1>1, <1>4, <2>1, <2>2 DEF AtRest, RunsCurrent, Has, Still
<1>6. QED
  BY <1>1, <1>4, <1>5, LastWrite

LEMMA ScaleServes ==
    ASSUME TypeOK, Roles, Served, CurrentKept, NEW r \in Runners, Scale(r), ~Fail(r)
    PROVE  OneShips' /\ Serving'
<1>1. /\ run[r].pc \in {"start", "stop", "restart"} /\ ~Shipping(r)
      /\ clean' => clean /\ Alone(r)
      /\ swarm.exists
      /\ UNCHANGED <<service, deployments>>
      /\ swarm' = [swarm EXCEPT !.replicas = ReplicasFor(run[r].pc),
                                !.previous = swarm.image,
                                !.before = swarm.replicas,
                                !.update = IF run[r].pc = "restart"
                                           THEN "pending" ELSE "none"]
  BY DEF Scale, Shipping, rows
<1>2. r = Worker /\ active.kind = run[r].pc
  BY <1>1 DEF Roles, Runners, WorkerOnly, Lifecycles
<1>3. \/ /\ OthersStay(r) /\ active' = active
         /\ run'[r].pc = IF run[r].pc = "stop" THEN "stopped" ELSE "started"
      \/ OthersStay(r) /\ run[r].pc # "stop" /\ run'[r].pc = "idle"
  <2> DEFINE next == IF run[r].pc = "stop" THEN "stopped" ELSE "started"
  <2>1. CASE Goto(r, next) /\ UNCHANGED <<jobs, sweeping>>
    <3>1. OthersStay(r) /\ run'[r].pc = next
      BY <2>1, GotoRuns DEF OthersStay
    <3>2. QED
      BY <2>1, <3>1 DEF jobs
  <2>2. CASE run[r].pc # "stop" /\ End(r, TRUE)
    BY <2>2 DEF End, OthersStay, TypeOK, Idle
  <2>3. QED
    BY <2>1, <2>2 DEF Scale
<1>4. ~Ends' => ~Ends
  BY <1>1, <1>3, EndsBefore DEF Erased
<1>5. /\ swarm'.exists /\ swarm'.image = swarm.image /\ swarm'.previous = swarm.image
      /\ swarm'.before = swarm.replicas
      /\ swarm'.replicas = ReplicasFor(run[r].pc)
      /\ swarm'.update = IF run[r].pc = "restart" THEN "pending" ELSE "none"
  BY <1>1 DEF TypeOK, Swarm
<1>6. /\ run[r].pc = "start" => swarm'.replicas = 1
      /\ run[r].pc = "restart" => swarm'.replicas = swarm.replicas
  BY <1>5 DEF ReplicasFor
<1>7. ASSUME clean', ~Ends'
      PROVE  /\ RunsCurrent' /\ Still'
             /\ run[r].pc # "stop" /\ service.status = "running" => swarm'.replicas = 1
  <2>1. AtRest
    BY <1>1, <1>4, <1>7, KnownAlone DEF Served
  <2>2. RunsCurrent /\ Still /\ (service.status = "running" => swarm.replicas = 1)
    BY <1>1, <2>1 DEF AtRest
  <2>3. RunsCurrent'
    BY <1>1, <1>5, <2>2 DEF RunsCurrent, Has
  <2>4. Still'
    BY <1>5, <1>6 DEF Still
  <2>5. QED
    BY <1>1, <1>6, <2>2, <2>3, <2>4
<1>8. ASSUME clean', ~Ends', Shipping(r)'
      PROVE  Amid(r)'
  <2>1. active' = active /\ run'[r].pc = IF run[r].pc = "stop" THEN "stopped" ELSE "started"
    BY <1>3, <1>8 DEF Shipping
  <2>2. QED
    BY <1>1, <1>2, <1>6, <1>7, <1>8, <2>1 DEF Amid
<1>9. ASSUME clean', ~Ends', ~Shipping(r)'
      PROVE  AtRest'
  <2>1. run[r].pc # "stop"
    BY <1>3, <1>9 DEF Shipping
  <2>2. QED
    BY <1>1, <1>5, <1>7, <1>9, <2>1 DEF AtRest
<1>10. QED
  BY <1>1, <1>3, <1>8, <1>9, TakesUp DEF Served

-----------------------------------------------------------------------------
(* The steps of Swarm *)

LEMMA SwarmServes ==
    ASSUME TypeOK, Pointing, Served, UNCHANGED <<service, deployments, run, active, clean>>,
           SwarmBegins \/ SwarmConverges \/ SwarmRollsBack
    PROVE  OneShips' /\ Serving'
<1>1. OneShips' /\ (Ends' <=> Ends) /\ \A r \in Runners : Shipping(r)' <=> Shipping(r)
  BY DEF Served, OneShips, Ends, Erased, Shipping
<1>2. /\ swarm'.exists = swarm.exists /\ swarm'.previous = swarm.previous
      /\ swarm'.before = swarm.before
      /\ \/ /\ swarm.update = "pending" /\ swarm'.update = "updating"
            /\ swarm'.image = swarm.image /\ swarm'.replicas = swarm.replicas
         \/ /\ swarm.update = "updating" /\ swarm'.update = "completed"
            /\ swarm'.image = swarm.image /\ swarm'.replicas = swarm.replicas
         \/ /\ swarm.update = "updating" /\ swarm'.update = "rolled_back"
            /\ swarm'.image = swarm.previous /\ swarm'.replicas = swarm.before
  BY DEF SwarmBegins, SwarmConverges, SwarmRollsBack, TypeOK, Swarm
<1>3. ASSUME Still
      PROVE  swarm'.image = swarm.image /\ swarm'.replicas = swarm.replicas /\ Still'
  BY <1>2, <1>3 DEF Still
<1>4. ASSUME RunsCurrent, Still
      PROVE  RunsCurrent'
  BY <1>2, <1>3, <1>4 DEF RunsCurrent, Has
<1>5. AtRest => AtRest'
  BY <1>2, <1>3, <1>4 DEF AtRest
<1>6. ASSUME NEW r \in Runners, Shipping(r), Amid(r)
      PROVE  Amid(r)'
  <2>1. swarm.update \in {"pending", "updating"}
    BY <1>2
  <2>2. CASE run[r].pc = "verdict"
    <3>1. /\ swarm.replicas = 1 /\ Has(run[r].image) /\ service.current # NoId
          /\ swarm.previous = deployments[service.current].image
      BY <1>6, <2>1, <2>2 DEF Amid
    <3>2. deployments[service.current].image # NoId
      BY <3>1 DEF Pointing, CurrentImage
    <3>3. CASE swarm'.update = "rolled_back"
      BY <1>2, <2>2, <3>1, <3>2, <3>3 DEF Amid, RunsCurrent, Has
    <3>4. CASE swarm'.update # "rolled_back"
      BY <1>2, <2>2, <3>1, <3>4 DEF Amid, Has
    <3>5. QED
      BY <3>3, <3>4
  <2>3. CASE run[r].pc \in {"started", "stopped"}
    BY <1>3, <1>4, <1>6, <2>3 DEF Amid
  <2>4. CASE run[r].pc \in {"accepted", "pointing", "clearing", "refused", "crashing"}
    BY <1>6, <2>1, <2>4 DEF Amid
  <2>5. QED
    BY <1>6, <2>2, <2>3, <2>4 DEF Shipping
<1>7. Serving'
  BY <1>1, <1>5, <1>6 DEF Served, Serving
<1>8. QED
  BY <1>1, <1>7


-----------------------------------------------------------------------------
(* Every step *)

\* The row says of nothing new that it runs.
ServiceBeside ==
    /\ service'.current = service.current
    /\ service'.status = "running" => service.status = "running"
    /\ ~Erased' => ~Erased

\* What the steps below start from.
BeforeStep == TypeOK /\ Roles /\ Pointing /\ Served /\ CurrentKept /\ (clean' => clean)

\* Steps of nobody who ships: the dashboard, the clock and the recovery.
LEMMA RowsServe ==
    ASSUME BeforeStep, Dashboard \/ Restart \/ (\E d \in Ids : WatchElapses(d)) \/ UNCHANGED vars
    PROVE  OneShips' /\ Serving'
<1>1. UNCHANGED <<run, active, swarm>>
  BY DEF Dashboard, RequestDeploy, RequestMark, RequestEnqueue, RequestLost, RequestRollback,
         RequestLifecycle, RequestDelete, DeleteEnqueue, Restart, RecoverDeployments, RecoverLook,
         RecoverService, StalledJobReturns, WatchElapses, vars, jobs, procs, remote
<1>2. \/ service' = service
      \/ UpdateService(MarkDeploying(service)) \/ UpdateService(MarkDeleting(service))
      \/ UpdateService(MarkCrashed(service))
  BY DEF Dashboard, RequestDeploy, RequestMark, RequestEnqueue, RequestLost, RequestRollback,
         RequestLifecycle, RequestDelete, DeleteEnqueue, Restart, RecoverDeployments, RecoverLook,
         RecoverService, StalledJobReturns, WatchElapses, vars, rows
<1>3. ServiceBeside
  BY <1>2, PatchNotRunning DEF ServiceBeside, Erased, BeforeStep, TypeOK
<1>4. /\ ~Ends' => ~Ends
      /\ \A r \in Runners : Shipping(r)' <=> Shipping(r)
  BY <1>1, <1>3 DEF Ends, ServiceBeside, Shipping
<1>5. QED
  BY <1>1, <1>3, <1>4, BesideSwarm DEF BeforeStep, Served, ServiceBeside

LEMMA TakeJobServes ==
    ASSUME BeforeStep, TakeJob
    PROVE  OneShips' /\ Serving'
<1>1. run[Worker].pc = "idle" /\ ~Shipping(Worker)
  BY DEF TakeJob, Roles, BeforeStep, Shipping
<1>2. Head(queue).kind \in JobKinds
  <2>1. Head(queue) \in Job
    BY DEF TakeJob, BeforeStep, TypeOK
  <2>2. QED
    BY <2>1 DEF Job
<1>3. OthersStay(Worker) /\ run'[Worker].pc = Head(queue).kind
  <2>1. PICK next : next.pc = Head(queue).kind /\ run' = [run EXCEPT ![Worker] = next]
    BY DEF TakeJob, Idle
  <2>2. QED
    BY <2>1, ConstantRecords DEF OthersStay, BeforeStep, TypeOK
<1>4. ~Shipping(Worker)'
  BY <1>2, <1>3 DEF Shipping, JobKinds
<1>5. UNCHANGED <<service, swarm>>
  BY DEF TakeJob, rows, remote
<1>6. QED
  BY <1>1, <1>3, <1>4, <1>5, ConstantRecords, BesideRunner DEF BeforeStep, Served, Erased

LEMMA StartSweepServes ==
    ASSUME BeforeStep, StartSweep
    PROVE  OneShips' /\ Serving'
<1>1. /\ UNCHANGED <<service, swarm, active>>
      /\ run'[Worker] = run[Worker]
      /\ \A r \in Runners : run'[r] = run[r] \/ (run[r].pc = "idle" /\ run'[r].pc = "inspect")
  BY ConstantRecords DEF StartSweep, rows, remote, jobs, Idle, Ids, Worker
<1>2. /\ ~Ends' => ~Ends
      /\ \A r \in Runners : Shipping(r)' <=> Shipping(r)
      /\ \A r \in Runners : Shipping(r) => run'[r] = run[r]
  BY <1>1 DEF Ends, Erased, Shipping
<1>3. QED
  BY <1>1, <1>2, BesideSwarm DEF BeforeStep, Served

LEMMA CrashServes ==
    ASSUME Crash
    PROVE  OneShips' /\ Serving'
BY DEF Crash, OneShips, Serving

LEMMA SwarmStepServes ==
    ASSUME BeforeStep, SwarmBegins \/ SwarmConverges \/ SwarmRollsBack \/ TasksFail
    PROVE  OneShips' /\ Serving'
<1>1. UNCHANGED <<service, deployments, run, active, clean>>
  BY DEF SwarmBegins, SwarmConverges, SwarmRollsBack, TasksFail, rows, jobs, procs
<1>2. CASE TasksFail
  <2>1. swarm' = swarm
    BY <1>2 DEF TasksFail
  <2>2. /\ ~Ends' => ~Ends
        /\ \A r \in Runners : Shipping(r)' <=> Shipping(r)
    BY <1>1 DEF Ends, Erased, Shipping
  <2>3. QED
    BY <1>1, <2>1, <2>2, BesideSwarm DEF BeforeStep, Served
<1>3. CASE ~TasksFail
  BY <1>1, <1>3, SwarmServes DEF BeforeStep
<1>4. QED
  BY <1>2, <1>3

\* A runner that does not ship ends its job or its branch.
LEMMA EndServes ==
    ASSUME BeforeStep, NEW r \in Runners, End(r, TRUE) \/ End(r, FALSE), ~Shipping(r),
           run[r].pc # "erasing", UNCHANGED swarm, ServiceBeside
    PROVE  OneShips' /\ Serving'
<1>1. /\ OthersStay(r) /\ run'[r].pc = "idle" /\ (active' = active \/ r = Worker)
  <2>1. run' = [run EXCEPT ![r] = Idle] /\ active' = IF r = Worker THEN NoJob ELSE active
    BY DEF End
  <2>2. QED
    BY <2>1 DEF OthersStay, BeforeStep, TypeOK, Idle
<1>2. ~Shipping(r)'
  BY <1>1 DEF Shipping
<1>3. QED
  BY <1>1, <1>2, BesideRunner DEF BeforeStep, Served, ServiceBeside

LEMMA FailServes ==
    ASSUME BeforeStep, NEW r \in Runners, Fail(r), ~Shipping(r), run[r].pc # "erasing"
    PROVE  OneShips' /\ Serving'
<1>1. End(r, TRUE) /\ swarm' = swarm /\ ServiceBeside
  BY DEF Fail, remote, rows, ServiceBeside, Erased
<1>2. QED
  BY <1>1, EndServes

\* ... or goes on to something that does not ship either.
LEMMA GotoServes ==
    ASSUME BeforeStep, NEW r \in Runners, NEW pc, Goto(r, pc),
           pc \in {"shipping", "failing", "marking", "stuck", "looping", "stranding", "reshipping"},
           ~Shipping(r), run[r].pc # "erasing", UNCHANGED <<swarm, active, service>>
    PROVE  OneShips' /\ Serving'
BY BesideGoto DEF BeforeStep, Served, Erased

LEMMA StartServes ==
    ASSUME BeforeStep, NEW r \in Runners, StartDeploy(r) \/ StartRedeploy(r)
    PROVE  OneShips' /\ Serving'
<1>1. ~Shipping(r) /\ run[r].pc # "erasing"
  BY DEF StartDeploy, StartRedeploy, Shipping
<1>2. CASE Fail(r)
  BY <1>1, <1>2, FailServes
<1>3. CASE ~Fail(r)
  <2>1. UNCHANGED <<service, swarm, active>>
    BY <1>3 DEF StartDeploy, StartRedeploy, remote, jobs
  <2>2. OthersStay(r) /\ run'[r].pc \in {"building", "shipping"}
    <3>1. CASE StartDeploy(r)
      <4>1. run' = [run EXCEPT ![r] = [pc |-> "building", dep |-> active.arg, image |-> active.arg]]
        BY <1>3, <3>1 DEF StartDeploy
      <4>2. QED
        BY <4>1 DEF OthersStay, BeforeStep, TypeOK
    <3>2. CASE StartRedeploy(r)
      <4>1. PICK d, image : run' = [run EXCEPT ![r] = [pc |-> "shipping", dep |-> d, image |-> image]]
        BY <1>3, <3>2 DEF StartRedeploy
      <4>2. QED
        BY <4>1 DEF OthersStay, BeforeStep, TypeOK
    <3>3. QED
      BY <3>1, <3>2
  <2>3. ~Shipping(r)'
    BY <2>2 DEF Shipping
  <2>4. QED
    BY <1>1, <2>1, <2>2, <2>3, BesideRunner DEF BeforeStep, Served, Erased
<1>4. QED
  BY <1>2, <1>3

LEMMA ThrowServes ==
    ASSUME BeforeStep, NEW r \in Runners, Throw(r)
    PROVE  OneShips' /\ Serving'
<1>1. /\ run[r].pc \in {"building", "shipping", "verdict"} /\ run[r].pc # "erasing"
      /\ clean' => run[r].pc # "verdict"
      /\ UNCHANGED <<service, swarm>>
  BY DEF Throw, rows, remote
<1>2. CASE run[r].pc = "verdict"
  BY <1>1, <1>2 DEF OneShips, Serving
<1>3. CASE run[r].pc # "verdict"
  <2>1. ~Shipping(r) /\ ServiceBeside
    BY <1>1, <1>3 DEF Shipping, ServiceBeside, Erased
  <2>2. CASE Goto(r, "failing") /\ UNCHANGED <<jobs, sweeping>>
    BY <1>1, <2>1, <2>2, GotoServes DEF jobs
  <2>3. CASE End(r, TRUE)
    BY <1>1, <2>1, <2>3, EndServes
  <2>4. QED
    BY <2>2, <2>3 DEF Throw
<1>4. QED
  BY <1>2, <1>3

LEMMA ShipServes ==
    ASSUME BeforeStep, NEW r \in Runners, Ship(r)
    PROVE  OneShips' /\ Serving'
<1> USE DEF BeforeStep
<1>1. CASE ResolveImage(r)
  <2>1. /\ ~Shipping(r) /\ run[r].pc # "erasing" /\ Goto(r, "shipping")
        /\ UNCHANGED <<swarm, active, service>>
    BY <1>1 DEF ResolveImage, Shipping, remote, jobs
  <2>2. QED
    BY <2>1, GotoServes
<1>2. CASE RecordFailed(r)
  <2>1. /\ ~Shipping(r) /\ run[r].pc # "erasing" /\ Goto(r, "marking")
        /\ UNCHANGED <<swarm, active, service>>
    BY <1>2 DEF RecordFailed, Shipping, remote, jobs
  <2>2. QED
    BY <2>1, GotoServes
<1>3. CASE RecordFailedService(r)
  <2>1. /\ ~Shipping(r) /\ run[r].pc # "erasing" /\ End(r, TRUE)
        /\ UNCHANGED swarm /\ UpdateService(MarkCrashed(service))
    BY <1>3 DEF RecordFailedService, Shipping, remote
  <2>2. ServiceBeside
    BY <2>1, PatchNotRunning DEF ServiceBeside, TypeOK
  <2>3. QED
    BY <2>1, <2>2, EndServes
<1>4. CASE Rollout(r)
  BY <1>4, RolloutServes
<1>5. CASE ReadVerdict(r)
  BY <1>5, VerdictServes
<1>6. CASE Throw(r)
  BY <1>6, ThrowServes
<1>7. CASE RecordSucceeded(r) \/ RecordCurrent(r) \/ ClearSupersededWatch(r)
  BY <1>7, SucceededServes, CurrentServes, ClearServes
<1>8. CASE RecordRolledBack(r) \/ RecordCrashed(r)
  BY <1>8, RolledBackServes, CrashedServes
<1>9. QED
  BY <1>1, <1>2, <1>3, <1>4, <1>5, <1>6, <1>7, <1>8 DEF Ship

LEMMA TeardownServes ==
    ASSUME BeforeStep, NEW r \in Runners, Teardown(r)
    PROVE  OneShips' /\ Serving'
<1>1. CASE RemoveSwarm(r)
  <2>1. r = Worker /\ run[r].pc = "delete"
    BY <1>1 DEF RemoveSwarm, BeforeStep, Roles, Runners, WorkerOnly
  <2>2. OthersStay(r) /\ run'[r].pc \in {"idle", "erasing"}
    <3>1. CASE End(r, FALSE)
      BY <3>1 DEF End, OthersStay, BeforeStep, TypeOK, Idle
    <3>2. CASE Goto(r, "erasing")
      BY <3>2, GotoRuns DEF OthersStay, BeforeStep
    <3>3. QED
      BY <1>1, <3>1, <3>2 DEF RemoveSwarm
  <2>3. Erased' \/ run'[r].pc = "erasing"
    <3>1. CASE Goto(r, "erasing")
      BY <3>1, GotoRuns DEF BeforeStep
    <3>2. CASE service.status = "gone"
      BY <1>1, <3>2 DEF RemoveSwarm, rows, Erased
    <3>3. QED
      BY <1>1, <3>1, <3>2 DEF RemoveSwarm
  <2>4. Ends' /\ \A s \in Runners : Shipping(s)' => Shipping(s)
    BY <2>1, <2>2, <2>3 DEF Ends, OthersStay, Shipping
  <2>5. QED
    BY <2>4, EndedServes DEF BeforeStep, Served
<1>2. CASE EraseRow(r)
  <2>1. OthersStay(r) /\ run'[r].pc = "idle" /\ service' = Gone
    BY <1>2 DEF EraseRow, End, OthersStay, BeforeStep, TypeOK, Idle
  <2>2. Ends' /\ \A s \in Runners : Shipping(s)' => Shipping(s)
    BY <2>1 DEF Ends, Erased, Gone, OthersStay, Shipping
  <2>3. QED
    BY <2>2, EndedServes DEF BeforeStep, Served
<1>3. CASE TeardownThrows(r)
  <2>1. /\ ~Shipping(r) /\ run[r].pc # "erasing" /\ Goto(r, "stuck")
        /\ UNCHANGED <<swarm, active, service>>
    BY <1>3 DEF TeardownThrows, Shipping, remote, jobs, rows
  <2>2. QED
    BY <2>1, GotoServes
<1>4. CASE RecordStuck(r)
  <2>1. /\ ~Shipping(r) /\ run[r].pc # "erasing" /\ End(r, TRUE)
        /\ UNCHANGED swarm /\ UpdateService(MarkStuck(service))
    BY <1>4 DEF RecordStuck, Shipping, remote
  <2>2. ServiceBeside
    BY <2>1, PatchNotRunning DEF ServiceBeside, BeforeStep, TypeOK
  <2>3. QED
    BY <2>1, <2>2, EndServes
<1>5. QED
  BY <1>1, <1>2, <1>3, <1>4 DEF Teardown

LEMMA WatchServes ==
    ASSUME BeforeStep, NEW d \in Ids, Watch(d)
    PROVE  OneShips' /\ Serving'
<1>1. d \in Runners /\ ~Shipping(d) /\ run[d].pc # "erasing" /\ UNCHANGED swarm
  BY ConstantRecords
     DEF Watch, Inspect, Fail, FindPrevious, RecordReverted, RecordStranded, Shipping, remote
<1>2. CASE Inspect(d)
  <2>1. ServiceBeside
    BY <1>2 DEF Inspect, Fail, rows, ServiceBeside, Erased
  <2>2. CASE End(d, TRUE) \/ End(d, FALSE)
    BY <1>1, <2>1, <2>2, EndServes
  <2>3. CASE Goto(d, "looping") /\ UNCHANGED <<jobs, sweeping>>
    BY <1>1, <1>2, <2>3, GotoServes DEF Inspect, rows, jobs
  <2>4. QED
    BY <1>2, <2>2, <2>3 DEF Inspect, Fail
<1>3. CASE FindPrevious(d)
  <2>1. /\ OthersStay(d) /\ run'[d].pc = "reverting" /\ UNCHANGED <<service, active>>
    BY <1>1, <1>3 DEF FindPrevious, OthersStay, BeforeStep, TypeOK, Locals, rows, jobs
  <2>2. ~Shipping(d)'
    BY <2>1 DEF Shipping
  <2>3. QED
    BY <1>1, <2>1, <2>2, BesideRunner DEF BeforeStep, Served, Erased
<1>4. CASE RecordReverted(d)
  <2>1. UNCHANGED <<service, active>>
    BY <1>4 DEF RecordReverted, jobs
  <2>2. QED
    BY <1>1, <1>4, <2>1, GotoServes DEF RecordReverted
<1>5. CASE RecordStranded(d)
  <2>1. End(d, FALSE) /\ UpdateService(MarkCrashed(service))
    BY <1>5 DEF RecordStranded
  <2>2. ServiceBeside
    BY <2>1, PatchNotRunning DEF ServiceBeside, BeforeStep, TypeOK
  <2>3. QED
    BY <1>1, <2>1, <2>2, EndServes
<1>6. QED
  BY <1>2, <1>3, <1>4, <1>5 DEF Watch

LEMMA ServedStep == TypeOK /\ Owned /\ History /\ Roles /\ Pointing /\ Served /\ [Next]_vars => Served'
<1> SUFFICES ASSUME TypeOK, Owned, History, Roles, Pointing, Served, [Next]_vars
             PROVE  Served'
  OBVIOUS
<1>1. CurrentKept /\ (clean' => clean /\ crashes' = crashes) /\ ShipsItsRow'
  BY CurrentKeptStep, CleanEffect, ShipsItsRowStep
<1>2. CleanMeans' /\ BeforeStep
  BY <1>1 DEF Served, CleanMeans, BeforeStep
<1>3. OneShips' /\ Serving'
  <2>1. CASE Dashboard \/ Restart \/ (\E d \in Ids : WatchElapses(d)) \/ UNCHANGED vars
    BY <1>2, <2>1, RowsServe
  <2>2. CASE TakeJob \/ StartSweep \/ Crash
    BY <1>2, <2>2, TakeJobServes, StartSweepServes, CrashServes
  <2>3. CASE SwarmBegins \/ SwarmConverges \/ SwarmRollsBack \/ TasksFail
    BY <1>2, <2>3, SwarmStepServes
  <2>4. ASSUME NEW r \in Runners, Step(r)
        PROVE  OneShips' /\ Serving'
    <3>1. CASE StartDeploy(r) \/ StartRedeploy(r)
      BY <1>2, <3>1, StartServes
    <3>2. CASE Ship(r)
      BY <1>2, <3>2, ShipServes
    <3>3. CASE Teardown(r)
      BY <1>2, <3>3, TeardownServes
    <3>4. CASE Scale(r) /\ Fail(r)
      <4>1. ~Shipping(r) /\ run[r].pc # "erasing"
        BY <3>4 DEF Scale, Shipping
      <4>2. QED
        BY <1>2, <3>4, <4>1, FailServes
    <3>5. CASE Scale(r) /\ ~Fail(r)
      BY <1>2, <3>5, ScaleServes DEF BeforeStep
    <3>6. CASE RecordLifecycle(r)
      BY <1>2, <3>6, LifecycleServes DEF BeforeStep
    <3>7. CASE r \in Ids /\ Watch(r)
      BY <1>2, <3>7, WatchServes
    <3>8. QED
      BY <2>4, <3>1, <3>2, <3>3, <3>4, <3>5, <3>6, <3>7 DEF Step
  <2>5. QED
    BY <2>1, <2>2, <2>3, <2>4 DEF Next
<1>4. QED
  BY <1>1, <1>2, <1>3 DEF Served

\* In every quiet state of a clean history the row tells what Swarm serves.
LEMMA ServedMeans == TypeOK /\ Served => ServedIsRecorded
<1> SUFFICES ASSUME TypeOK, Served, clean, AllIdle, service.status = "running"
             PROVE  /\ swarm.exists /\ swarm.replicas = 1
                    /\ service.current # NoId
                    /\ swarm.image = deployments[service.current].image
  BY DEF ServedIsRecorded
<1>1. ~Ends /\ \A r \in Runners : ~Shipping(r)
  BY ConstantRecords DEF AllIdle, Ends, Erased, Shipping
<1>2. AtRest
  BY <1>1 DEF Served, Serving
<1>3. QED
  BY <1>2 DEF AtRest, RunsCurrent, Has

\* What the row says runs is what Swarm runs (ServedIsRecorded): in every
\* quiet state that no overlap of runners, crash, early or late verdict, or
\* error after the change to Swarm came before.
THEOREM ServedAlways == Spec => []ServedIsRecorded
<1> DEFINE IInv == TypeOK /\ Owned /\ History /\ Roles /\ Pointing /\ Served
<1>1. Init => IInv
  BY InitType, OwnedInit, HistoryInit, RolesInit, PointingInit, ServedInit
<1>2. IInv /\ [Next]_vars => IInv'
  BY TypeStep, OwnedStep, HistoryStep, RolesStep, PointingStep, ServedStep
<1>3. IInv => ServedIsRecorded
  BY ServedMeans
<1>4. QED
  BY <1>1, <1>2, <1>3, PTL DEF Spec
=============================================================================
