----------------------------- MODULE DatabasesProofs -----------------------------
(***************************************************************************)
(* Databases for every number of deployments, passwords, waiting jobs and   *)
(* crashes, every engine and every set of requests: its types, and what it  *)
(* keeps true of the row, the service and the worker's place in its job.    *)
(***************************************************************************)
EXTENDS Databases, JobQueueProofs

-----------------------------------------------------------------------------
(* Types *)

AnyJobs == [kind : JobKinds, arg : 0..(MaxDeployments + MaxPasswords), again : BOOLEAN]

\* A provision names a deployment, a change a password.
Jobs == {job \in AnyJobs : /\ job.kind \in Provisions => job.arg \in Ids
                           /\ job.kind = "change" => job.arg \in Passwords}

Row == [status : RESOURCE_STATUSES \cup {"gone"}, error : BOOLEAN, password : Passwords]

RowsTyped ==
    /\ engine \in Engines
    /\ database \in Row
    /\ deployments \in [Ids -> {"absent", "queued", "deploying", "succeeded", "failed"}]
    /\ request \in [Ids -> Provisions \cup {"none"}]
    /\ deleting \in BOOLEAN
    /\ chosen \in Passwords

Service == [exists : BOOLEAN, replicas : {0, 1}, mount : Mount, before : {0, 1},
            previous : Mount, update : {"none", "updating", "completed", "rolled_back"}]

Container == [up : BOOLEAN, secret : Passwords \cup {NoSecret}, current : BOOLEAN]

RemoteTyped ==
    /\ swarm \in Service
    /\ fixed \in Passwords \cup {NoSecret}
    /\ container \in Container
    /\ volume \in BOOLEAN
    /\ opens \in Passwords \cup {NoSecret}
    /\ doubt \subseteq {"altered", "kept", "rolled_back", "scaled_back", "abandoned",
                         "untried", "unanswered"}

\* Where the worker stands in a job of each kind.
ProvisionPhase == {"provision", "secret", "shipping", "verdict",
                   "accepted", "refused", "succeeded", "failed"}
ChangePhase    == {"change", "rotating", "forgetting", "recording"}
RemovePhase    == {"emptying", "stuck"}
DeletePhase    == {"delete", "unsecret", "erasing"}

PlaceOK ==
    /\ pc \in Counters
    /\ (pc = "idle") = (active = NoJob)
    /\ pc \in ProvisionPhase => active.kind \in Provisions
    /\ pc \in ChangePhase => active.kind = "change"
    /\ pc \in RemovePhase => active.kind \in {"rebuild", "delete"}
    /\ pc \in DeletePhase => active.kind = "delete"
    /\ pc = "rebuild" => active.kind = "rebuild"
    /\ pc \in Actions => active.kind = pc
    /\ pc = "applied" => active.kind \in Actions

\* Only a process that is up holds a job.
WorkerTyped ==
    /\ JobsIn(Jobs)
    /\ process \in {"down", "recovering", "up"}
    /\ crashes \in 0..MaxCrashes
    /\ process # "up" => active = NoJob
    /\ PlaceOK

Typed == RowsTyped /\ RemoteTyped /\ WorkerTyped

LEMMA JobsAreJobs == Returnable(Jobs) /\ NoJob \notin Jobs /\ Jobs \subseteq AnyJobs
<1>1. NoJob \notin Jobs
    BY DEF Jobs, AnyJobs, NoJob, JobKinds, Provisions, Actions
<1>2. Jobs \subseteq AnyJobs
    BY DEF Jobs
<1>3. ASSUME NEW job \in Jobs
      PROVE  [job EXCEPT !.again = TRUE] \in Jobs
  <2>1. job \in AnyJobs /\ [job EXCEPT !.again = TRUE] \in AnyJobs
    BY <1>2 DEF AnyJobs
  <2>2. /\ [job EXCEPT !.again = TRUE].kind = job.kind
        /\ [job EXCEPT !.again = TRUE].arg = job.arg
    BY <2>1 DEF AnyJobs
  <2> QED BY <2>1, <2>2 DEF Jobs
<1> QED BY <1>1, <1>2, <1>3 DEF Returnable

LEMMA TypedIsTypeOK == Typed => TypeOK
<1> SUFFICES ASSUME Typed PROVE TypeOK
    OBVIOUS
<1>1. queue \in Seq(AnyJobs) /\ active \in AnyJobs \cup {NoJob} /\ stalled \subseteq AnyJobs
    BY JobsAreJobs DEF Typed, WorkerTyped, JobsIn
<1>2. JobsOK(JobKinds, 0..(MaxDeployments + MaxPasswords))
    BY <1>1 DEF JobsOK, AnyJobs, Typed, WorkerTyped
<1> QED BY <1>2 DEF TypeOK, Typed, RowsTyped, RemoteTyped, WorkerTyped, PlaceOK, Row, Service, Container

LEMMA OutdatedTyped ==
    ASSUME RemoteTyped, Outdated
    PROVE  container' \in Container /\ container'.up = container.up /\ ~container'.current
    BY DEF RemoteTyped, Outdated, Container

\* The patches of Lifecycle keep the row a row.
LEMMA PatchTypes ==
    ASSUME NEW row \in Row
    PROVE  /\ MarkDeploying(row) \in Row
           /\ MarkRunning(row) \in Row
           /\ MarkStopped(row) \in Row
           /\ MarkCrashed(row) \in Row
           /\ MarkDeleting(row) \in Row
           /\ [row EXCEPT !.error = TRUE] \in Row
           /\ \A password \in Passwords : [row EXCEPT !.password = password] \in Row
    BY DEF Row, RESOURCE_STATUSES, MarkDeploying, MarkRunning, MarkStopped, MarkCrashed, MarkDeleting

LEMMA InitTyped == Init => Typed
<1> SUFFICES ASSUME Init PROVE Typed
    OBVIOUS
<1>1. WorkerTyped
    BY QueueAssumption
    DEF Init, QueueInit, JobsIn, WorkerTyped, PlaceOK, Counters, ProvisionPhase, ChangePhase,
        RemovePhase, DeletePhase, Actions
<1>2. 1 \in Passwords
    BY DatabasesAssumption DEF Passwords
<1>3. RowsTyped
    BY <1>2 DEF Init, RowsTyped, Row, RESOURCE_STATUSES
<1>4. RemoteTyped
    BY DEF Init, RemoteTyped, Service, NoSwarm, NoMount, Mount, NoSecret, NoContainer, Container
<1> QED BY <1>1, <1>3, <1>4 DEF Typed

-----------------------------------------------------------------------------
(* The worker's place *)

LEMMA TakeTyped ==
    ASSUME WorkerTyped, TakeJob
    PROVE  WorkerTyped' /\ active' \in Jobs /\ active' = queue[1]
<1>1. JobsIn(Jobs)' /\ active' \in Jobs /\ active' = queue[1] /\ process = "up"
    BY TakeKeeps DEF TakeJob, Take, WorkerTyped
<1>2. pc' = active'.kind
    BY DEF TakeJob, Take
<1>3. active'.kind \in JobKinds /\ active' # NoJob
    BY <1>1, JobsAreJobs DEF AnyJobs
<1>4. PlaceOK'
    BY <1>2, <1>3 DEF PlaceOK, Counters, ProvisionPhase, ChangePhase, RemovePhase, DeletePhase,
                      JobKinds, Provisions, Actions
<1> QED BY <1>1, <1>4 DEF WorkerTyped, TakeJob, worker

\* The end of a job, however it ends.
LEMMA EndTyped ==
    ASSUME WorkerTyped, End, UNCHANGED worker
    PROVE  WorkerTyped'
<1>1. JobsIn(Jobs)' /\ active' = NoJob /\ pc' = "idle"
    BY FinishKeeps DEF End, Finish, WorkerTyped
<1>2. PlaceOK'
    BY <1>1 DEF PlaceOK, Counters, ProvisionPhase, ChangePhase, RemovePhase, DeletePhase, Actions
<1> QED BY <1>1, <1>2 DEF WorkerTyped, worker

\* A request that puts a job on the queue.
LEMMA EnqueueTyped ==
    ASSUME WorkerTyped, NEW kind, NEW arg, Enqueue(kind, arg), UNCHANGED <<worker, pc>>,
           [kind |-> kind, arg |-> arg, again |-> FALSE] \in Jobs
    PROVE  WorkerTyped'
<1>1. JobsIn(Jobs)' /\ active' = active
    BY EnqueueKeeps DEF Enqueue, WorkerTyped
<1> QED BY <1>1 DEF WorkerTyped, PlaceOK, worker

LEMMA StillTyped ==
    ASSUME WorkerTyped, UNCHANGED <<jobs, worker, pc>>
    PROVE  WorkerTyped'
    BY DEF WorkerTyped, PlaceOK, JobsIn, jobs, worker

\* A step from one place of a job to the next.
LEMMA PlaceTyped ==
    ASSUME WorkerTyped, UNCHANGED <<jobs, worker>>, PlaceOK'
    PROVE  WorkerTyped'
    BY DEF WorkerTyped, JobsIn, jobs, worker

\* What the worker is working on.
LEMMA JobInHand ==
    ASSUME WorkerTyped, pc # "idle"
    PROVE  /\ process = "up"
           /\ active \in Jobs
           /\ active.kind \in Provisions => active.arg \in Ids
           /\ active.kind = "change" => active.arg \in Passwords
    BY DEF WorkerTyped, PlaceOK, JobsIn, Jobs

\* A worker step that ends the job or goes on with it: its place afterwards.
LEMMA WorkerStepTyped ==
    ASSUME Typed, WorkerStep
    PROVE  WorkerTyped'
<1>1. WorkerTyped
    BY DEF Typed
<1>2. CASE Provision
  <2>1. CASE End
    BY <1>1, <1>2, <2>1, EndTyped DEF Provision, StartProvision, ThrowUntried, EnsureSecret, Ship, ReadVerdict,
        ProvisionThrows, RecordDatabase, RecordDeployment, Throw
  <2>2. CASE ~End
    <3>1. UNCHANGED <<jobs, worker>> /\ pc \in ProvisionPhase
        BY <1>2, <2>2 DEF Provision, StartProvision, ThrowUntried, EnsureSecret, Ship, ReadVerdict,
            ProvisionThrows, RecordDatabase, RecordDeployment, Throw, ProvisionPhase
    <3>2. pc' \in ProvisionPhase
        BY <1>2, <2>2 DEF Provision, StartProvision, ThrowUntried, EnsureSecret, Ship, ReadVerdict,
            ProvisionThrows, RecordDatabase, RecordDeployment, Throw, ProvisionPhase
    <3>3. active.kind \in Provisions /\ active # NoJob /\ active' = active
        BY <1>1, <3>1 DEF WorkerTyped, PlaceOK, jobs, ProvisionPhase
    <3>4. PlaceOK'
        BY <3>2, <3>3 DEF PlaceOK, Counters, ProvisionPhase, ChangePhase, RemovePhase, DeletePhase,
                          Actions, Provisions, JobKinds
    <3> QED BY <1>1, <3>1, <3>4, PlaceTyped
  <2> QED BY <2>1, <2>2
<1>3. CASE Remove
  <2>1. CASE End
    BY <1>1, <1>3, <2>1, EndTyped DEF Remove, RemoveService, RemoveSecret, RemoveVolumes,
        RecordStuck, EraseRow, Throw
  <2>2. CASE ~End
    <3>1. /\ UNCHANGED <<jobs, worker>>
          /\ pc \in DeletePhase \cup RemovePhase \cup {"rebuild"}
          /\ \/ pc' \in RemovePhase
             \/ pc' = "unsecret" /\ pc = "delete"
             \/ pc' = "provision" /\ active.kind = "rebuild"
             \/ pc' = "erasing" /\ active.kind # "rebuild"
        BY <1>3, <2>2 DEF Remove, RemoveService, RemoveSecret, RemoveVolumes, RecordStuck, EraseRow,
            Throw, DeletePhase, RemovePhase
    <3>2. active.kind \in {"rebuild", "delete"} /\ active # NoJob /\ active' = active
        BY <1>1, <3>1 DEF WorkerTyped, PlaceOK, jobs, DeletePhase, RemovePhase
    <3>3. pc = "delete" => active.kind = "delete"
        BY <1>1 DEF WorkerTyped, PlaceOK, DeletePhase
    <3>4. PlaceOK'
        BY <3>1, <3>2, <3>3 DEF PlaceOK, Counters, ProvisionPhase, ChangePhase, RemovePhase,
            DeletePhase, Actions, Provisions, JobKinds
    <3> QED BY <1>1, <3>1, <3>4, PlaceTyped
  <2> QED BY <2>1, <2>2
<1>4. CASE Change
  <2>1. CASE End
    BY <1>1, <1>4, <2>1, EndTyped DEF Change, AlterUser, Rotate, Forget, RecordPassword, Throw
  <2>2. CASE ~End
    <3>1. UNCHANGED <<jobs, worker>> /\ pc \in ChangePhase /\ pc' \in ChangePhase
        BY <1>4, <2>2 DEF Change, AlterUser, Rotate, Forget, RecordPassword, Throw, ChangePhase
    <3>2. active.kind = "change" /\ active # NoJob /\ active' = active
        BY <1>1, <3>1 DEF WorkerTyped, PlaceOK, jobs, ChangePhase
    <3>3. PlaceOK'
        BY <3>1, <3>2 DEF PlaceOK, Counters, ProvisionPhase, ChangePhase, RemovePhase,
            DeletePhase, Actions, Provisions, JobKinds
    <3> QED BY <1>1, <3>1, <3>3, PlaceTyped
  <2> QED BY <2>1, <2>2
<1>5. CASE Scale
  <2>1. CASE End
    BY <1>1, <1>5, <2>1, EndTyped DEF Scale, Throw
  <2>2. CASE ~End
    <3>1. UNCHANGED <<jobs, worker>> /\ pc \in Actions /\ pc' = "applied"
        BY <1>5, <2>2 DEF Scale, Throw
    <3>2. active.kind \in Actions /\ active # NoJob /\ active' = active
        BY <1>1, <3>1 DEF WorkerTyped, PlaceOK, jobs, Actions
    <3>3. PlaceOK'
        BY <3>1, <3>2 DEF PlaceOK, Counters, ProvisionPhase, ChangePhase, RemovePhase,
            DeletePhase, Actions, Provisions, JobKinds
    <3> QED BY <1>1, <3>1, <3>3, PlaceTyped
  <2> QED BY <2>1, <2>2
<1>6. CASE RecordAction
    BY <1>1, <1>6, EndTyped DEF RecordAction
<1> QED BY <1>2, <1>3, <1>4, <1>5, <1>6 DEF WorkerStep

LEMMA KindsAreJobs ==
    /\ \A kind \in Provisions, d \in Ids : [kind |-> kind, arg |-> d, again |-> FALSE] \in Jobs
    /\ \A password \in Passwords : [kind |-> "change", arg |-> password, again |-> FALSE] \in Jobs
    /\ \A kind \in Actions \cup {"delete"} : [kind |-> kind, arg |-> 0, again |-> FALSE] \in Jobs
    BY DatabasesAssumption DEF Jobs, AnyJobs, Ids, Passwords, JobKinds, Provisions, Actions

LEMMA TypedStep == Typed /\ [Next]_vars => Typed'
<1> SUFFICES ASSUME Typed, [Next]_vars PROVE Typed'
    OBVIOUS
<1>0. RowsTyped /\ RemoteTyped /\ WorkerTyped
    BY DEF Typed
<1>1. CASE Dashboard
  <2>1. ASSUME NEW d \in Ids, NEW kind \in Provisions, RequestProvision(d, kind)
        PROVE  Typed'
    <3>1. RowsTyped'
        BY <1>0, <2>1, PatchTypes DEF RequestProvision, RowsTyped, UpdateRow
    <3>2. RemoteTyped'
        BY <1>0, <2>1 DEF RequestProvision, RemoteTyped, remote
    <3>3. WorkerTyped'
        BY <1>0, <2>1, StillTyped DEF RequestProvision
    <3> QED BY <3>1, <3>2, <3>3 DEF Typed
  <2>2. ASSUME NEW d \in Ids, RequestEnqueue(d)
        PROVE  Typed'
    <3>1. RowsTyped' /\ request[d] \in Provisions
        BY <1>0, <2>2 DEF RequestEnqueue, RowsTyped, rows
    <3>2. RemoteTyped'
        BY <1>0, <2>2 DEF RequestEnqueue, RemoteTyped, remote
    <3>3. WorkerTyped'
        BY <1>0, <2>2, <3>1, KindsAreJobs, EnqueueTyped DEF RequestEnqueue
    <3> QED BY <3>1, <3>2, <3>3 DEF Typed
  <2>3. CASE RequestChange
    <3>1. RowsTyped' /\ chosen + 1 \in Passwords
        BY <1>0, <2>3, DatabasesAssumption DEF RequestChange, RowsTyped, rows, Passwords
    <3>2. RemoteTyped'
        BY <1>0, <2>3 DEF RequestChange, RemoteTyped, remote
    <3>3. WorkerTyped'
        BY <1>0, <2>3, <3>1, KindsAreJobs, EnqueueTyped DEF RequestChange
    <3> QED BY <3>1, <3>2, <3>3 DEF Typed
  <2>4. ASSUME NEW action \in Actions, RequestLifecycle(action)
        PROVE  Typed'
    <3>1. RowsTyped'
        BY <1>0, <2>4 DEF RequestLifecycle, RowsTyped, rows, asked
    <3>2. RemoteTyped'
        BY <1>0, <2>4 DEF RequestLifecycle, RemoteTyped, remote
    <3>3. WorkerTyped'
        BY <1>0, <2>4, KindsAreJobs, EnqueueTyped DEF RequestLifecycle
    <3> QED BY <3>1, <3>2, <3>3 DEF Typed
  <2>5. CASE RequestDelete
    <3>1. RowsTyped'
        BY <1>0, <2>5, PatchTypes DEF RequestDelete, RowsTyped, UpdateRow
    <3>2. RemoteTyped'
        BY <1>0, <2>5 DEF RequestDelete, RemoteTyped, remote
    <3>3. WorkerTyped'
        BY <1>0, <2>5, StillTyped DEF RequestDelete
    <3> QED BY <3>1, <3>2, <3>3 DEF Typed
  <2>6. CASE DeleteEnqueue
    <3>1. RowsTyped'
        BY <1>0, <2>6 DEF DeleteEnqueue, RowsTyped, rows
    <3>2. RemoteTyped'
        BY <1>0, <2>6 DEF DeleteEnqueue, RemoteTyped, remote
    <3>3. WorkerTyped'
        BY <1>0, <2>6, KindsAreJobs, EnqueueTyped DEF DeleteEnqueue
    <3> QED BY <3>1, <3>2, <3>3 DEF Typed
  <2> QED BY <1>1, <2>1, <2>2, <2>3, <2>4, <2>5, <2>6 DEF Dashboard
<1>2. CASE TakeJob
    BY <1>0, <1>2, TakeTyped DEF TakeJob, Typed, RowsTyped, RemoteTyped, rows, asked, remote
<1>3. CASE WorkerStep
  <2>0. WorkerTyped'
    BY <1>3, WorkerStepTyped
  <2>1. CASE Provision
    <3>1. active.arg \in Ids
        BY <1>0, <2>1, JobInHand DEF Provision, StartProvision, ThrowUntried, EnsureSecret, Ship, ReadVerdict,
            ProvisionThrows, RecordDatabase, RecordDeployment, WorkerTyped, PlaceOK, ProvisionPhase
    <3>2. RowsTyped'
      <4>1. CASE StartProvision
        BY <1>0, <3>1, <4>1 DEF StartProvision, ThrowUntried, Throw, SetDeployment, RowsTyped, rows, asked
      <4>2. CASE EnsureSecret \/ Ship \/ ReadVerdict \/ ProvisionThrows
        BY <1>0, <4>2 DEF EnsureSecret, Ship, ReadVerdict, ProvisionThrows, RowsTyped, rows, asked
      <4>3. CASE RecordDatabase
        BY <1>0, <4>3, PatchTypes DEF RecordDatabase, UpdateRow, RowsTyped, asked
      <4>4. CASE RecordDeployment
        BY <1>0, <3>1, <4>4 DEF RecordDeployment, SetDeployment, RowsTyped, asked
      <4> QED BY <2>1, <4>1, <4>2, <4>3, <4>4 DEF Provision
    <3>3. RemoteTyped'
      <4>1. CASE StartProvision
        BY <1>0, <4>1 DEF StartProvision, ThrowUntried, Throw, RemoteTyped, remote
      <4>2. CASE EnsureSecret
        BY <1>0, <4>2 DEF EnsureSecret, RemoteTyped, RowsTyped, Row
      <4>3. CASE Ship
        <5>1. swarm' \in Service
            BY <1>0, <4>3 DEF Ship, RemoteTyped, Service, Mount
        <5> QED BY <1>0, <4>3, <5>1, OutdatedTyped DEF Ship, RemoteTyped
      <4>4. CASE ReadVerdict \/ ProvisionThrows \/ RecordDatabase \/ RecordDeployment
        BY <1>0, <4>4 DEF ReadVerdict, ProvisionThrows, RecordDatabase, RecordDeployment,
            RemoteTyped, remote
      <4> QED BY <2>1, <4>1, <4>2, <4>3, <4>4 DEF Provision
    <3> QED BY <2>0, <3>2, <3>3 DEF Typed
  <2>2. CASE Remove
    <3>1. RowsTyped'
      <4>1. CASE RemoveService \/ RemoveSecret \/ RemoveVolumes
        BY <1>0, <4>1 DEF RemoveService, RemoveSecret, RemoveVolumes, Throw, RowsTyped, rows, asked
      <4>2. CASE RecordStuck
        BY <1>0, <4>2, PatchTypes DEF RecordStuck, UpdateRow, RowsTyped, asked
      <4>3. CASE EraseRow
        BY <1>0, <4>3, DatabasesAssumption DEF EraseRow, RowsTyped, Row, Passwords, asked
      <4> QED BY <2>2, <4>1, <4>2, <4>3 DEF Remove
    <3>2. RemoteTyped'
      <4>1. CASE RemoveService
        <5>1. NoSwarm \in Service
            BY DEF NoSwarm, NoMount, Mount, NoSecret, Service
        <5> QED BY <1>0, <4>1, <5>1, OutdatedTyped DEF RemoveService, Throw, RemoteTyped, remote
      <4>2. CASE RemoveSecret \/ RemoveVolumes
        BY <1>0, <4>2 DEF RemoveSecret, RemoveVolumes, RemoteTyped
      <4>3. CASE RecordStuck \/ EraseRow
        BY <1>0, <4>3 DEF RecordStuck, EraseRow, RemoteTyped, remote
      <4> QED BY <2>2, <4>1, <4>2, <4>3 DEF Remove
    <3> QED BY <2>0, <3>1, <3>2 DEF Typed
  <2>3. CASE Change
    <3>1. active.arg \in Passwords
        BY <1>0, <2>3, JobInHand DEF Change, AlterUser, Rotate, Forget, RecordPassword, WorkerTyped,
            PlaceOK, ChangePhase
    <3>2. RowsTyped'
      <4>1. CASE AlterUser \/ Rotate \/ Forget
        BY <1>0, <4>1 DEF AlterUser, Rotate, Forget, Throw, RowsTyped, rows, asked
      <4>2. CASE RecordPassword
        BY <1>0, <3>1, <4>2, PatchTypes DEF RecordPassword, UpdateRow, RowsTyped, asked
      <4> QED BY <2>3, <4>1, <4>2 DEF Change
    <3>3. RemoteTyped'
      <4>1. CASE AlterUser
        BY <1>0, <3>1, <4>1 DEF AlterUser, Throw, RemoteTyped, remote
      <4>2. CASE Rotate
        <5>1. [value |-> active.arg, fixed |-> FALSE] \in Mount
            BY <3>1 DEF Mount
        <5>2. swarm' \in Service
            BY <1>0, <4>2, <5>1 DEF Rotate, Throw, RemoteTyped, remote, Service
        <5> QED BY <1>0, <4>2, <5>2, OutdatedTyped DEF Rotate, Throw, RemoteTyped, remote
      <4>3. CASE Forget
        BY <1>0, <4>3 DEF Forget, RemoteTyped
      <4>4. CASE RecordPassword
        BY <1>0, <4>4 DEF RecordPassword, RemoteTyped, remote
      <4> QED BY <2>3, <4>1, <4>2, <4>3, <4>4 DEF Change
    <3> QED BY <2>0, <3>2, <3>3 DEF Typed
  <2>4. CASE Scale
    <3>1. RowsTyped'
        BY <1>0, <2>4 DEF Scale, Throw, RowsTyped, rows, asked
    <3>2. RemoteTyped'
      <4>1. [start |-> 1, stop |-> 0, restart |-> swarm.replicas][pc] \in {0, 1}
            /\ (IF pc = "restart" THEN "updating" ELSE "none") \in {"none", "updating"}
        BY <1>0, <2>4 DEF Scale, RemoteTyped, Service, Actions
      <4>2. swarm' \in Service
        BY <1>0, <2>4, <4>1 DEF Scale, Throw, RemoteTyped, remote, Service
      <4> QED BY <1>0, <2>4, <4>2 DEF Scale, Throw, RemoteTyped, remote
    <3> QED BY <2>0, <3>1, <3>2 DEF Typed
  <2>5. CASE RecordAction
    <3>0. active.kind \in Actions
        BY <1>0, <2>5 DEF RecordAction, WorkerTyped, PlaceOK
    <3>1. RowsTyped'
        BY <1>0, <2>5, <3>0, PatchTypes DEF RecordAction, UpdateRow, RowsTyped, asked, Actions
    <3>2. RemoteTyped'
        BY <1>0, <2>5 DEF RecordAction, RemoteTyped, remote
    <3> QED BY <2>0, <3>1, <3>2 DEF Typed
  <2> QED BY <1>3, <2>1, <2>2, <2>3, <2>4, <2>5 DEF WorkerStep
<1>4. CASE Crash
  <2>1. JobsIn(Jobs)' /\ active' = NoJob /\ pc' = "idle"
        /\ process' = "down" /\ crashes' \in 0..MaxCrashes
    BY <1>0, <1>4, DieKeeps, QueueAssumption DEF Crash, Die, WorkerTyped
  <2>2. PlaceOK'
    BY <2>1 DEF PlaceOK, Counters, ProvisionPhase, ChangePhase, RemovePhase, DeletePhase, Actions
  <2>3. WorkerTyped'
    BY <2>1, <2>2 DEF WorkerTyped
  <2>4. RowsTyped' /\ RemoteTyped'
    BY <1>0, <1>4 DEF Crash, RowsTyped, RemoteTyped, rows, asked, remote
  <2> QED BY <2>3, <2>4 DEF Typed
<1>5. CASE Recovery
  <2>1. CASE RecoverDeployments
    <3>1. RowsTyped' /\ RemoteTyped'
        BY <1>0, <2>1 DEF RecoverDeployments, RowsTyped, RemoteTyped, asked, remote
    <3>2. WorkerTyped'
        BY <1>0, <2>1 DEF RecoverDeployments, WorkerTyped, PlaceOK, JobsIn, jobs
    <3> QED BY <3>1, <3>2 DEF Typed
  <2>2. CASE RecoverDatabase
    <3>1. RowsTyped' /\ RemoteTyped'
        BY <1>0, <2>2, PatchTypes DEF RecoverDatabase, UpdateRow, RowsTyped, RemoteTyped, asked, remote
    <3>2. WorkerTyped'
        BY <1>0, <2>2 DEF RecoverDatabase, WorkerTyped, PlaceOK, JobsIn, jobs
    <3> QED BY <3>1, <3>2 DEF Typed
  <2>3. CASE JobReturns
    <3>1. RowsTyped' /\ RemoteTyped'
        BY <1>0, <2>3 DEF JobReturns, RowsTyped, RemoteTyped, rows, asked, remote
    <3>2. JobsIn(Jobs)' /\ active' = active
        BY <1>0, <2>3, ComesBackKeeps, JobsAreJobs DEF JobReturns, ComesBack, WorkerTyped
    <3>3. WorkerTyped'
        BY <1>0, <2>3, <3>2 DEF JobReturns, WorkerTyped, PlaceOK, worker
    <3> QED BY <3>1, <3>3 DEF Typed
  <2> QED BY <1>5, <2>1, <2>2, <2>3 DEF Recovery
<1>6. CASE SwarmSteps
  <2>1. RowsTyped' /\ WorkerTyped'
    BY <1>0, <1>6, StillTyped DEF SwarmSteps, TaskStarts, TaskStops, UpdateCompletes,
        UpdateRollsBack, RowsTyped, rows, asked
  <2>2. RemoteTyped'
    <3>1. CASE TaskStarts \/ TaskStops
      <4>1. swarm.mount.value \in Passwords \cup {NoSecret}
        BY <1>0 DEF RemoteTyped, Service, Mount
      <4>2. CASE TaskStarts
        BY <1>0, <4>1, <4>2 DEF TaskStarts, RemoteTyped, Container
      <4>3. CASE TaskStops
        BY <1>0, <4>3 DEF TaskStops, RemoteTyped, NoContainer, Container, NoSecret
      <4> QED BY <3>1, <4>2, <4>3
    <3>2. CASE UpdateCompletes \/ UpdateRollsBack
      <4>1. swarm' \in Service
        BY <1>0, <3>2 DEF UpdateCompletes, UpdateRollsBack, RemoteTyped, Service
      <4> QED BY <1>0, <3>2, <4>1, OutdatedTyped DEF UpdateCompletes, UpdateRollsBack, RemoteTyped
    <3> QED BY <1>6, <3>1, <3>2 DEF SwarmSteps
  <2> QED BY <2>1, <2>2 DEF Typed
<1>7. CASE UNCHANGED vars
    BY <1>0, <1>7, StillTyped DEF vars, rows, asked, remote, Typed, RowsTyped, RemoteTyped
<1> QED BY <1>1, <1>2, <1>3, <1>4, <1>5, <1>6, <1>7 DEF Next

\* Every reachable state of a database, its worker and its service is of the
\* declared types, and the worker stands where a job of its kind can stand.
THEOREM TypeCorrect == Spec => []TypeOK
<1>1. Spec => []Typed
    BY InitTyped, TypedStep, PTL DEF Spec
<1> QED BY <1>1, TypedIsTypeOK, PTL

-----------------------------------------------------------------------------
(* What else always holds *)

\* While a worker runs, a row reads deploying only from the step that writes
\* it to the step that replaces it.
Owned ==
    process # "down" => \A d \in Ids : deployments[d] = "deploying" =>
        active.arg = d /\ pc \in ProvisionPhase \ {"provision"}

\* A teardown removes the service first, the volume next and the row last, and
\* what finds no row ends where it began.
TornDown ==
    /\ Gone => ~swarm.exists /\ ~volume /\ pc \in {"idle"} \cup JobKinds
    /\ pc \in {"unsecret", "emptying", "erasing"} => ~swarm.exists
    /\ pc = "erasing" => ~volume

\* What the steps that will write running have seen or done themselves.
AboutToRun ==
    /\ pc = "verdict" => swarm.exists /\ (swarm.replicas = 1 \/ swarm.update = "rolled_back")
    /\ pc = "accepted" => swarm.exists /\ (swarm.replicas = 1 \/ "scaled_back" \in doubt)
    /\ pc = "applied" /\ active.kind = "start" =>
         swarm.exists /\ swarm.replicas = 1 /\ swarm.update = "none"

Served == swarm.exists /\ swarm.replicas = 1

\* The jobs that take a service down before they bring it up, or for good.
Interrupting == Provisions \cup {"stop", "delete"}

\* A job is between the step that takes the service down and the write that
\* says so, or was when its worker died and is to be done again.
HalfDone ==
    \/ pc \in {"emptying", "unsecret", "erasing", "stuck",
               "provision", "secret", "shipping", "refused"}
    \/ pc = "verdict" /\ swarm.update = "rolled_back"
    \/ pc = "applied" /\ active.kind = "stop"
    \/ pc \in Interrupting /\ active.again
    \/ \E job \in stalled : job.kind \in Interrupting
    \/ \E job \in Waiting : job.kind \in Interrupting /\ job.again

\* What takes the replica away and tells no row.
Unserved == {"scaled_back", "abandoned", "untried", "unanswered"}

RunningIsMeant ==
    database.status = "running" /\ ~database.error /\ doubt \cap Unserved = {}
        => Served \/ HalfDone

\* No job has come back before a worker died.
FirstJobs    == {job \in Jobs : ~job.again}
NoneCameBack == crashes = 0 => JobsIn(FirstJobs) /\ stalled = {}

\* Some job of these kinds has yet to write its last word on the database.
ToCome(kinds) ==
    \/ active.kind \in kinds /\ pc \notin {"succeeded", "failed"}
    \/ \E job \in stalled \cup Waiting : job.kind \in kinds

\* A provision has yet to write, or threw before it could.
Provided == ToCome(Provisions) \/ "untried" \in doubt

Remembered ==
    crashes < 2 /\ ~database.error =>
        /\ database.status = "deploying" => Provided \/ \E d \in Ids : request[d] # "none"
        /\ database.status = "deleting" => ToCome({"delete"}) \/ deleting

\* The secret of the fixed name is the row's password, or none, unless a change
\* is on its way or left it behind.
FixedFollows ==
    /\ pc \in {"rotating", "forgetting", "recording"} => "altered" \in doubt
    /\ pc = "shipping" => fixed # NoSecret
    /\ pc = "recording" => fixed = NoSecret \/ "kept" \in doubt
    /\ ~Gone /\ doubt \cap {"altered", "kept"} = {} => fixed \in {NoSecret, database.password}

\* So is the secret the service mounts, unless Swarm went back.
MountFollows ==
    /\ pc \in {"forgetting", "recording"} /\ "rolled_back" \notin doubt => swarm.mount.value = active.arg
    /\ ~Gone /\ doubt \cap {"altered", "kept", "rolled_back"} = {} /\ swarm.exists
         => swarm.mount.value = database.password

\* A service mounts a secret, and as long as the engine has not started on the
\* volume it mounts the one of the fixed name.
MountThere ==
    /\ swarm.exists => swarm.mount.value # NoSecret
    /\ swarm.update = "updating" => swarm.previous.value # NoSecret
    /\ container.up => opens # NoSecret
    /\ container.up /\ container.current => swarm.exists
    /\ pc \in {"rotating", "forgetting", "recording"} => opens # NoSecret
    /\ swarm.exists /\ opens = NoSecret =>
         /\ swarm.mount.value = fixed
         /\ swarm.update = "updating" => swarm.previous.value = fixed

\* An engine that keeps its password in the volume accepts the row's, unless a
\* change is on its way; it starts with the secret it is given first.
EngineFollows ==
    engine # "redis" =>
        /\ pc \in {"rotating", "forgetting", "recording"} => opens = active.arg
        /\ ~Gone /\ doubt \cap {"altered", "kept"} = {} => opens \in {NoSecret, database.password}

\* An engine that keeps it in memory accepts the secret it was started with,
\* until that is changed under it, and is started again.
MemoryFollows ==
    engine = "redis" /\ ~Gone /\ container.up /\ container.current
        /\ ("altered" \notin doubt \/ pc \in {"forgetting", "recording"})
      => opens = swarm.mount.value

PasswordInv == FixedFollows /\ MountFollows /\ MountThere /\ EngineFollows /\ MemoryFollows

IInv == Typed /\ Owned /\ TornDown /\ AboutToRun /\ RunningIsMeant /\ NoneCameBack /\ Remembered
        /\ PasswordInv

-----------------------------------------------------------------------------
(* Owned *)

NoneDeploying == \A d \in Ids : deployments[d] # "deploying"

LEMMA OwnedStep == Typed /\ Owned /\ [Next]_vars => Owned'
<1> SUFFICES ASSUME Typed, Owned, [Next]_vars PROVE Owned'
    OBVIOUS
<1>0. RowsTyped /\ WorkerTyped
    BY DEF Typed
<1>1. ASSUME process # "down", pc \notin ProvisionPhase \ {"provision"}
      PROVE  NoneDeploying
    BY <1>1 DEF Owned, NoneDeploying
<1>2. CASE Dashboard
  <2>1. ASSUME NEW d \in Ids, NEW kind \in Provisions, RequestProvision(d, kind)
        PROVE  Owned'
    BY <1>0, <2>1 DEF RequestProvision, Owned, RowsTyped, jobs, worker
  <2>2. CASE RequestDelete
    BY <2>2 DEF RequestDelete, Owned, jobs, worker
  <2>3. ASSUME UNCHANGED <<active, rows, worker, pc>>
        PROVE  Owned'
    BY <2>3 DEF Owned, rows, worker
  <2> QED BY <1>2, <2>1, <2>2, <2>3 DEF Dashboard, RequestEnqueue, RequestChange, RequestLifecycle,
             DeleteEnqueue, Enqueue
<1>3. CASE TakeJob
  <2>1. NoneDeploying
    BY <1>0, <1>1, <1>3 DEF TakeJob, Take, WorkerTyped, PlaceOK, ProvisionPhase
  <2> QED BY <1>3, <2>1 DEF TakeJob, Owned, NoneDeploying, rows
<1>4. CASE Provision
  <2>0. process = "up" /\ pc \in ProvisionPhase
    BY <1>0, <1>4, JobInHand DEF Provision, StartProvision, ThrowUntried, EnsureSecret, Ship, ReadVerdict,
        ProvisionThrows, RecordDatabase, RecordDeployment, ProvisionPhase
  <2>1. CASE StartProvision
    <3>1. NoneDeploying
        BY <1>1, <2>0, <2>1 DEF StartProvision
    <3>2. CASE Gone
        BY <2>1, <3>1, <3>2 DEF StartProvision, ThrowUntried, Throw, Owned, NoneDeploying, rows
    <3>3. CASE ~Gone /\ ~ThrowUntried
        BY <1>0, <2>1, <3>1, <3>3 DEF StartProvision, SetDeployment, Owned, NoneDeploying,
            RowsTyped, jobs, ProvisionPhase
    <3>4. CASE ThrowUntried
        BY <3>1, <3>4 DEF ThrowUntried, Owned, NoneDeploying, rows
    <3> QED BY <3>2, <3>3, <3>4
  <2>2. CASE EnsureSecret \/ Ship \/ ReadVerdict \/ ProvisionThrows \/ RecordDatabase
    <3>1. UNCHANGED <<deployments, active, worker>> /\ pc' \in ProvisionPhase \ {"provision"}
        BY <2>2 DEF EnsureSecret, Ship, ReadVerdict, ProvisionThrows, RecordDatabase, rows, jobs,
            ProvisionPhase
    <3>2. pc # "provision"
        BY <2>2 DEF EnsureSecret, Ship, ReadVerdict, ProvisionThrows, RecordDatabase
    <3> QED BY <2>0, <3>1, <3>2 DEF Owned, worker
  <2>3. CASE RecordDeployment
    <3>1. \A d \in Ids : deployments[d] = "deploying" => d = active.arg
        BY <2>0 DEF Owned
    <3>2. \A d \in Ids : deployments'[d] # "deploying"
        BY <1>0, <2>3, <3>1 DEF RecordDeployment, SetDeployment, RowsTyped
    <3> QED BY <3>2 DEF Owned
  <2> QED BY <1>4, <2>1, <2>2, <2>3 DEF Provision
<1>5. CASE Remove \/ Change \/ Scale \/ RecordAction
  <2>1. pc \notin ProvisionPhase /\ process = "up"
    BY <1>0, <1>5, JobInHand DEF Remove, RemoveService, RemoveSecret, RemoveVolumes, RecordStuck, EraseRow,
        Change, AlterUser, Rotate, Forget, RecordPassword, Scale, RecordAction, ProvisionPhase, Actions
  <2>2. NoneDeploying
    BY <1>1, <2>1
  <2>3. UNCHANGED deployments \/ deployments' = [d \in Ids |-> "absent"]
    BY <1>5 DEF Remove, RemoveService, RemoveSecret, RemoveVolumes, RecordStuck, EraseRow,
        Change, AlterUser, Rotate, Forget, RecordPassword, Scale, RecordAction, Throw, rows
  <2> QED BY <2>2, <2>3 DEF Owned, NoneDeploying
<1>6. CASE Crash
    BY <1>6 DEF Crash, Die, Owned
<1>7. CASE Recovery
  <2>1. CASE RecoverDeployments
    <3>1. \A d \in Ids : deployments'[d] # "deploying"
        BY <1>0, <2>1 DEF RecoverDeployments, RowsTyped
    <3> QED BY <3>1 DEF Owned
  <2>2. CASE RecoverDatabase
    <3>1. NoneDeploying
        BY <1>0, <1>1, <2>2 DEF RecoverDatabase, WorkerTyped, PlaceOK, ProvisionPhase
    <3> QED BY <2>2, <3>1 DEF RecoverDatabase, Owned, NoneDeploying
  <2>3. CASE JobReturns
    BY <2>3 DEF JobReturns, ComesBack, Owned, rows, worker
  <2> QED BY <1>7, <2>1, <2>2, <2>3 DEF Recovery
<1>8. CASE SwarmSteps
    BY <1>8 DEF SwarmSteps, TaskStarts, TaskStops, UpdateCompletes, UpdateRollsBack, Owned, rows,
        jobs, worker
<1>9. CASE UNCHANGED vars
    BY <1>9 DEF vars, Owned, rows, jobs, worker
<1> QED BY <1>2, <1>3, <1>4, <1>5, <1>6, <1>7, <1>8, <1>9 DEF Next, WorkerStep

-----------------------------------------------------------------------------
(* TornDown *)

\* No patch makes a row that is there a row that is gone.
LEMMA PatchesKeepRow ==
    ASSUME NEW row \in Row
    PROVE  /\ MarkDeploying(row).status # "gone"
           /\ MarkRunning(row).status # "gone"
           /\ MarkStopped(row).status # "gone"
           /\ MarkCrashed(row).status # "gone"
           /\ MarkDeleting(row).status # "gone"
           /\ [row EXCEPT !.error = TRUE].status = row.status
           /\ \A password : [row EXCEPT !.password = password].status = row.status
    BY DEF Row, MarkDeploying, MarkRunning, MarkStopped, MarkCrashed, MarkDeleting

LEMMA GoneStep ==
    ASSUME Typed, [Next]_vars, ~EraseRow
    PROVE  Gone' = Gone
<1>0. database \in Row
    BY DEF Typed, RowsTyped
<1>1. UNCHANGED database => Gone' = Gone
    BY DEF Gone
<1>2. CASE Dashboard
  <2>1. ASSUME NEW d \in Ids, NEW kind \in Provisions, RequestProvision(d, kind)
        PROVE  Gone' = Gone
    BY <1>0, <2>1, PatchesKeepRow DEF RequestProvision, UpdateRow, Gone
  <2>2. CASE RequestDelete
    BY <1>0, <2>2, PatchesKeepRow DEF RequestDelete, UpdateRow, Gone
  <2> QED BY <1>1, <1>2, <2>1, <2>2 DEF Dashboard, RequestEnqueue, RequestChange, RequestLifecycle,
             DeleteEnqueue, rows
<1>3. CASE Provision
  <2>1. CASE RecordDatabase
    BY <1>0, <2>1, PatchesKeepRow DEF RecordDatabase, UpdateRow, Gone
  <2> QED BY <1>1, <1>3, <2>1 DEF Provision, StartProvision, ThrowUntried, EnsureSecret, Ship, ReadVerdict,
             ProvisionThrows, RecordDeployment, Throw, rows
<1>4. CASE Remove
  <2>1. CASE RecordStuck
    BY <1>0, <2>1, PatchesKeepRow DEF RecordStuck, UpdateRow, Gone
  <2> QED BY <1>1, <1>4, <2>1 DEF Remove, RemoveService, RemoveSecret, RemoveVolumes, Throw, rows
<1>5. CASE Change
  <2>1. CASE RecordPassword
    BY <1>0, <2>1, PatchesKeepRow DEF RecordPassword, UpdateRow, Gone
  <2> QED BY <1>1, <1>5, <2>1 DEF Change, AlterUser, Rotate, Forget, Throw, rows
<1>6. CASE Scale
    BY <1>1, <1>6 DEF Scale, Throw, rows
<1>7. CASE RecordAction
  <2>1. active.kind \in Actions
    BY <1>7 DEF RecordAction, Typed, WorkerTyped, PlaceOK
  <2> QED BY <1>0, <1>7, <2>1, PatchesKeepRow DEF RecordAction, UpdateRow, Gone, Actions
<1>8. CASE RecoverDatabase
    BY <1>0, <1>8, PatchesKeepRow DEF RecoverDatabase, UpdateRow, Gone
<1>9. CASE TakeJob \/ Crash \/ RecoverDeployments \/ JobReturns \/ SwarmSteps \/ UNCHANGED vars
    BY <1>1, <1>9 DEF TakeJob, Crash, RecoverDeployments, JobReturns, SwarmSteps, TaskStarts,
        TaskStops, UpdateCompletes, UpdateRollsBack, vars, rows
<1> QED BY <1>2, <1>3, <1>4, <1>5, <1>6, <1>7, <1>8, <1>9 DEF Next, WorkerStep, Recovery

LEMMA TornDownStep == Typed /\ TornDown /\ [Next]_vars => TornDown'
<1> SUFFICES ASSUME Typed, TornDown, [Next]_vars PROVE TornDown'
    OBVIOUS
<1>0. WorkerTyped
    BY DEF Typed
<1>1. CASE EraseRow
    BY <1>1 DEF EraseRow, TornDown, End, Gone, remote
<1>2. ASSUME ~EraseRow PROVE Gone' = Gone
    BY <1>2, GoneStep
<1>3. CASE Dashboard
  <2>1. ~EraseRow
    BY <1>0, <1>3 DEF Dashboard, RequestProvision, RequestEnqueue, RequestChange, RequestLifecycle,
        RequestDelete, DeleteEnqueue, EraseRow, End, WorkerTyped, PlaceOK
  <2> QED BY <1>2, <1>3, <2>1 DEF Dashboard, RequestProvision, RequestEnqueue, RequestChange,
             RequestLifecycle, RequestDelete, DeleteEnqueue, TornDown, remote
<1>4. CASE TakeJob
  <2>1. pc' \in JobKinds /\ pc = "idle"
    BY <1>0, <1>4, TakeTyped, JobsAreJobs DEF TakeJob, Take, AnyJobs, WorkerTyped, PlaceOK
  <2>2. pc' \notin {"unsecret", "emptying", "erasing"} /\ ~EraseRow
    BY <2>1 DEF JobKinds, Provisions, Actions, EraseRow
  <2> QED BY <1>2, <1>4, <2>1, <2>2 DEF TakeJob, TornDown, remote
<1>5. CASE Provision
  <2>1. ~EraseRow
    BY <1>5 DEF Provision, StartProvision, ThrowUntried, EnsureSecret, Ship, ReadVerdict, ProvisionThrows,
        RecordDatabase, RecordDeployment, EraseRow
  <2>2. CASE StartProvision
    BY <1>2, <2>1, <2>2 DEF StartProvision, ThrowUntried, Throw, End, TornDown, remote
  <2>3. CASE ~StartProvision
    <3>1. ~Gone
        BY <1>5, <2>3 DEF Provision, EnsureSecret, Ship, ReadVerdict, ProvisionThrows,
            RecordDatabase, RecordDeployment, TornDown, JobKinds, Provisions, Actions
    <3>2. pc' \notin {"unsecret", "emptying", "erasing"}
        BY <1>5, <2>3 DEF Provision, EnsureSecret, Ship, ReadVerdict, ProvisionThrows,
            RecordDatabase, RecordDeployment, End
    <3> QED BY <1>2, <2>1, <3>1, <3>2 DEF TornDown
  <2> QED BY <2>2, <2>3
<1>6. CASE Remove /\ ~EraseRow
  <2>1. CASE RemoveService
    BY <1>2, <1>6, <2>1 DEF RemoveService, Throw, End, TornDown, NoSwarm, remote
  <2>2. CASE RemoveSecret \/ RemoveVolumes \/ RecordStuck
    <3>1. ~Gone
        BY <2>2 DEF RemoveSecret, RemoveVolumes, RecordStuck, TornDown, JobKinds, Provisions, Actions
    <3> QED BY <1>2, <1>6, <2>2, <3>1 DEF RemoveSecret, RemoveVolumes, RecordStuck, End, TornDown, remote
  <2> QED BY <1>6, <2>1, <2>2 DEF Remove
<1>7. CASE Change
  <2>1. ~EraseRow
    BY <1>7 DEF Change, AlterUser, Rotate, Forget, RecordPassword, EraseRow
  <2>2. CASE AlterUser
    BY <1>2, <2>1, <2>2 DEF AlterUser, Throw, End, TornDown, remote
  <2>3. CASE Rotate \/ Forget \/ RecordPassword
    <3>1. ~Gone
        BY <2>3 DEF Rotate, Forget, RecordPassword, TornDown, JobKinds, Provisions, Actions
    <3> QED BY <1>2, <2>1, <2>3, <3>1 DEF Rotate, Forget, RecordPassword, Throw, End, TornDown, remote
  <2> QED BY <1>7, <2>2, <2>3 DEF Change
<1>8. CASE Scale
    BY <1>2, <1>8 DEF Scale, Throw, End, EraseRow, TornDown, remote, Actions
<1>9. CASE RecordAction
    BY <1>2, <1>9 DEF RecordAction, End, EraseRow, TornDown, remote
<1>10. CASE Crash
    BY <1>2, <1>10 DEF Crash, EraseRow, TornDown, remote, rows, Gone
<1>11. CASE Recovery
  <2>1. ~EraseRow
    BY <1>0, <1>11 DEF Recovery, RecoverDeployments, RecoverDatabase, JobReturns, EraseRow, End,
        WorkerTyped, PlaceOK
  <2> QED BY <1>2, <1>11, <2>1 DEF Recovery, RecoverDeployments, RecoverDatabase, JobReturns,
             TornDown, remote
<1>12. CASE SwarmSteps
  <2>1. ~EraseRow
    BY <1>0, <1>12 DEF SwarmSteps, TaskStarts, TaskStops, UpdateCompletes, UpdateRollsBack, EraseRow,
        End, WorkerTyped, PlaceOK
  <2>2. swarm.exists' = swarm.exists
    BY <1>12 DEF SwarmSteps, TaskStarts, TaskStops, UpdateCompletes, UpdateRollsBack, Typed,
        RemoteTyped, Service
  <2> QED BY <1>2, <1>12, <2>1, <2>2 DEF SwarmSteps, TaskStarts, TaskStops, UpdateCompletes,
             UpdateRollsBack, TornDown
<1>13. CASE UNCHANGED vars
    BY <1>13 DEF vars, rows, remote, TornDown, Gone
<1> QED BY <1>1, <1>3, <1>4, <1>5, <1>6, <1>7, <1>8, <1>9, <1>10, <1>11, <1>12, <1>13
        DEF Next, WorkerStep

-----------------------------------------------------------------------------
(* AboutToRun *)

LEMMA AboutToRunStep == Typed /\ AboutToRun /\ [Next]_vars => AboutToRun'
<1> SUFFICES ASSUME Typed, AboutToRun, [Next]_vars PROVE AboutToRun'
    OBVIOUS
<1>0. WorkerTyped /\ RemoteTyped
    BY DEF Typed
<1>1. CASE Dashboard
    BY <1>1 DEF Dashboard, RequestProvision, RequestEnqueue, RequestChange, RequestLifecycle,
        RequestDelete, DeleteEnqueue, Enqueue, AboutToRun, remote, jobs
<1>2. ASSUME pc' \notin {"verdict", "accepted", "applied"}
      PROVE  AboutToRun'
    BY <1>2 DEF AboutToRun
<1>3. CASE TakeJob
  <2>1. pc' \in JobKinds
    BY <1>0, <1>3, TakeTyped, JobsAreJobs DEF TakeJob, Take, AnyJobs
  <2> QED BY <1>2, <2>1 DEF JobKinds, Provisions, Actions
<1>4. CASE Provision
  <2>1. CASE Ship
    BY <2>1 DEF Ship, AboutToRun
  <2>2. CASE ReadVerdict
    BY <1>0, <2>2 DEF ReadVerdict, AboutToRun, remote
  <2> QED BY <1>2, <1>4, <2>1, <2>2 DEF Provision, StartProvision, ThrowUntried, EnsureSecret, ProvisionThrows,
             RecordDatabase, RecordDeployment, Throw, End
<1>5. CASE Remove
    BY <1>2, <1>5 DEF Remove, RemoveService, RemoveSecret, RemoveVolumes, RecordStuck, EraseRow, Throw, End
<1>6. CASE Change
    BY <1>2, <1>6 DEF Change, AlterUser, Rotate, Forget, RecordPassword, Throw, End
<1>7. CASE Scale
  <2>1. CASE pc' = "applied"
    <3>1. active.kind = pc /\ UNCHANGED active /\ swarm.exists
        BY <1>0, <1>7, <2>1 DEF Scale, Throw, End, WorkerTyped, PlaceOK, jobs
    <3>2. swarm' = [swarm EXCEPT
               !.replicas = [start |-> 1, stop |-> 0, restart |-> swarm.replicas][pc],
               !.before = swarm.replicas,
               !.previous = swarm.mount,
               !.update = IF pc = "restart" THEN "updating" ELSE "none"]
        BY <1>7, <2>1 DEF Scale, Throw, End
    <3>3. ASSUME pc = "start"
          PROVE  swarm'.exists /\ swarm'.replicas = 1 /\ swarm'.update = "none"
        BY <1>0, <3>1, <3>2, <3>3 DEF RemoteTyped, Service
    <3> QED BY <2>1, <3>1, <3>3 DEF AboutToRun
  <2>2. CASE pc' # "applied"
    BY <1>2, <1>7, <2>2 DEF Scale, Throw, End
  <2> QED BY <2>1, <2>2
<1>8. CASE RecordAction \/ Crash
    BY <1>2, <1>8 DEF RecordAction, Crash, End
<1>9. CASE Recovery
    BY <1>9 DEF Recovery, RecoverDeployments, RecoverDatabase, JobReturns, ComesBack, AboutToRun,
        remote, jobs
<1>10. CASE SwarmSteps
  <2>1. CASE TaskStarts \/ TaskStops
    BY <2>1 DEF TaskStarts, TaskStops, AboutToRun, jobs
  <2>2. CASE UpdateCompletes
    BY <1>0, <2>2 DEF UpdateCompletes, AboutToRun, RemoteTyped, Service, jobs
  <2>3. CASE UpdateRollsBack
    <3>1. /\ swarm'.exists = swarm.exists /\ swarm'.replicas = swarm.before
          /\ swarm'.update = "rolled_back" /\ swarm.update = "updating"
        BY <1>0, <2>3 DEF UpdateRollsBack, RemoteTyped, Service
    <3>2. UNCHANGED <<pc, active>>
        BY <2>3 DEF UpdateRollsBack, jobs
    <3>3. pc = "accepted" /\ swarm.before # swarm.replicas => "scaled_back" \in doubt'
        BY <2>3 DEF UpdateRollsBack
    <3>4. doubt \subseteq doubt'
        BY <2>3 DEF UpdateRollsBack
    <3> QED BY <3>1, <3>2, <3>3, <3>4 DEF AboutToRun
  <2> QED BY <1>10, <2>1, <2>2, <2>3 DEF SwarmSteps
<1>11. CASE UNCHANGED vars
    BY <1>11 DEF vars, remote, jobs, AboutToRun
<1> QED BY <1>1, <1>3, <1>4, <1>5, <1>6, <1>7, <1>8, <1>9, <1>10, <1>11 DEF Next, WorkerStep

-----------------------------------------------------------------------------
(* RunningIsMeant *)

\* The row says that the database runs, and nothing explains why it should not.
Claims ==
    database.status = "running" /\ ~database.error /\ doubt \cap Unserved = {}

LEMMA WhatPatchesWrite ==
    ASSUME NEW row \in Row
    PROVE  /\ MarkDeploying(row).status = "deploying" /\ ~MarkDeploying(row).error
           /\ MarkRunning(row).status = "running"     /\ ~MarkRunning(row).error
           /\ MarkStopped(row).status = "stopped"     /\ ~MarkStopped(row).error
           /\ MarkCrashed(row).status = "crashed"     /\ MarkCrashed(row).error
           /\ MarkDeleting(row).status = "deleting"   /\ ~MarkDeleting(row).error
           /\ [row EXCEPT !.error = TRUE].error
           /\ \A password : /\ [row EXCEPT !.password = password].status = row.status
                            /\ [row EXCEPT !.password = password].error = row.error
    BY DEF Row, MarkDeploying, MarkRunning, MarkStopped, MarkCrashed, MarkDeleting

\* The phases in which a job holds the service down belong to jobs that do.
LEMMA HalfDoneHere ==
    ASSUME WorkerTyped,
           \/ pc \in {"emptying", "unsecret", "erasing", "stuck",
                      "provision", "secret", "shipping", "refused", "verdict"}
           \/ pc = "applied" /\ active.kind = "stop"
           \/ pc \in Interrupting
    PROVE  active.kind \in Interrupting
    BY DEF WorkerTyped, PlaceOK, Interrupting, Provisions, Actions, ProvisionPhase, RemovePhase, DeletePhase

\* What waits, and what will come back, is still there.
LEMMA StillHalfDone ==
    ASSUME HalfDone, UNCHANGED <<jobs, pc>>, swarm.update = "rolled_back" => swarm'.update = "rolled_back"
    PROVE  HalfDone'
    BY DEF HalfDone, jobs, Waiting

\* A job that has another to do over behind it.
Unfinished ==
    \/ \E job \in stalled : job.kind \in Interrupting
    \/ \E job \in Waiting : job.kind \in Interrupting /\ job.again

LEMMA RunningIsMeantStep ==
    Typed /\ AboutToRun /\ RunningIsMeant /\ [Next]_vars => RunningIsMeant'
<1> SUFFICES ASSUME Typed, AboutToRun, RunningIsMeant, [Next]_vars, Claims'
             PROVE  Served' \/ HalfDone'
    BY DEF RunningIsMeant, Claims
<1>0. WorkerTyped /\ RemoteTyped /\ database \in Row
    BY DEF Typed, RowsTyped
<1>a. Claims => Served \/ HalfDone
    BY DEF RunningIsMeant, Claims
<1>1. CASE Dashboard
  <2>1. ASSUME NEW d \in Ids, NEW kind \in Provisions, RequestProvision(d, kind)
        PROVE  FALSE
    BY <1>0, <2>1, WhatPatchesWrite DEF RequestProvision, Fresh, UpdateRow, Claims
  <2>2. CASE RequestDelete
    BY <1>0, <2>2, WhatPatchesWrite DEF RequestDelete, UpdateRow, Claims
  <2>3. ASSUME UNCHANGED <<rows, remote, doubt, pc>>, NEW kind, NEW arg, Enqueue(kind, arg)
        PROVE  Served' \/ HalfDone'
    <3>1. Served \/ HalfDone
        BY <1>a, <2>3 DEF Claims, rows
    <3>2. Waiting \subseteq Waiting' /\ UNCHANGED <<active, stalled>>
        BY <1>0, <2>3, EnqueueWaiting DEF WorkerTyped, JobsIn, Enqueue
    <3> QED BY <2>3, <3>1, <3>2 DEF Served, HalfDone, remote
  <2> QED BY <1>1, <2>1, <2>2, <2>3 DEF Dashboard, RequestEnqueue, RequestChange, RequestLifecycle,
             DeleteEnqueue, rows
<1>2. CASE TakeJob
  <2>1. Waiting = Waiting' \cup {active'} /\ pc' = active'.kind /\ UNCHANGED stalled
    BY <1>0, <1>2, TakeWaiting DEF TakeJob, Take, WorkerTyped, JobsIn
  <2>2. Served \/ HalfDone
    BY <1>2, <1>a DEF TakeJob, Claims, rows
  <2>3. pc = "idle"
    BY <1>0, <1>2 DEF TakeJob, Take, WorkerTyped, PlaceOK
  <2> QED BY <1>2, <2>1, <2>2, <2>3 DEF TakeJob, Served, HalfDone, remote, Interrupting, Provisions
<1>3. CASE Provision
  <2>1. CASE StartProvision
    <3>1. ~ThrowUntried
        BY DEF ThrowUntried, Claims, Unserved
    <3> QED BY <2>1, <3>1 DEF StartProvision, Throw, End, Claims, Gone, rows, HalfDone
  <2>2. CASE EnsureSecret \/ ProvisionThrows
    BY <2>2 DEF EnsureSecret, ProvisionThrows, HalfDone
  <2>3. CASE Ship
    BY <2>3 DEF Ship, Served
  <2>4. CASE ReadVerdict
    BY <2>4 DEF ReadVerdict, AboutToRun, Served, HalfDone, remote
  <2>5. CASE RecordDatabase
    <3>1. CASE pc = "accepted"
        BY <2>5, <3>1 DEF RecordDatabase, AboutToRun, Served, Claims, Unserved, remote
    <3>2. CASE pc = "refused"
        BY <1>0, <2>5, <3>2, WhatPatchesWrite DEF RecordDatabase, UpdateRow, Claims, Gone
    <3> QED BY <2>5, <3>1, <3>2 DEF RecordDatabase
  <2>6. CASE RecordDeployment
    <3>1. Served \/ HalfDone
        BY <1>a, <2>6 DEF RecordDeployment, Claims
    <3>2. Served \/ Unfinished
        BY <2>6, <3>1 DEF RecordDeployment, HalfDone, Unfinished, Interrupting, Provisions
    <3> QED BY <2>6, <3>2 DEF RecordDeployment, End, Finish, Served, HalfDone, Unfinished, remote, Waiting
  <2> QED BY <1>3, <2>1, <2>2, <2>3, <2>4, <2>5, <2>6 DEF Provision
<1>4. CASE Remove
  <2>1. CASE RemoveService \/ RemoveSecret \/ RemoveVolumes
    BY <2>1 DEF RemoveService, RemoveSecret, RemoveVolumes, Throw, Claims, Gone, rows, HalfDone
  <2>2. CASE RecordStuck
    BY <1>0, <2>2, WhatPatchesWrite DEF RecordStuck, UpdateRow, Claims, Gone
  <2>3. CASE EraseRow
    BY <2>3 DEF EraseRow, Claims
  <2> QED BY <1>4, <2>1, <2>2, <2>3 DEF Remove
<1>5. CASE Change
  <2>1. doubt \cap Unserved \subseteq doubt' /\ pc \in ChangePhase
    BY <1>5 DEF Change, AlterUser, Rotate, Forget, RecordPassword, Throw, ChangePhase, Unserved
  <2>2. database'.status = database.status /\ database'.error = database.error
    <3>1. CASE RecordPassword
        BY <1>0, <3>1, WhatPatchesWrite DEF RecordPassword, UpdateRow
    <3> QED BY <1>5, <3>1 DEF Change, AlterUser, Rotate, Forget, Throw, rows
  <2>3. Served \/ Unfinished
    BY <1>a, <2>1, <2>2 DEF Claims, HalfDone, Unfinished, ChangePhase, Interrupting, Provisions
  <2>4. UNCHANGED <<queue, stalled>>
    BY <1>5 DEF Change, AlterUser, Rotate, Forget, RecordPassword, Throw, End, Finish, jobs
  <2>5. swarm'.exists = swarm.exists /\ swarm'.replicas = swarm.replicas
    BY <1>0, <1>5 DEF Change, AlterUser, Rotate, Forget, RecordPassword, Throw, RemoteTyped, Service, remote
  <2> QED BY <2>3, <2>4, <2>5 DEF Served, HalfDone, Unfinished, Waiting
<1>6. CASE Scale
  <2>0. pc \in Actions /\ active.kind = pc
    BY <1>0, <1>6 DEF Scale, WorkerTyped, PlaceOK
  <2>1. CASE Throw
    <3>1. ~(pc \in Interrupting /\ active.again)
        BY <2>1 DEF Throw, Claims, Unserved
    <3>2. Served \/ Unfinished
        BY <1>a, <2>0, <2>1, <3>1 DEF Throw, Claims, rows, HalfDone, Unfinished, Actions
    <3> QED BY <2>1, <3>2 DEF Throw, End, Finish, Served, HalfDone, Unfinished, remote, Waiting
  <2>2. CASE ~Throw
    <3>0. doubt' = doubt /\ (pc = "stop" => pc' = "applied" /\ UNCHANGED jobs)
        BY <1>6, <2>2 DEF Scale, Claims, Unserved
    <3>1. UNCHANGED <<queue, stalled, rows, doubt>> /\ swarm'.exists
          /\ swarm'.replicas = [start |-> 1, stop |-> 0, restart |-> swarm.replicas][pc]
        BY <1>0, <1>6, <2>2, <3>0 DEF Scale, End, Finish, jobs, RemoteTyped, Service
    <3>2. CASE pc = "start"
        BY <3>1, <3>2 DEF Served
    <3>3. CASE pc = "stop"
        BY <2>0, <3>0, <3>3 DEF HalfDone, jobs
    <3>4. CASE pc = "restart"
        <4>1. Served \/ Unfinished
            BY <1>a, <3>1, <3>4 DEF Claims, rows, HalfDone, Unfinished, Interrupting, Provisions
        <4>2. swarm'.replicas = swarm.replicas
            BY <3>1, <3>4
        <4> QED BY <3>1, <4>1, <4>2 DEF Served, HalfDone, Unfinished, Waiting
    <3> QED BY <2>0, <3>2, <3>3, <3>4 DEF Actions
  <2> QED BY <2>1, <2>2
<1>7. CASE RecordAction
  <2>0. pc = "applied" /\ active.kind \in Actions /\ UNCHANGED <<queue, stalled, swarm, doubt>>
    BY <1>0, <1>7 DEF RecordAction, WorkerTyped, PlaceOK, End, Finish, remote
  <2>1. CASE active.kind = "start"
    BY <2>0, <2>1 DEF AboutToRun, Served
  <2>2. CASE active.kind = "stop"
    BY <1>0, <1>7, <2>2, WhatPatchesWrite DEF RecordAction, UpdateRow, Claims, Gone
  <2>3. CASE active.kind = "restart"
    <3>1. database' = database
        BY <1>7, <2>3 DEF RecordAction, UpdateRow
    <3>2. Served \/ Unfinished
        BY <1>a, <2>0, <2>3, <3>1 DEF Claims, HalfDone, Unfinished, Interrupting, Provisions
    <3> QED BY <2>0, <3>2 DEF Served, HalfDone, Unfinished, Waiting
  <2> QED BY <2>0, <2>1, <2>2, <2>3 DEF Actions
<1>8. CASE Crash
  <2>1. Served \/ HalfDone
    BY <1>8, <1>a DEF Crash, Claims, rows
  <2>2. stalled \subseteq stalled' /\ UNCHANGED <<queue, swarm>>
    BY <1>8 DEF Crash, Die, remote
  <2>3. CASE Served \/ Unfinished
    BY <2>2, <2>3 DEF Served, HalfDone, Unfinished, Waiting
  <2>4. CASE ~Served /\ ~Unfinished
    <3>1. active.kind \in Interrupting
        BY <1>0, <2>1, <2>4, HalfDoneHere DEF HalfDone, Unfinished
    <3>2. active # NoJob /\ ~active.again
        BY <1>8, <3>1 DEF Crash, Claims, Unserved, NoJob, Interrupting, Provisions
    <3>3. active \in stalled'
        BY <1>8, <3>2 DEF Crash, Die
    <3> QED BY <3>1, <3>3 DEF HalfDone
  <2> QED BY <2>3, <2>4
<1>9. CASE Recovery
  <2>1. CASE RecoverDeployments
    BY <1>a, <2>1 DEF RecoverDeployments, Claims, Served, HalfDone, remote, jobs, Waiting
  <2>2. CASE RecoverDatabase
    <3>1. database' = database
        BY <1>0, <2>2, WhatPatchesWrite DEF RecoverDatabase, UpdateRow, Claims
    <3> QED BY <1>a, <2>2, <3>1 DEF RecoverDatabase, Claims, Served, HalfDone, remote, jobs, Waiting
  <2>3. CASE JobReturns
    <3>1. PICK job \in stalled :
              stalled' = stalled \ {job} /\ Waiting' = Waiting \cup {[job EXCEPT !.again = TRUE]}
        BY <1>0, <2>3, ComesBackWaiting, JobsAreJobs DEF JobReturns, WorkerTyped
    <3>2. [job EXCEPT !.again = TRUE].kind = job.kind /\ [job EXCEPT !.again = TRUE].again
        BY <1>0, JobsAreJobs DEF WorkerTyped, JobsIn, AnyJobs
    <3>3. UNCHANGED <<pc, active, swarm>> /\ (Served \/ HalfDone)
        BY <1>a, <2>3 DEF JobReturns, ComesBack, Claims, rows, remote
    <3> QED BY <3>1, <3>2, <3>3 DEF Served, HalfDone
  <2> QED BY <1>9, <2>1, <2>2, <2>3 DEF Recovery
<1>10. CASE SwarmSteps
  <2>1. Served \/ HalfDone
    BY <1>10, <1>a DEF SwarmSteps, TaskStarts, TaskStops, UpdateCompletes, UpdateRollsBack, Claims, rows
  <2>2. UNCHANGED <<jobs, pc>>
    BY <1>10 DEF SwarmSteps, TaskStarts, TaskStops, UpdateCompletes, UpdateRollsBack
  <2>3. CASE TaskStarts \/ TaskStops
    BY <2>1, <2>2, <2>3, StillHalfDone DEF TaskStarts, TaskStops, Served
  <2>4. CASE UpdateCompletes
    BY <1>0, <2>1, <2>2, <2>4, StillHalfDone DEF UpdateCompletes, Served, RemoteTyped, Service
  <2>5. CASE UpdateRollsBack
    <3>1. /\ swarm'.exists = swarm.exists /\ swarm'.replicas = swarm.before
          /\ swarm'.update = "rolled_back"
        BY <1>0, <2>5 DEF UpdateRollsBack, RemoteTyped, Service
    <3>2. CASE HalfDone
        BY <2>2, <3>1, <3>2, StillHalfDone
    <3>3. CASE pc = "verdict"
        BY <2>2, <3>1, <3>3 DEF HalfDone
    <3>4. CASE Served /\ pc # "verdict"
        BY <2>5, <3>1, <3>4 DEF UpdateRollsBack, Claims, Unserved, Served
    <3> QED BY <2>1, <3>2, <3>3, <3>4
  <2> QED BY <1>10, <2>3, <2>4, <2>5 DEF SwarmSteps
<1>11. CASE UNCHANGED vars
    BY <1>11, <1>a DEF vars, rows, remote, jobs, Claims, Served, HalfDone, Waiting
<1> QED BY <1>1, <1>2, <1>3, <1>4, <1>5, <1>6, <1>7, <1>8, <1>9, <1>10, <1>11 DEF Next, WorkerStep

-----------------------------------------------------------------------------
(* NoneCameBack *)

\* The step touches the queue in one of these ways.
LEMMA QueueSteps ==
    ASSUME Typed, [Next]_vars
    PROVE  \/ UNCHANGED <<queue, stalled>> /\ active' \in {active, NoJob}
           \/ /\ UNCHANGED <<active, stalled>>
              /\ \E kind \in JobKinds : \E arg : Enqueue(kind, arg)
           \/ TakeJob
           \/ Crash
           \/ JobReturns
<1>0. RowsTyped
    BY DEF Typed
<1>1. CASE Dashboard
  <2>1. \A d \in Ids : request[d] # "none" => request[d] \in JobKinds
    BY <1>0 DEF RowsTyped, JobKinds
  <2>2. Actions \subseteq JobKinds /\ {"delete", "change"} \subseteq JobKinds
    BY DEF JobKinds
  <2>3. ASSUME NEW d \in Ids, RequestEnqueue(d)
        PROVE  UNCHANGED <<active, stalled>> /\ \E kind \in JobKinds : \E arg : Enqueue(kind, arg)
    BY <2>1, <2>3 DEF RequestEnqueue, Enqueue
  <2>4. CASE RequestChange
    BY <2>2, <2>4 DEF RequestChange, Enqueue
  <2>5. ASSUME NEW action \in Actions, RequestLifecycle(action)
        PROVE  UNCHANGED <<active, stalled>> /\ \E kind \in JobKinds : \E arg : Enqueue(kind, arg)
    BY <2>2, <2>5 DEF RequestLifecycle, Enqueue
  <2>6. CASE DeleteEnqueue
    BY <2>2, <2>6 DEF DeleteEnqueue, Enqueue
  <2> QED BY <1>1, <2>3, <2>4, <2>5, <2>6 DEF Dashboard, RequestProvision, RequestDelete, jobs
<1>2. CASE Provision
    BY <1>2 DEF Provision, StartProvision, ThrowUntried, EnsureSecret, Ship, ReadVerdict, ProvisionThrows,
        RecordDatabase, RecordDeployment, Throw, End, Finish, jobs
<1>3. CASE Remove
    BY <1>3 DEF Remove, RemoveService, RemoveSecret, RemoveVolumes, RecordStuck, EraseRow, Throw,
        End, Finish, jobs
<1>4. CASE Change
    BY <1>4 DEF Change, AlterUser, Rotate, Forget, RecordPassword, Throw, End, Finish, jobs
<1>5. CASE Scale \/ RecordAction
    BY <1>5 DEF Scale, RecordAction, Throw, End, Finish, jobs
<1>6. CASE RecoverDeployments \/ RecoverDatabase \/ SwarmSteps \/ UNCHANGED vars
    BY <1>6 DEF RecoverDeployments, RecoverDatabase, SwarmSteps, TaskStarts, TaskStops,
        UpdateCompletes, UpdateRollsBack, vars, jobs
<1> QED BY <1>1, <1>2, <1>3, <1>4, <1>5, <1>6 DEF Next, WorkerStep, Recovery

LEMMA CrashesCount == Typed /\ [Next]_vars => crashes' = crashes \/ Crash
<1> SUFFICES ASSUME Typed, [Next]_vars PROVE crashes' = crashes \/ Crash
    OBVIOUS
<1>1. CASE Dashboard \/ TakeJob \/ Recovery \/ SwarmSteps \/ UNCHANGED vars
    BY <1>1 DEF Dashboard, RequestProvision, RequestEnqueue, RequestChange, RequestLifecycle,
        RequestDelete, DeleteEnqueue, TakeJob, Recovery, RecoverDeployments, RecoverDatabase,
        JobReturns, SwarmSteps, TaskStarts, TaskStops, UpdateCompletes, UpdateRollsBack, vars, worker
<1>2. CASE WorkerStep
    BY <1>2 DEF WorkerStep, Provision, StartProvision, ThrowUntried, EnsureSecret, Ship, ReadVerdict,
        ProvisionThrows, RecordDatabase, RecordDeployment, Remove, RemoveService, RemoveSecret,
        RemoveVolumes, RecordStuck, EraseRow, Change, AlterUser, Rotate, Forget, RecordPassword,
        Scale, RecordAction, Throw, worker
<1> QED BY <1>1, <1>2 DEF Next

LEMMA NoneCameBackStep == Typed /\ NoneCameBack /\ [Next]_vars => NoneCameBack'
<1> SUFFICES ASSUME Typed, NoneCameBack, [Next]_vars, crashes' = 0
             PROVE  JobsIn(FirstJobs)' /\ stalled' = {}
    BY DEF NoneCameBack
<1>1. ~Crash
    BY DEF Crash, Die, Typed, WorkerTyped
<1>2. JobsIn(FirstJobs) /\ stalled = {}
    BY <1>1, CrashesCount DEF NoneCameBack
<1>3. Typed'
    BY TypedStep
<1>4. CASE UNCHANGED <<queue, stalled>> /\ active' \in {active, NoJob}
    BY <1>2, <1>4 DEF JobsIn, FirstJobs
<1>5. ASSUME UNCHANGED <<active, stalled>>, NEW kind, NEW arg, Enqueue(kind, arg)
      PROVE  JobsIn(FirstJobs)' /\ stalled' = {}
  <2>0. queue \in Seq(Jobs)
    BY DEF Typed, WorkerTyped, JobsIn
  <2> DEFINE new == [kind |-> kind, arg |-> arg, again |-> FALSE]
  <2>1. new \in Waiting'
    BY <1>5, <2>0, EnqueueWaiting
  <2>2. queue' \in Seq(Jobs)
    BY <1>3 DEF Typed, WorkerTyped, JobsIn
  <2> HIDE DEF new
  <2>3. new \in Jobs
    BY <2>1, <2>2 DEF Waiting
  <2>4. new \in FirstJobs
    BY <2>3 DEF new, FirstJobs
  <2> QED BY <1>2, <1>5, <2>4, EnqueueKeeps DEF new
<1>6. CASE TakeJob
    BY <1>2, <1>6, TakeKeeps DEF TakeJob, Take
<1>7. CASE JobReturns
    BY <1>2, <1>7 DEF JobReturns, ComesBack
<1> QED BY <1>1, <1>4, <1>5, <1>6, <1>7, QueueSteps

-----------------------------------------------------------------------------
(* Remembered *)

\* Who is to come still comes: the worker that holds the job goes on with it, or
\* dies with it for the first time.
LEMMA ToComeStays ==
    ASSUME Typed, NoneCameBack, [Next]_vars, crashes' < 2,
           NEW kinds \in SUBSET JobKinds, ToCome(kinds),
           active.kind \in kinds /\ pc \notin {"succeeded", "failed"}
               => Crash \/ (active' = active /\ pc' \notin {"succeeded", "failed"})
    PROVE  ToCome(kinds)'
<1>0. WorkerTyped
    BY DEF Typed
<1>1. CASE active.kind \in kinds /\ pc \notin {"succeeded", "failed"}
  <2>1. CASE active' = active /\ pc' \notin {"succeeded", "failed"}
    BY <1>1, <2>1 DEF ToCome
  <2>2. CASE Crash
    <3>1. crashes = 0 /\ active # NoJob
        BY <1>0, <1>1, <2>2, QueueAssumption DEF Crash, Die, WorkerTyped, NoJob, JobKinds, Provisions, Actions
    <3>2. ~active.again
        BY <3>1 DEF NoneCameBack, JobsIn, FirstJobs
    <3>3. active \in stalled'
        BY <2>2, <3>1, <3>2 DEF Crash, Die
    <3> QED BY <1>1, <3>3 DEF ToCome
  <2> QED BY <1>1, <2>1, <2>2
<1>2. ASSUME NEW job \in stalled \cup Waiting, job.kind \in kinds
      PROVE  ToCome(kinds)'
  <2>1. CASE UNCHANGED <<queue, stalled>>
    BY <1>2, <2>1 DEF ToCome, Waiting
  <2>2. ASSUME UNCHANGED <<active, stalled>>, NEW kind, NEW arg, Enqueue(kind, arg)
        PROVE  ToCome(kinds)'
    <3>1. Waiting \subseteq Waiting'
        BY <1>0, <2>2, EnqueueWaiting DEF WorkerTyped, JobsIn
    <3> QED BY <1>2, <2>2, <3>1 DEF ToCome
  <2>3. CASE TakeJob
    <3>1. Waiting = Waiting' \cup {active'} /\ pc' = active'.kind /\ UNCHANGED stalled
        BY <1>0, <2>3, TakeWaiting DEF TakeJob, Take, WorkerTyped, JobsIn
    <3> QED BY <1>2, <3>1 DEF ToCome, JobKinds, Provisions, Actions
  <2>4. CASE Crash
    BY <1>2, <2>4 DEF Crash, Die, ToCome, Waiting
  <2>5. CASE JobReturns
    <3>1. PICK back \in stalled :
              stalled' = stalled \ {back} /\ Waiting' = Waiting \cup {[back EXCEPT !.again = TRUE]}
        BY <1>0, <2>5, ComesBackWaiting, JobsAreJobs DEF JobReturns, WorkerTyped
    <3>2. [back EXCEPT !.again = TRUE].kind = back.kind
        BY <1>0, JobsAreJobs DEF WorkerTyped, JobsIn, AnyJobs
    <3> QED BY <1>2, <3>1, <3>2 DEF ToCome
  <2> QED BY <2>1, <2>2, <2>3, <2>4, <2>5, QueueSteps
<1> QED BY <1>1, <1>2 DEF ToCome

\* The steps by which a job has its last word.
Closing == RecordDatabase \/ RecordStuck \/ EraseRow

LEMMA JobGoesOn ==
    ASSUME Typed, [Next]_vars, ~Gone, ~Closing, "untried" \notin doubt' \/ active.kind = "delete",
           active.kind \in Provisions \cup {"delete"}, pc \notin {"succeeded", "failed"}
    PROVE  Crash \/ (active' = active /\ pc' \notin {"succeeded", "failed"})
<1>0. WorkerTyped
    BY DEF Typed
<1>1. active # NoJob /\ active.kind \notin Actions \cup {"change"}
    BY DEF NoJob, Provisions, Actions
<1>2. CASE Dashboard
    BY <1>2 DEF Dashboard, RequestProvision, RequestEnqueue, RequestChange, RequestLifecycle,
        RequestDelete, DeleteEnqueue, Enqueue, jobs
<1>3. CASE TakeJob
    BY <1>1, <1>3 DEF TakeJob, Take
<1>4. CASE Provision
  <2>1. pc \in ProvisionPhase
    BY <1>4 DEF Provision, StartProvision, EnsureSecret, Ship, ReadVerdict, ProvisionThrows,
        RecordDatabase, RecordDeployment, ProvisionPhase
  <2>2. ~ThrowUntried
    BY <1>0, <2>1 DEF ThrowUntried, WorkerTyped, PlaceOK, ProvisionPhase, Provisions
  <2> QED BY <1>4, <2>2 DEF Provision, StartProvision, EnsureSecret, Ship, ReadVerdict, ProvisionThrows,
        RecordDeployment, Closing, jobs
<1>5. CASE Remove
    BY <1>5 DEF Remove, RemoveService, RemoveSecret, RemoveVolumes, Closing, jobs
<1>6. CASE Change \/ Scale \/ RecordAction
    BY <1>0, <1>1, <1>6 DEF Change, AlterUser, Rotate, Forget, RecordPassword, Scale, RecordAction,
        WorkerTyped, PlaceOK, ChangePhase
<1>7. CASE Recovery \/ SwarmSteps \/ UNCHANGED vars
    BY <1>7 DEF Recovery, RecoverDeployments, RecoverDatabase, JobReturns, ComesBack, SwarmSteps,
        TaskStarts, TaskStops, UpdateCompletes, UpdateRollsBack, vars, jobs
<1> QED BY <1>2, <1>3, <1>4, <1>5, <1>6, <1>7 DEF Next, WorkerStep

\* A row that reads deploying or deleting, without an error, after a step has
\* read so before, unless the step is a request.
LEMMA RowUnwritten ==
    ASSUME Typed, [Next]_vars, database'.status \in {"deploying", "deleting"}, ~database'.error
    PROVE  \/ database.status = database'.status /\ ~database.error /\ ~Closing
           \/ /\ \E d \in Ids : \E kind \in Provisions : RequestProvision(d, kind)
              /\ database'.status = "deploying"
           \/ RequestDelete /\ database'.status = "deleting"
<1>0. database \in Row /\ WorkerTyped
    BY DEF Typed, RowsTyped
<1>1. CASE RecordDatabase
    BY <1>0, <1>1, WhatPatchesWrite DEF RecordDatabase, UpdateRow, Gone
<1>2. CASE RecordStuck
    BY <1>0, <1>2, WhatPatchesWrite DEF RecordStuck, UpdateRow, Gone
<1>3. CASE EraseRow
    BY <1>3 DEF EraseRow
<1>4. CASE database' = database
    BY <1>1, <1>2, <1>3, <1>4 DEF Closing
<1>5. ASSUME NEW d \in Ids, NEW kind \in Provisions, RequestProvision(d, kind)
      PROVE  database'.status = "deploying"
    BY <1>0, <1>5, WhatPatchesWrite DEF RequestProvision, Fresh, UpdateRow
<1>6. CASE RequestDelete
    BY <1>0, <1>6, WhatPatchesWrite DEF RequestDelete, UpdateRow
<1>7. CASE RecordPassword
    BY <1>0, <1>1, <1>2, <1>3, <1>7, WhatPatchesWrite DEF RecordPassword, UpdateRow, Closing
<1>8. CASE RecordAction
  <2>1. active.kind \in Actions
    BY <1>0, <1>8 DEF RecordAction, WorkerTyped, PlaceOK
  <2> QED BY <1>0, <1>4, <1>8, <2>1, WhatPatchesWrite DEF RecordAction, UpdateRow, Actions
<1>9. CASE RecoverDatabase
    BY <1>0, <1>4, <1>9, WhatPatchesWrite DEF RecoverDatabase, UpdateRow
<1>10. \/ database' = database \/ Closing \/ RequestDelete \/ RecordPassword \/ RecordAction
       \/ RecoverDatabase \/ \E d \in Ids : \E kind \in Provisions : RequestProvision(d, kind)
    BY DEF Next, Dashboard, RequestEnqueue, RequestChange, RequestLifecycle, DeleteEnqueue, TakeJob,
        WorkerStep, Provision, StartProvision, ThrowUntried, EnsureSecret, Ship, ReadVerdict, ProvisionThrows,
        RecordDeployment, Remove, RemoveService, RemoveSecret, RemoveVolumes, Change, AlterUser,
        Rotate, Forget, Scale, Throw, Crash, Recovery, RecoverDeployments, JobReturns, SwarmSteps,
        TaskStarts, TaskStops, UpdateCompletes, UpdateRollsBack, Closing, vars, rows
<1> QED BY <1>1, <1>2, <1>3, <1>4, <1>5, <1>6, <1>7, <1>8, <1>9, <1>10 DEF Closing

\* A provision that threw before its try stays on record until another one ships.
LEMMA UntriedStays ==
    ASSUME [Next]_vars, ~EraseRow, "untried" \in doubt
    PROVE  "untried" \in doubt' \/ Ship
<1>1. CASE Forget \/ Rotate \/ RecordPassword \/ AlterUser
    BY <1>1 DEF Forget, Rotate, RecordPassword, AlterUser, Throw
<1>2. CASE Scale \/ StartProvision \/ RemoveService \/ Crash \/ UpdateRollsBack
    BY <1>2 DEF Scale, StartProvision, RemoveService, Crash, UpdateRollsBack, Throw, ThrowUntried
<1>3. \/ doubt' = doubt \/ EraseRow \/ Ship
      \/ Forget \/ Rotate \/ RecordPassword \/ AlterUser
      \/ Scale \/ StartProvision \/ RemoveService \/ Crash \/ UpdateRollsBack
    BY DEF Next, Dashboard, RequestProvision, RequestEnqueue, RequestChange, RequestLifecycle,
        RequestDelete, DeleteEnqueue, TakeJob, WorkerStep, Provision, EnsureSecret, ReadVerdict,
        ProvisionThrows, RecordDatabase, RecordDeployment, Remove, RemoveSecret, RemoveVolumes,
        RecordStuck, Change, RecordAction, Recovery, RecoverDeployments, RecoverDatabase,
        JobReturns, SwarmSteps, TaskStarts, TaskStops, UpdateCompletes, vars
<1> QED BY <1>1, <1>2, <1>3

LEMMA RememberedStep == Typed /\ NoneCameBack /\ Remembered /\ [Next]_vars => Remembered'
<1> SUFFICES ASSUME Typed, NoneCameBack, Remembered, [Next]_vars, crashes' < 2, ~database'.error,
                    database'.status \in {"deploying", "deleting"}
             PROVE  /\ database'.status = "deploying" =>
                         Provided' \/ \E d \in Ids : request'[d] # "none"
                    /\ database'.status = "deleting" => ToCome({"delete"})' \/ deleting'
    BY DEF Remembered
<1>0. WorkerTyped /\ RowsTyped /\ crashes < 2
    BY CrashesCount, QueueAssumption DEF Typed, WorkerTyped, Crash, Die
<1>1. ASSUME NEW d \in Ids, NEW kind \in Provisions, RequestProvision(d, kind),
             database'.status = "deploying"
      PROVE  request'[d] # "none"
    BY <1>0, <1>1 DEF RequestProvision, RowsTyped, Provisions
<1>2. CASE RequestDelete /\ database'.status = "deleting"
    BY <1>2 DEF RequestDelete
<1>3. CASE database.status = database'.status /\ ~database.error /\ ~Closing
  <2>0. ~Gone
    BY <1>3 DEF Gone
  <2>1. (Provided => Provided') /\ (ToCome({"delete"}) => ToCome({"delete"})')
    <3>1. Provisions \subseteq JobKinds /\ {"delete"} \subseteq JobKinds
        BY DEF JobKinds
    <3>2. ASSUME ToCome({"delete"})
          PROVE  ToCome({"delete"})'
      <4>1. active.kind = "delete" /\ pc \notin {"succeeded", "failed"}
                => Crash \/ (active' = active /\ pc' \notin {"succeeded", "failed"})
        BY <1>3, <2>0, JobGoesOn
      <4> QED BY <3>1, <3>2, <4>1, ToComeStays
    <3>3. ASSUME NEW kinds \in {Provisions}, ToCome(kinds), "untried" \notin doubt'
          PROVE  ToCome(kinds)'
      <4>1. active.kind \in kinds /\ pc \notin {"succeeded", "failed"}
                => Crash \/ (active' = active /\ pc' \notin {"succeeded", "failed"})
        BY <1>3, <2>0, <3>3, JobGoesOn
      <4> QED BY <3>1, <3>3, <4>1, ToComeStays
    <3>4. CASE Ship
      <4>1. active.kind \in Provisions
        BY <1>0, <3>4 DEF Ship, WorkerTyped, PlaceOK, ProvisionPhase
      <4>2. active.kind # "delete"
        BY <4>1 DEF Provisions
      <4>3. active' = active /\ stalled' = stalled /\ Waiting' = Waiting /\ pc' = "verdict"
        BY <3>4 DEF Ship, jobs, Waiting
      <4>4. ToCome(Provisions)'
        BY <4>1, <4>3 DEF ToCome
      <4>5. ToCome({"delete"}) => ToCome({"delete"})'
        BY <4>2, <4>3 DEF ToCome
      <4> QED BY <4>4, <4>5 DEF Provided
    <3>5. "untried" \in doubt => "untried" \in doubt' \/ Ship
        BY <1>3, UntriedStays DEF Closing
    <3>6. ToCome(Provisions) /\ "untried" \notin doubt' => ToCome(Provisions)'
        BY <3>3 DEF ToCome
    <3> QED BY <3>2, <3>4, <3>5, <3>6 DEF Provided
  <2>2. ASSUME NEW d \in Ids, RequestEnqueue(d)
        PROVE  Provided' /\ deleting' = deleting
    <3>1. request[d] \in Provisions
        BY <1>0, <2>2 DEF RequestEnqueue, RowsTyped
    <3>2. [kind |-> request[d], arg |-> d, again |-> FALSE] \in Waiting'
        BY <1>0, <2>2, EnqueueWaiting DEF RequestEnqueue, WorkerTyped, JobsIn
    <3> QED BY <2>2, <3>1, <3>2 DEF RequestEnqueue, ToCome, Provided
  <2>3. CASE DeleteEnqueue
    <3>1. [kind |-> "delete", arg |-> 0, again |-> FALSE] \in Waiting'
        BY <1>0, <2>3, EnqueueWaiting DEF DeleteEnqueue, WorkerTyped, JobsIn
    <3> QED BY <1>0, <1>3, <2>1, <2>3, <3>1 DEF DeleteEnqueue, ToCome, Remembered
  <2>4. CASE UNCHANGED <<request, deleting>>
    BY <1>0, <1>3, <2>1, <2>4 DEF Remembered
  <2>5. ASSUME NEW d \in Ids, NEW kind \in Provisions, RequestProvision(d, kind)
        PROVE  request'[d] # "none" /\ deleting' = deleting
    BY <1>0, <2>5 DEF RequestProvision, RowsTyped, Provisions
  <2>6. CASE RequestDelete
    BY <1>0, <1>3, <2>1, <2>6 DEF RequestDelete, Remembered
  <2>7. \/ UNCHANGED <<request, deleting>> \/ RequestDelete \/ DeleteEnqueue
        \/ \E d \in Ids : RequestEnqueue(d) \/ \E kind \in Provisions : RequestProvision(d, kind)
    BY DEF Next, Dashboard, RequestChange, RequestLifecycle, TakeJob, WorkerStep, Provision,
        StartProvision, ThrowUntried, EnsureSecret, Ship, ReadVerdict, ProvisionThrows, RecordDatabase,
        RecordDeployment, Remove, RemoveService, RemoveSecret, RemoveVolumes, RecordStuck, EraseRow,
        Change, AlterUser, Rotate, Forget, RecordPassword, Scale, RecordAction, Throw, Crash,
        Recovery, RecoverDeployments, RecoverDatabase, JobReturns, SwarmSteps, TaskStarts,
        TaskStops, UpdateCompletes, UpdateRollsBack, vars, asked
  <2>8. ASSUME NEW d \in Ids, RequestEnqueue(d)
        PROVE  database'.status = "deleting" => ToCome({"delete"})' \/ deleting'
    BY <1>0, <1>3, <2>1, <2>2, <2>8 DEF Remembered
  <2>9. ASSUME NEW d \in Ids, NEW kind \in Provisions, RequestProvision(d, kind)
        PROVE  database'.status = "deleting" => ToCome({"delete"})' \/ deleting'
    BY <1>0, <1>3, <2>1, <2>5, <2>9 DEF Remembered
  <2> QED BY <2>2, <2>3, <2>4, <2>5, <2>6, <2>7, <2>8, <2>9
<1> QED BY <1>1, <1>2, <1>3, RowUnwritten

-----------------------------------------------------------------------------
(* The password *)

Changing == {"rotating", "forgetting", "recording"}

LEMMA PatchesKeepPassword ==
    ASSUME NEW row \in Row
    PROVE  /\ MarkDeploying(row).password = row.password
           /\ MarkRunning(row).password = row.password
           /\ MarkStopped(row).password = row.password
           /\ MarkCrashed(row).password = row.password
           /\ MarkDeleting(row).password = row.password
           /\ [row EXCEPT !.error = TRUE].password = row.password
           /\ \A password \in Passwords : [row EXCEPT !.password = password].password = password
    BY DEF Row, MarkDeploying, MarkRunning, MarkStopped, MarkCrashed, MarkDeleting

\* The causes that are no matter of passwords.
MoreDoubt == doubt \subseteq doubt' /\ doubt' \subseteq doubt \cup {"abandoned", "untried", "unanswered"}

\* What a step outside the worker's job leaves alone.
LEMMA Bystanders ==
    ASSUME Typed, Dashboard \/ TakeJob \/ Crash \/ Recovery \/ UNCHANGED vars
    PROVE  /\ UNCHANGED <<engine, remote>>
           /\ database'.password = database.password
           /\ pc' \notin Changing \cup {"shipping"} \/ (UNCHANGED <<pc, active>>)
           /\ MoreDoubt
<1>0. database \in Row /\ WorkerTyped
    BY DEF Typed, RowsTyped
<1>1. CASE Dashboard
  <2>1. ASSUME NEW d \in Ids, NEW kind \in Provisions, RequestProvision(d, kind)
        PROVE  database'.password = database.password
    BY <1>0, <2>1, PatchesKeepPassword DEF RequestProvision, UpdateRow
  <2>2. CASE RequestDelete
    BY <1>0, <2>2, PatchesKeepPassword DEF RequestDelete, UpdateRow, jobs, MoreDoubt
  <2> QED BY <1>1, <2>1, <2>2 DEF Dashboard, RequestProvision, RequestEnqueue, RequestChange,
             RequestLifecycle, DeleteEnqueue, Enqueue, rows, jobs, MoreDoubt
<1>2. CASE TakeJob
  <2>1. pc' \in JobKinds
    BY <1>0, <1>2, TakeTyped, JobsAreJobs DEF TakeJob, Take, AnyJobs
  <2> QED BY <1>2, <2>1 DEF TakeJob, rows, JobKinds, Provisions, Actions, Changing, MoreDoubt
<1>3. CASE Crash
    BY <1>3 DEF Crash, rows, Changing, MoreDoubt
<1>4. CASE Recovery
  <2>1. CASE RecoverDatabase
    BY <1>0, <2>1, PatchesKeepPassword DEF RecoverDatabase, UpdateRow, jobs, MoreDoubt
  <2> QED BY <1>4, <2>1 DEF Recovery, RecoverDeployments, JobReturns, ComesBack, rows, jobs, MoreDoubt
<1>5. CASE UNCHANGED vars
    BY <1>5 DEF vars, rows, jobs, MoreDoubt
<1> QED BY <1>1, <1>2, <1>3, <1>4, <1>5

\* What one within it leaves alone, the steps of a change and the shipping of a
\* secret aside.
LEMMA JobBystanders ==
    ASSUME Typed, WorkerStep, ~Change, ~EnsureSecret, ~Ship, ~RemoveService, ~RemoveSecret,
           ~RemoveVolumes, ~Scale, ~EraseRow
    PROVE  /\ UNCHANGED <<engine, remote>>
           /\ database'.password = database.password
           /\ pc' \notin Changing \cup {"shipping"}
           /\ MoreDoubt
<1>0. database \in Row /\ WorkerTyped
    BY DEF Typed, RowsTyped
<1>1. CASE RecordDatabase
    BY <1>0, <1>1, PatchesKeepPassword DEF RecordDatabase, UpdateRow, Changing, MoreDoubt
<1>2. CASE StartProvision \/ ReadVerdict \/ ProvisionThrows \/ RecordDeployment
    BY <1>2 DEF StartProvision, ThrowUntried, ReadVerdict, ProvisionThrows, RecordDeployment, Throw, End, rows, Changing, MoreDoubt
<1>3. CASE RecordStuck
    BY <1>0, <1>3, PatchesKeepPassword DEF RecordStuck, UpdateRow, End, Changing, MoreDoubt
<1>4. CASE RecordAction
  <2>1. active.kind \in Actions
    BY <1>0, <1>4 DEF RecordAction, WorkerTyped, PlaceOK
  <2> QED BY <1>0, <1>4, <2>1, PatchesKeepPassword DEF RecordAction, UpdateRow, End, Actions, Changing, MoreDoubt
<1> QED BY <1>1, <1>2, <1>3, <1>4 DEF WorkerStep, Provision, Remove

\* Scaling and restarting a service keeps what it mounts.
LEMMA ScaleKeepsMount ==
    ASSUME Typed, Scale
    PROVE  /\ UNCHANGED <<engine, rows, fixed, container, opens>>
           /\ pc' \notin Changing \cup {"shipping"}
           /\ MoreDoubt
           /\ swarm'.exists = swarm.exists /\ swarm'.mount = swarm.mount
           /\ swarm'.previous # swarm.previous => swarm.exists /\ swarm'.previous = swarm.mount
           /\ swarm'.update = "updating" => swarm.update = "updating" \/ swarm.exists
           /\ swarm'.update = "updating" => swarm'.previous \in {swarm.previous, swarm.mount}
           /\ swarm'.update = "updating" /\ swarm'.previous # swarm.mount => swarm.update = "updating"
<1>1. CASE Throw
    BY <1>1 DEF Scale, Throw, End, remote, Changing, MoreDoubt
<1>2. CASE ~Throw
  <2>1. swarm.exists /\ UNCHANGED <<engine, rows, fixed, container, opens>> /\ MoreDoubt
        /\ pc' \in {"applied", "idle"}
    BY <1>2 DEF Scale, End, MoreDoubt
  <2>2. swarm' = [swarm EXCEPT
               !.replicas = [start |-> 1, stop |-> 0, restart |-> swarm.replicas][pc],
               !.before = swarm.replicas,
               !.previous = swarm.mount,
               !.update = IF pc = "restart" THEN "updating" ELSE "none"]
    BY <1>2 DEF Scale
  <2>3. swarm'.exists = swarm.exists /\ swarm'.mount = swarm.mount /\ swarm'.previous = swarm.mount
    BY <2>2 DEF Typed, RemoteTyped, Service
  <2> QED BY <2>1, <2>3 DEF Changing
<1> QED BY <1>1, <1>2

\* What Swarm does to a spec, and to what runs.
LEMMA SwarmMoves ==
    ASSUME Typed, SwarmSteps
    PROVE  /\ UNCHANGED <<engine, rows, asked, jobs, worker, pc, fixed>>
           /\ swarm'.exists = swarm.exists /\ swarm'.previous = swarm.previous
           /\ \/ UNCHANGED <<swarm, doubt>> /\ (TaskStarts \/ TaskStops)
              \/ /\ swarm.update = "updating" /\ swarm'.update = "completed"
                 /\ swarm'.mount = swarm.mount
                 /\ UNCHANGED <<container, opens, doubt>>
              \/ /\ swarm.update = "updating" /\ swarm'.update = "rolled_back"
                 /\ swarm'.mount = swarm.previous
                 /\ swarm.previous.value # swarm.mount.value => "rolled_back" \in doubt'
                 /\ doubt \subseteq doubt' /\ doubt' \subseteq doubt \cup {"rolled_back", "scaled_back"}
                 /\ container'.up = container.up /\ ~container'.current /\ UNCHANGED opens
<1>1. CASE TaskStarts \/ TaskStops
    BY <1>1 DEF TaskStarts, TaskStops
<1>2. CASE UpdateCompletes
    BY <1>2 DEF UpdateCompletes, Typed, RemoteTyped, Service
<1>3. CASE UpdateRollsBack
    BY <1>3, OutdatedTyped DEF UpdateRollsBack, Typed, RemoteTyped, Service
<1> QED BY <1>1, <1>2, <1>3 DEF SwarmSteps

\* What a rotation does when it does not throw.
LEMMA RotateMoves ==
    ASSUME Typed, Rotate, ~Throw
    PROVE  /\ swarm.exists /\ swarm'.exists /\ swarm'.mount.value = active.arg
           /\ swarm'.previous = swarm.mount
           /\ container'.up = container.up /\ ~container'.current
           /\ pc = "rotating" /\ pc' = "forgetting" /\ doubt' = doubt \ {"rolled_back"}
           /\ UNCHANGED <<opens, active>>
<1> DEFINE new == [value |-> active.arg, fixed |-> FALSE]
<1>1. swarm' = [swarm EXCEPT !.mount = new, !.before = swarm.replicas,
                             !.previous = swarm.mount, !.update = "updating"]
      /\ swarm.exists
    BY DEF Rotate
<1>2. new.value = active.arg
    OBVIOUS
<1> HIDE DEF new
<1>3. swarm'.exists = swarm.exists /\ swarm'.mount = new /\ swarm'.previous = swarm.mount
    BY <1>1 DEF Typed, RemoteTyped, Service
<1>4. container'.up = container.up /\ ~container'.current
    BY OutdatedTyped DEF Rotate, Typed
<1> QED BY <1>1, <1>2, <1>3, <1>4 DEF Rotate, jobs

LEMMA EngineStays == Typed /\ [Next]_vars => engine' = engine
<1> SUFFICES ASSUME Typed, [Next]_vars PROVE engine' = engine
    OBVIOUS
<1>1. CASE WorkerStep
    BY <1>1 DEF WorkerStep, Provision, StartProvision, ThrowUntried, EnsureSecret, Ship, ReadVerdict,
        ProvisionThrows, RecordDatabase, RecordDeployment, Remove, RemoveService, RemoveSecret,
        RemoveVolumes, RecordStuck, EraseRow, Change, AlterUser, Rotate, Forget, RecordPassword,
        Scale, RecordAction, Throw
<1> QED BY <1>1, Bystanders, SwarmMoves DEF Next

LEMMA FixedFollowsStep == Typed /\ FixedFollows /\ [Next]_vars => FixedFollows'
<1> SUFFICES ASSUME Typed, FixedFollows, [Next]_vars PROVE FixedFollows'
    OBVIOUS
<1>0. database \in Row /\ WorkerTyped /\ (~Gone' => ~Gone)
  <2>1. EraseRow => Gone'
    BY DEF EraseRow, Gone
  <2> QED BY <2>1, GoneStep DEF Typed, RowsTyped
<1>1. CASE Dashboard \/ TakeJob \/ Crash \/ Recovery \/ UNCHANGED vars
    BY <1>0, <1>1, Bystanders DEF MoreDoubt, FixedFollows, remote, Changing
<1>2. CASE WorkerStep /\ ~Change /\ ~EnsureSecret /\ ~Ship /\ ~RemoveService /\ ~RemoveSecret
           /\ ~RemoveVolumes /\ ~Scale /\ ~EraseRow
    BY <1>0, <1>2, JobBystanders DEF MoreDoubt, FixedFollows, remote, Changing
<1>3. CASE EnsureSecret
  <2>1. database.password # NoSecret
    BY <1>0 DEF Row, Passwords, NoSecret
  <2> QED BY <1>0, <1>3, <2>1 DEF EnsureSecret, FixedFollows, rows
<1>4. CASE Ship
    BY <1>0, <1>4 DEF Ship, FixedFollows, rows
<1>5. CASE RemoveService \/ RemoveVolumes
    BY <1>0, <1>5 DEF RemoveService, RemoveVolumes, Throw, End, FixedFollows, rows, remote
<1>6. CASE RemoveSecret
    BY <1>0, <1>6 DEF RemoveSecret, FixedFollows, rows
<1>7. CASE EraseRow
    BY <1>7 DEF EraseRow, End, FixedFollows, Gone
<1>8. CASE Scale
    BY <1>0, <1>8, ScaleKeepsMount DEF MoreDoubt, FixedFollows, rows, Changing
<1>9. CASE Change
  <2>1. CASE AlterUser
    BY <1>0, <2>1 DEF AlterUser, Throw, End, FixedFollows, rows, remote
  <2>2. CASE Rotate
    BY <1>0, <2>2 DEF Rotate, Throw, End, FixedFollows, rows, remote
  <2>3. CASE Forget
    BY <1>0, <2>3 DEF Forget, FixedFollows, rows
  <2>4. CASE RecordPassword
    BY <2>4 DEF RecordPassword, End, FixedFollows, remote
  <2> QED BY <1>9, <2>1, <2>2, <2>3, <2>4 DEF Change
<1>10. CASE SwarmSteps
    BY <1>0, <1>10, SwarmMoves DEF SwarmSteps, TaskStarts, TaskStops, FixedFollows, rows
<1> QED BY <1>1, <1>2, <1>3, <1>4, <1>5, <1>6, <1>7, <1>8, <1>9, <1>10 DEF Next

LEMMA MountFollowsStep ==
    Typed /\ FixedFollows /\ MountFollows /\ [Next]_vars => MountFollows'
<1> SUFFICES ASSUME Typed, FixedFollows, MountFollows, [Next]_vars PROVE MountFollows'
    OBVIOUS
<1>0. database \in Row /\ WorkerTyped /\ RemoteTyped /\ (~Gone' => ~Gone)
  <2>1. EraseRow => Gone'
    BY DEF EraseRow, Gone
  <2> QED BY <2>1, GoneStep DEF Typed, RowsTyped
<1>1. CASE Dashboard \/ TakeJob \/ Crash \/ Recovery \/ UNCHANGED vars
    BY <1>0, <1>1, Bystanders DEF MoreDoubt, MountFollows, remote, Changing
<1>2. CASE WorkerStep /\ ~Change /\ ~EnsureSecret /\ ~Ship /\ ~RemoveService /\ ~RemoveSecret
           /\ ~RemoveVolumes /\ ~Scale /\ ~EraseRow
    BY <1>0, <1>2, JobBystanders DEF MoreDoubt, MountFollows, remote, Changing
<1>3. CASE EnsureSecret
    BY <1>0, <1>3 DEF EnsureSecret, MountFollows, rows
<1>4. CASE Ship
    BY <1>0, <1>4 DEF Ship, FixedFollows, MountFollows, rows
<1>5. CASE RemoveService
    BY <1>0, <1>5 DEF RemoveService, Throw, End, MountFollows, rows, remote, NoSwarm
<1>6. CASE RemoveSecret \/ RemoveVolumes
    BY <1>0, <1>6 DEF RemoveSecret, RemoveVolumes, MountFollows, rows
<1>7. CASE EraseRow
    BY <1>7 DEF EraseRow, End, MountFollows, Gone
<1>8. CASE Scale
    BY <1>0, <1>8, ScaleKeepsMount DEF MoreDoubt, MountFollows, rows, Changing
<1>9. CASE Change
  <2>1. CASE AlterUser
    BY <1>0, <2>1 DEF AlterUser, Throw, End, MountFollows, rows, remote
  <2>2. CASE Rotate
    <3>1. CASE Throw
        BY <1>0, <2>2, <3>1 DEF Rotate, Throw, End, MountFollows, rows, remote
    <3>2. CASE ~Throw
        BY <2>2, <3>2, RotateMoves DEF MountFollows, FixedFollows
    <3> QED BY <3>1, <3>2
  <2>3. CASE Forget
    <3>1. pc = "forgetting" /\ "altered" \in doubt /\ "altered" \in doubt'
        BY <2>3 DEF Forget, FixedFollows
    <3>2. UNCHANGED <<swarm, active>> /\ ("rolled_back" \in doubt => "rolled_back" \in doubt')
        BY <2>3 DEF Forget, jobs
    <3> QED BY <3>1, <3>2 DEF MountFollows
  <2>4. CASE RecordPassword
    <3>1. ~Gone => database'.password = active.arg
        BY <1>0, <2>4, JobInHand, PatchesKeepPassword DEF RecordPassword, UpdateRow, WorkerTyped,
            PlaceOK, ChangePhase
    <3> QED BY <1>0, <2>4, <3>1 DEF RecordPassword, End, MountFollows, remote
  <2> QED BY <1>9, <2>1, <2>2, <2>3, <2>4 DEF Change
<1>10. CASE SwarmSteps
    BY <1>0, <1>10, SwarmMoves DEF MountFollows, rows, jobs
<1> QED BY <1>1, <1>2, <1>3, <1>4, <1>5, <1>6, <1>7, <1>8, <1>9, <1>10 DEF Next

LEMMA MountThereStep ==
    Typed /\ TornDown /\ FixedFollows /\ MountThere /\ [Next]_vars => MountThere'
<1> SUFFICES ASSUME Typed, TornDown, FixedFollows, MountThere, [Next]_vars PROVE MountThere'
    OBVIOUS
<1>0. database \in Row /\ WorkerTyped /\ RemoteTyped
    BY DEF Typed, RowsTyped
<1>1. CASE Dashboard \/ TakeJob \/ Crash \/ Recovery \/ UNCHANGED vars
    BY <1>1, Bystanders DEF MountThere, remote, Changing
<1>2. CASE WorkerStep /\ ~Change /\ ~EnsureSecret /\ ~Ship /\ ~RemoveService /\ ~RemoveSecret
           /\ ~RemoveVolumes /\ ~Scale /\ ~EraseRow
    BY <1>2, JobBystanders DEF MountThere, remote, Changing
<1>3. CASE EnsureSecret
  <2>1. swarm.exists /\ opens = NoSecret => fixed # NoSecret
    BY DEF MountThere
  <2> QED BY <1>3, <2>1 DEF EnsureSecret, MountThere
<1>4. CASE Ship
  <2>1. /\ swarm'.exists /\ swarm'.mount.value = fixed /\ swarm'.previous = swarm.mount
        /\ swarm'.update = "updating" => swarm.exists
        /\ fixed # NoSecret /\ pc' = "verdict" /\ UNCHANGED <<opens, fixed>>
    BY <1>4 DEF Ship, FixedFollows
  <2>2. container'.up = container.up /\ ~container'.current
    BY <1>0, <1>4, OutdatedTyped DEF Ship
  <2> QED BY <2>1, <2>2 DEF MountThere
<1>5. CASE RemoveService
  <2>1. CASE UNCHANGED remote
    BY <1>5, <2>1 DEF RemoveService, Throw, End, MountThere, remote
  <2>2. CASE ~UNCHANGED remote
    <3>1. swarm' = NoSwarm /\ Outdated /\ pc' \notin Changing /\ UNCHANGED opens
        BY <1>5, <2>2 DEF RemoveService, Throw, Changing, remote
    <3> QED BY <1>0, <3>1, OutdatedTyped DEF MountThere, NoSwarm, Changing
  <2> QED BY <2>1, <2>2
<1>6. CASE RemoveSecret \/ RemoveVolumes
    BY <1>6 DEF RemoveSecret, RemoveVolumes, MountThere, TornDown
<1>7. CASE EraseRow
    BY <1>7 DEF EraseRow, End, MountThere, remote
<1>8. CASE Scale
    BY <1>8, ScaleKeepsMount DEF MountThere, Changing
<1>9. CASE Change
  <2>1. CASE AlterUser
    <3>1. active.arg # NoSecret
        BY <1>0, <2>1, JobInHand DEF AlterUser, WorkerTyped, PlaceOK, ChangePhase, Passwords, NoSecret
    <3> QED BY <2>1, <3>1 DEF AlterUser, Throw, End, MountThere, remote
  <2>2. CASE Rotate
    <3>1. CASE Throw
        BY <2>2, <3>1 DEF Rotate, Throw, End, MountThere, remote
    <3>2. CASE ~Throw
        <4>1. pc = "rotating" /\ pc' = "forgetting" /\ swarm.exists /\ UNCHANGED opens
              /\ swarm'.mount.value = active.arg /\ swarm'.previous = swarm.mount
              /\ container'.up = container.up /\ ~container'.current
            BY <2>2, <3>2, RotateMoves
        <4>2. active.arg # NoSecret
            BY <1>0, <4>1, JobInHand DEF WorkerTyped, PlaceOK, ChangePhase, Passwords, NoSecret
        <4> QED BY <4>1, <4>2 DEF MountThere
    <3> QED BY <3>1, <3>2
  <2>3. CASE Forget
    BY <2>3 DEF Forget, MountThere
  <2>4. CASE RecordPassword
    BY <2>4 DEF RecordPassword, End, MountThere, remote
  <2> QED BY <1>9, <2>1, <2>2, <2>3, <2>4 DEF Change
<1>10. CASE SwarmSteps
  <2>1. CASE TaskStarts \/ TaskStops
    BY <1>0, <2>1 DEF TaskStarts, TaskStops, MountThere, NoContainer
  <2>2. CASE ~TaskStarts /\ ~TaskStops
    BY <1>10, <2>2, SwarmMoves DEF MountThere
  <2> QED BY <2>1, <2>2
<1> QED BY <1>1, <1>2, <1>3, <1>4, <1>5, <1>6, <1>7, <1>8, <1>9, <1>10 DEF Next

LEMMA EngineFollowsStep ==
    Typed /\ FixedFollows /\ MountThere /\ EngineFollows /\ [Next]_vars => EngineFollows'
<1> SUFFICES ASSUME Typed, FixedFollows, MountThere, EngineFollows, [Next]_vars,
                    engine # "redis"
             PROVE  EngineFollows'
    BY EngineStays DEF EngineFollows
<1>0. database \in Row /\ WorkerTyped /\ RemoteTyped /\ (~Gone' => ~Gone)
  <2>1. EraseRow => Gone'
    BY DEF EraseRow, Gone
  <2> QED BY <2>1, GoneStep DEF Typed, RowsTyped
<1>1. CASE Dashboard \/ TakeJob \/ Crash \/ Recovery \/ UNCHANGED vars
    BY <1>0, <1>1, Bystanders DEF MoreDoubt, EngineFollows, remote, Changing
<1>2. CASE WorkerStep /\ ~Change /\ ~EnsureSecret /\ ~Ship /\ ~RemoveService /\ ~RemoveSecret
           /\ ~RemoveVolumes /\ ~Scale /\ ~EraseRow
    BY <1>0, <1>2, JobBystanders DEF MoreDoubt, EngineFollows, remote, Changing
<1>3. CASE EnsureSecret \/ Ship \/ RemoveSecret
    BY <1>0, <1>3 DEF EnsureSecret, Ship, RemoveSecret, EngineFollows, rows
<1>4. CASE RemoveService \/ RemoveVolumes
    BY <1>0, <1>4 DEF RemoveService, RemoveVolumes, Throw, End, EngineFollows, rows, remote
<1>5. CASE EraseRow
    BY <1>5 DEF EraseRow, End, EngineFollows, Gone
<1>6. CASE Scale
    BY <1>0, <1>6, ScaleKeepsMount DEF MoreDoubt, EngineFollows, rows, Changing
<1>7. CASE Change
  <2>1. CASE AlterUser
    BY <1>0, <2>1 DEF AlterUser, Throw, End, EngineFollows, rows, remote, jobs
  <2>2. CASE Rotate
    BY <1>0, <2>2 DEF Rotate, Throw, End, EngineFollows, FixedFollows, rows, remote, jobs
  <2>3. CASE Forget
    BY <1>0, <2>3 DEF Forget, EngineFollows, FixedFollows, rows, jobs
  <2>4. CASE RecordPassword
    <3>1. ~Gone => database'.password = active.arg
        BY <1>0, <2>4, JobInHand, PatchesKeepPassword DEF RecordPassword, UpdateRow, WorkerTyped,
            PlaceOK, ChangePhase
    <3> QED BY <1>0, <2>4, <3>1 DEF RecordPassword, End, EngineFollows, remote
  <2> QED BY <1>7, <2>1, <2>2, <2>3, <2>4 DEF Change
<1>8. CASE SwarmSteps
  <2>1. CASE TaskStarts
    <3>1. CASE opens # NoSecret
        BY <1>0, <2>1, <3>1 DEF TaskStarts, EngineFollows, rows, jobs
    <3>2. CASE opens = NoSecret
        <4>1. opens' = fixed /\ pc \notin Changing
            BY <2>1, <3>2 DEF TaskStarts, MountThere, Changing
        <4> QED BY <1>0, <2>1, <4>1 DEF TaskStarts, EngineFollows, FixedFollows, rows, Changing
    <3> QED BY <3>1, <3>2
  <2>2. CASE TaskStops
    BY <1>0, <2>2 DEF TaskStops, EngineFollows, rows, jobs
  <2>3. CASE ~TaskStarts /\ ~TaskStops
    BY <1>0, <1>8, <2>3, SwarmMoves DEF EngineFollows, rows, jobs
  <2> QED BY <2>1, <2>2, <2>3
<1> QED BY <1>1, <1>2, <1>3, <1>4, <1>5, <1>6, <1>7, <1>8 DEF Next

LEMMA MemoryFollowsStep ==
    Typed /\ FixedFollows /\ MemoryFollows /\ [Next]_vars => MemoryFollows'
<1> SUFFICES ASSUME Typed, FixedFollows, MemoryFollows, [Next]_vars,
                    ~Gone', engine' = "redis", container'.up, container'.current,
                    "altered" \notin doubt' \/ pc' \in {"forgetting", "recording"}
             PROVE  opens' = swarm'.mount.value
    BY DEF MemoryFollows
<1>0. database \in Row /\ WorkerTyped /\ RemoteTyped /\ ~Gone
  <2>1. ~EraseRow
    BY DEF EraseRow, Gone
  <2> QED BY <2>1, GoneStep DEF Typed, RowsTyped
<1>1. CASE Dashboard \/ TakeJob \/ Crash \/ Recovery \/ UNCHANGED vars
    BY <1>0, <1>1, Bystanders DEF MoreDoubt, MemoryFollows, remote, Changing
<1>2. CASE WorkerStep /\ ~Change /\ ~EnsureSecret /\ ~Ship /\ ~RemoveService /\ ~RemoveSecret
           /\ ~RemoveVolumes /\ ~Scale /\ ~EraseRow
    BY <1>0, <1>2, JobBystanders DEF MoreDoubt, MemoryFollows, remote, Changing
<1>3. CASE EnsureSecret \/ RemoveSecret
    BY <1>0, <1>3 DEF EnsureSecret, RemoveSecret, MemoryFollows
<1>4. CASE Ship
    BY <1>0, <1>4, OutdatedTyped DEF Ship
<1>5. CASE RemoveService
    BY <1>0, <1>5, OutdatedTyped DEF RemoveService, Throw, End, MemoryFollows, remote
<1>6. CASE RemoveVolumes
    BY <1>0, <1>6 DEF RemoveVolumes, MemoryFollows
<1>7. CASE EraseRow
    BY <1>7 DEF EraseRow, Gone
<1>8. CASE Scale
    BY <1>0, <1>8, ScaleKeepsMount DEF MoreDoubt, MemoryFollows, Changing
<1>9. CASE Change
  <2>1. CASE AlterUser
    BY <1>0, <2>1 DEF AlterUser, Throw, End, MemoryFollows, remote
  <2>2. CASE Rotate
    BY <1>0, <2>2, OutdatedTyped DEF Rotate, Throw, End, FixedFollows, MemoryFollows, remote
  <2>3. CASE Forget \/ RecordPassword
    BY <1>0, <2>3 DEF Forget, RecordPassword, End, MemoryFollows, remote
  <2> QED BY <1>9, <2>1, <2>2, <2>3 DEF Change
<1>10. CASE SwarmSteps
  <2>1. CASE TaskStarts \/ TaskStops
    BY <2>1 DEF TaskStarts, TaskStops, NoContainer
  <2>2. CASE ~TaskStarts /\ ~TaskStops
    BY <1>0, <1>10, <2>2, SwarmMoves DEF MemoryFollows
  <2> QED BY <2>1, <2>2
<1> QED BY <1>1, <1>2, <1>3, <1>4, <1>5, <1>6, <1>7, <1>8, <1>9, <1>10 DEF Next

-----------------------------------------------------------------------------
(* The theorems *)

LEMMA InitIInv == Init => IInv
<1> SUFFICES ASSUME Init PROVE IInv
    OBVIOUS
<1>1. Owned /\ TornDown /\ AboutToRun
    BY DEF Init, Owned, TornDown, AboutToRun, Gone, NoSwarm
<1>2. RunningIsMeant /\ Remembered
    BY DEF Init, RunningIsMeant, Remembered
<1>3. NoneCameBack
    BY DEF Init, QueueInit, NoneCameBack, JobsIn
<1>4. PasswordInv
    BY DEF Init, PasswordInv, FixedFollows, MountFollows, MountThere, EngineFollows, MemoryFollows,
        NoSwarm, NoContainer
<1> QED BY <1>1, <1>2, <1>3, <1>4, InitTyped DEF IInv

LEMMA IInvAlways == Spec => []IInv
<1>1. IInv /\ [Next]_vars => IInv'
    BY TypedStep, OwnedStep, TornDownStep, AboutToRunStep, RunningIsMeantStep, NoneCameBackStep,
       RememberedStep, FixedFollowsStep, MountFollowsStep, MountThereStep, EngineFollowsStep,
       MemoryFollowsStep DEF IInv, PasswordInv
<1> QED BY <1>1, InitIInv, PTL DEF Spec

\* A deployment reads deploying only while a worker works on it, or until the
\* next worker has started: whatever dies, throws or is asked for in between.
THEOREM OwnerAlways == Spec => []DeployingHasOwner
<1>1. IInv => DeployingHasOwner
  <2> SUFFICES ASSUME IInv, process # "down", NEW d \in Ids, deployments[d] = "deploying"
               PROVE  active.kind \in Provisions /\ active.arg = d
    BY DEF DeployingHasOwner, WorkerTyped, Typed, IInv
  <2> QED BY DEF IInv, Owned, Typed, WorkerTyped, PlaceOK
<1> QED BY <1>1, IInvAlways, PTL

\* When the row is gone its service and its volume are gone, and no job that
\* was waiting for it or comes back builds them up again.
THEOREM GoneForGood == Spec => []GoneLeavesNothing
<1>1. IInv => GoneLeavesNothing
    BY DEF IInv, TornDown, GoneLeavesNothing
<1> QED BY <1>1, IInvAlways, PTL

\* A row that reads running, without an error, is served by one replica once
\* the worker has nothing left to do, however the jobs before ended and however
\* often the worker died: unless one of the four causes of RunningIsServed is on
\* record.
THEOREM RunningServed == Spec => []RunningIsServed
<1>1. IInv => RunningIsServed
  <2> SUFFICES ASSUME IInv, Quiet, database.status = "running", ~database.error,
                      doubt \cap Unserved = {}
               PROVE  Served
    BY DEF RunningIsServed, Served, Unserved
  <2>1. pc = "idle" /\ stalled = {} /\ Waiting = {}
    BY DEF IInv, Typed, WorkerTyped, PlaceOK, Quiet, Waiting
  <2> QED BY <2>1 DEF IInv, RunningIsMeant, HalfDone, Interrupting, Provisions
<1> QED BY <1>1, IInvAlways, PTL

\* What the dashboard shows opens the engine that runs from the present spec, and
\* a rebuild would start from it, in every state and for any number of changes:
\* unless one of the three causes is on record.
THEOREM PasswordOpens == Spec => []CredentialsOpen
<1>1. IInv => CredentialsOpen
  <2> SUFFICES ASSUME IInv, ~Gone, doubt \cap {"altered", "kept", "rolled_back"} = {}
               PROVE  /\ container.up /\ container.current => opens = database.password
                      /\ fixed \in {NoSecret, database.password}
    BY DEF CredentialsOpen
  <2>1. FixedFollows /\ MountFollows /\ MountThere /\ EngineFollows /\ MemoryFollows
    BY DEF IInv, PasswordInv
  <2> QED BY <2>1 DEF FixedFollows, MountFollows, MountThere, EngineFollows, MemoryFollows
<1> QED BY <1>1, IInvAlways, PTL

\* A row never reads deploying or deleting, without an error, with no job, no
\* request and no worker left to end it, as long as no worker died twice and no
\* provision threw before its try, which is on record and excuses deploying only.
THEOREM NoneForgotten == Spec => []NothingForgotten
<1>1. IInv => NothingForgotten
  <2> SUFFICES ASSUME IInv, Quiet, crashes < 2, ~deleting, \A d \in Ids : request[d] = "none",
                      ~database.error, database.status \in {"deploying", "deleting"},
                      database.status = "deploying" => "untried" \notin doubt
               PROVE  FALSE
    BY DEF NothingForgotten
  <2>1. active.kind = "none" /\ stalled = {} /\ Waiting = {}
    BY DEF Quiet, Waiting, NoJob
  <2> QED BY <2>1 DEF IInv, Remembered, Provided, ToCome, Provisions
<1> QED BY <1>1, IInvAlways, PTL
================================================================================
