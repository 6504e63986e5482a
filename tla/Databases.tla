------------------------------ MODULE Databases ------------------------------
(***************************************************************************)
(* One managed database: the row the dashboard shows, the jobs that         *)
(* provision, rebuild, stop, delete it and change its password, and the     *)
(* four places its password lives in:                                       *)
(*   - the row (rootPasswordEncrypted), which the dashboard shows and the   *)
(*     connection URLs of other resources are made from;                    *)
(*   - the Swarm secret the service spec mounts;                            *)
(*   - the secret file of the container that runs;                          *)
(*   - the engine itself: its data volume, or its memory.                   *)
(* The worker serves one job at a time, so nothing here races with another  *)
(* job; what goes wrong goes wrong between two steps of one job.            *)
(***************************************************************************)
EXTENDS Integers, Sequences, FiniteSets, Lifecycle, JobQueue

CONSTANTS
    MaxDeployments,  \* bound: rows of `database_deployments' that are not settled
    MaxPasswords,    \* bound: passwords ever chosen, the first at creation
    Requests,        \* what the operator asks for in this instance
    Engines          \* the engines of this instance

Provisions == {"provision", "rebuild"}
Actions    == {"start", "stop", "restart"}
JobKinds   == Provisions \cup Actions \cup {"change", "delete"}

ASSUME DatabasesAssumption ==
    /\ MaxDeployments \in Nat \ {0}
    /\ MaxPasswords \in Nat \ {0}
    /\ Requests \subseteq JobKinds
    /\ Engines \subseteq {"postgres", "mysql", "redis"}

Ids       == 1..MaxDeployments
Passwords == 1..MaxPasswords
NoSecret  == 0

VARIABLES
    engine,       \* the engine of this database, which decides how it checks who
                  \* changes its password, and where it keeps it: postgres trusts
                  \* the socket; mysql (mariadb and mongo alike) wants the current
                  \* password, read from the container's secret file; redis wants
                  \* it too, and takes the secret file for its password whenever
                  \* it starts
    database,     \* the row of `databases'
    deployments,  \* status of the rows of `database_deployments'
    request,      \* request[d]: how far queueDatabaseProvision got with row d
    deleting,     \* deleteDatabase marked the row and enqueues next
    chosen,       \* the last password an operator chose
    pc,           \* where the worker stands in its job
    swarm,        \* the Swarm service
    fixed,        \* content of the secret `<name>-password', or NoSecret
    container,    \* the running container, with its copy of the secret; `current' when
                  \* it was started from the spec as it is
    volume,       \* the data volume exists
    opens,        \* the password the engine accepts, NoSecret before its first start
    doubt         \* history: what went wrong and no row tells

rows   == <<database, deployments>>
asked  == <<request, deleting, chosen>>
remote == <<swarm, fixed, container, volume, opens>>
vars   == <<engine, rows, asked, jobs, worker, pc, remote, doubt>>

-----------------------------------------------------------------------------
(* Types *)

Mount   == [value : Passwords \cup {NoSecret}, fixed : BOOLEAN]
NoMount == [value |-> NoSecret, fixed |-> FALSE]

NoContainer == [up |-> FALSE, secret |-> NoSecret, current |-> FALSE]

NoSwarm == [exists |-> FALSE, replicas |-> 0, mount |-> NoMount,
            before |-> 0, previous |-> NoMount, update |-> "none"]

Counters ==
    JobKinds \cup
    { "idle",
      "secret", "shipping", "verdict",           \* the engine's provisionDatabase
      "accepted", "refused", "succeeded", "failed",  \* what it writes
      "emptying", "stuck",                       \* removeVolumes
      "rotating", "forgetting", "recording",     \* changeDatabasePassword
      "applied",                                 \* applyLifecycleAction
      "unsecret", "erasing" }                    \* teardownDatabase

TypeOK ==
    /\ engine \in Engines
    /\ database \in [status : RESOURCE_STATUSES \cup {"gone"}, error : BOOLEAN,
                     password : Passwords]
    /\ deployments \in [Ids -> {"absent", "queued", "deploying", "succeeded", "failed"}]
    /\ request \in [Ids -> Provisions \cup {"none"}]
    /\ deleting \in BOOLEAN
    /\ chosen \in Passwords
    /\ JobsOK(JobKinds, 0..(MaxDeployments + MaxPasswords))
    /\ pc \in Counters
    /\ (pc = "idle") = (active = NoJob)
    /\ swarm \in [exists : BOOLEAN, replicas : {0, 1}, mount : Mount, before : {0, 1},
                  previous : Mount,
                  update : {"none", "updating", "completed", "rolled_back"}]
    /\ fixed \in Passwords \cup {NoSecret}
    /\ container \in [up : BOOLEAN, secret : Passwords \cup {NoSecret}, current : BOOLEAN]
    /\ volume \in BOOLEAN
    /\ opens \in Passwords \cup {NoSecret}
    /\ doubt \subseteq {"altered", "kept", "rolled_back", "scaled_back", "abandoned",
                         "untried", "unanswered"}

-----------------------------------------------------------------------------
(* Helpers *)

Gone == database.status = "gone"

\* An id for the next INSERT.  A row that has settled, or that no job is about
\* any more, is never looked at again, so its id serves once more.
Fresh(d) ==
    /\ ~Gone
    /\ deployments[d] # "deploying"
    /\ request[d] = "none"
    /\ \A kind \in Provisions : ~Pending(kind, d)

UpdateRow(row) == database' = IF Gone THEN database ELSE row

SetDeployment(status) ==
    deployments' = IF deployments[active.arg] = "absent" THEN deployments
                   ELSE [deployments EXCEPT ![active.arg] = status]

\* The spec changed under the container that runs.
Outdated == container' = [container EXCEPT !.current = FALSE]

\* The handler returned or threw.
End == pc' = "idle" /\ Finish

\* It throws, and nothing catches it: what the delivery before this one left
\* half done stays that way.
Throw ==
    /\ doubt' = IF active.again THEN doubt \cup {"abandoned"} ELSE doubt
    /\ End
    /\ UNCHANGED <<engine, rows, asked, worker, remote>>

\* It throws before the try whose catch would have written the rows.
ThrowUntried ==
    /\ doubt' = doubt \cup {"untried"} \cup (IF active.again THEN {"abandoned"} ELSE {})
    /\ End
    /\ UNCHANGED <<engine, rows, asked, worker, remote>>

-----------------------------------------------------------------------------
(* The dashboard *)

\* queueDatabaseProvision, for a changed setting or for rebuildDatabase:
\* insert the row, which nobody looks at before its job runs, and mark the
\* database, whatever its status is; ...
RequestProvision(d, kind) ==
    /\ kind \in Requests
    /\ Fresh(d)
    /\ deployments' = [deployments EXCEPT ![d] = "queued"]
    /\ UpdateRow(MarkDeploying(database))
    /\ request' = [request EXCEPT ![d] = kind]
    /\ UNCHANGED <<engine, deleting, chosen, jobs, worker, pc, remote, doubt>>

\* ... enqueue the job.
RequestEnqueue(d) ==
    /\ request[d] # "none"
    /\ Enqueue(request[d], d)
    /\ request' = [request EXCEPT ![d] = "none"]
    /\ UNCHANGED <<engine, rows, deleting, chosen, worker, pc, remote, doubt>>

\* changeDatabasePassword: only the dashboard looks at the status.
RequestChange ==
    /\ "change" \in Requests
    /\ database.status = "running"
    /\ chosen < MaxPasswords
    /\ chosen' = chosen + 1
    /\ Enqueue("change", chosen + 1)
    /\ UNCHANGED <<engine, rows, request, deleting, worker, pc, remote, doubt>>

\* triggerDatabaseLifecycle.
RequestLifecycle(action) ==
    /\ action \in Requests
    /\ ~Gone
    /\ Enqueue(action, 0)
    /\ UNCHANGED <<engine, rows, asked, worker, pc, remote, doubt>>

\* deleteDatabase: mark, then enqueue.
RequestDelete ==
    /\ "delete" \in Requests
    /\ ~Gone
    /\ ~deleting
    /\ UpdateRow(MarkDeleting(database))
    /\ deleting' = TRUE
    /\ UNCHANGED <<engine, deployments, request, chosen, jobs, worker, pc, remote, doubt>>

DeleteEnqueue ==
    /\ deleting
    /\ Enqueue("delete", 0)
    /\ deleting' = FALSE
    /\ UNCHANGED <<engine, rows, request, chosen, worker, pc, remote, doubt>>

Dashboard ==
    \/ \E d \in Ids : \/ \E kind \in Provisions : RequestProvision(d, kind)
                      \/ RequestEnqueue(d)
    \/ RequestChange
    \/ \E action \in Actions : RequestLifecycle(action)
    \/ RequestDelete
    \/ DeleteEnqueue

-----------------------------------------------------------------------------
(* provisionDatabase *)

TakeJob ==
    /\ Take
    /\ pc' = Head(queue).kind
    /\ UNCHANGED <<engine, rows, asked, worker, remote, doubt>>

\* The row is read, and with it the password and the variables, decrypted: it
\* throws when the row is gone, and when one of them does not decrypt or the
\* database does not answer, which is before the try.
StartProvision ==
    /\ pc = "provision"
    /\ \/ Gone /\ Throw
       \/ ~Gone /\ ThrowUntried
       \/ /\ ~Gone
          /\ SetDeployment("deploying")
          /\ pc' = "secret"
          /\ UNCHANGED <<engine, database, asked, jobs, worker, remote, doubt>>

\* ensureVolume, then ensureSecret: a secret of that name is taken for the
\* right one, whatever it holds.  A provision between the two deliveries of
\* a change creates it with the password that is about to go.
EnsureSecret ==
    /\ pc = "secret"
    /\ volume' = TRUE
    /\ fixed' = IF fixed = NoSecret THEN database.password ELSE fixed
    /\ pc' = "shipping"
    /\ UNCHANGED <<engine, rows, asked, jobs, worker, swarm, container, opens, doubt>>

\* createService, or the update of the service that exists.
Ship ==
    /\ pc = "shipping"
    /\ swarm' = [ exists   |-> TRUE,
                  replicas |-> 1,
                  mount    |-> [value |-> fixed, fixed |-> TRUE],
                  before   |-> swarm.replicas,
                  previous |-> swarm.mount,
                  update   |-> IF swarm.exists THEN "updating" ELSE "none" ]
    /\ Outdated
    /\ doubt' = doubt \ {"rolled_back", "scaled_back", "untried", "unanswered"}
    /\ pc' = "verdict"
    /\ UNCHANGED <<engine, rows, asked, jobs, worker, fixed, volume, opens>>

\* awaitSwarmVerdict: a service that was created must run a task; then
\* UpdateStatus is read, which is absent until Swarm takes the update up.
ReadVerdict ==
    /\ pc = "verdict"
    /\ \/ /\ swarm.update = "none" => container.up
          /\ swarm.update # "rolled_back"
          /\ pc' = "accepted"
       \/ /\ swarm.update \in {"updating", "rolled_back"}
          /\ pc' = "refused"
    /\ UNCHANGED <<engine, rows, asked, jobs, worker, remote, doubt>>

\* Any of these steps may throw; the catch writes what a refusal writes.
ProvisionThrows ==
    /\ pc \in {"secret", "shipping", "verdict"}
    /\ pc' = "refused"
    /\ UNCHANGED <<engine, rows, asked, jobs, worker, remote, doubt>>

\* The two writes that end it: the database, ...
RecordDatabase ==
    /\ \/ pc = "accepted" /\ UpdateRow(MarkRunning(database)) /\ pc' = "succeeded"
       \/ pc = "refused"  /\ UpdateRow(MarkCrashed(database)) /\ pc' = "failed"
    /\ UNCHANGED <<engine, deployments, asked, jobs, worker, remote, doubt>>

\* ... and the deployment.
RecordDeployment ==
    /\ pc \in {"succeeded", "failed"}
    /\ SetDeployment(pc)
    /\ End
    /\ UNCHANGED <<engine, database, asked, worker, remote, doubt>>

Provision ==
    \/ StartProvision \/ EnsureSecret \/ Ship \/ ReadVerdict \/ ProvisionThrows
    \/ RecordDatabase \/ RecordDeployment

-----------------------------------------------------------------------------
(* rebuildDatabase, and the teardown it shares its first steps with *)

\* removeService; it throws when Docker does.
RemoveService ==
    /\ pc \in {"rebuild", "delete"}
    /\ \/ Gone /\ Throw
       \/ /\ ~Gone
          /\ swarm' = NoSwarm
          /\ Outdated
          /\ pc' = IF pc = "rebuild" THEN "emptying" ELSE "unsecret"
          /\ UNCHANGED <<engine, rows, asked, jobs, worker, fixed, volume, opens, doubt>>
       \/ /\ ~Gone
          /\ pc' = "stuck"
          /\ UNCHANGED <<engine, rows, asked, jobs, worker, remote, doubt>>

\* removeSecretIfExists(`<name>-password'): a failure is swallowed, and so is
\* a secret of another name.
RemoveSecret ==
    /\ pc = "unsecret"
    /\ fixed' \in {fixed, NoSecret}
    /\ pc' = "emptying"
    /\ UNCHANGED <<engine, rows, asked, jobs, worker, swarm, container, volume, opens, doubt>>

\* Mutant: the volumes are not waited for.
RemoveVolumesOnce ==
    /\ pc = "emptying"
    /\ volume' = container.up
    /\ opens' = IF container.up THEN opens ELSE NoSecret
    /\ pc' = IF active.kind = "rebuild" THEN "provision" ELSE "erasing"
    /\ UNCHANGED <<engine, rows, asked, jobs, worker, swarm, fixed, container, doubt>>

\* removeVolumes: `docker volume rm' until it succeeds, which it does not
\* while a container uses the volume, and 20 attempts at most.
RemoveVolumes ==
    /\ pc = "emptying"
    /\ \/ /\ ~container.up
          /\ volume' = FALSE
          /\ opens' = NoSecret
          /\ pc' = IF active.kind = "rebuild" THEN "provision" ELSE "erasing"
       \/ /\ pc' = "stuck"
          /\ UNCHANGED <<volume, opens>>
    /\ UNCHANGED <<engine, rows, asked, jobs, worker, swarm, fixed, container, doubt>>

\* Mutant: what could not be removed is logged only.
RecordNothingStuck ==
    /\ pc = "stuck"
    /\ End
    /\ UNCHANGED <<engine, rows, asked, worker, remote, doubt>>

\* What it could not remove becomes lastError; the status stays, and the
\* deployment of a rebuild stays queued.
RecordStuck ==
    /\ pc = "stuck"
    /\ UpdateRow([database EXCEPT !.error = TRUE])
    /\ End
    /\ UNCHANGED <<engine, deployments, asked, worker, remote, doubt>>

EraseRow ==
    /\ pc = "erasing"
    /\ database' = [status |-> "gone", error |-> FALSE, password |-> 1]
    /\ deployments' = [d \in Ids |-> "absent"]
    /\ doubt' = {}
    /\ End
    /\ UNCHANGED <<engine, asked, worker, remote>>

Remove == RemoveService \/ RemoveSecret \/ RemoveVolumes \/ RecordStuck \/ EraseRow

-----------------------------------------------------------------------------
(* changeDatabasePassword *)

\* The engine lets the change through: see Engines.
Authenticates == engine = "postgres" \/ container.secret = opens

\* Mutant: a database that is down has nothing to alter, and the change goes on.
AlterUserIfUp ==
    /\ pc = "change"
    /\ ~Gone
    /\ opens' = IF container.up THEN active.arg ELSE opens
    /\ doubt' = doubt \cup {"altered"}
    /\ pc' = "rotating"
    /\ UNCHANGED <<engine, rows, asked, jobs, worker, swarm, fixed, container, volume>>

\* findDatabaseContainer, then `docker exec': a database that is gone or down
\* throws, and so does an engine that wants another password, but redis-cli,
\* which exits with 0 whatever it is answered.  The exit code of a change that
\* was made may be lost with the connection.
AlterUser ==
    /\ pc = "change"
    /\ \/ Throw
       \/ /\ ~Gone
          /\ container.up
          /\ \/ Authenticates /\ opens' = active.arg
             \/ ~Authenticates /\ engine = "redis" /\ UNCHANGED opens
          /\ doubt' = doubt \cup {"altered"}
          /\ \/ pc' = "rotating" /\ UNCHANGED jobs
             \/ End
          /\ UNCHANGED <<engine, rows, asked, worker, swarm, fixed, container, volume>>

\* rotateSecret: a secret of a new name, and an update of the service that
\* mounts it, which nobody waits for.
Rotate ==
    /\ pc = "rotating"
    /\ \/ Throw
       \/ /\ swarm.exists
          /\ swarm' = [swarm EXCEPT !.mount = [value |-> active.arg, fixed |-> FALSE],
                                    !.before = swarm.replicas,
                                    !.previous = swarm.mount,
                                    !.update = "updating"]
          /\ Outdated
          /\ doubt' = doubt \ {"rolled_back"}
          /\ pc' = "forgetting"
          /\ UNCHANGED <<engine, rows, asked, jobs, worker, fixed, volume, opens>>

\* The secret that was mounted is removed; a failure is swallowed, and Docker
\* refuses one that is mounted.  The secret of the fixed name stays when it was
\* not the one mounted: a provision that failed had created it.
Forget ==
    /\ pc = "forgetting"
    /\ fixed' \in IF swarm.previous.fixed /\ ~swarm.mount.fixed THEN {fixed, NoSecret} ELSE {fixed}
    /\ doubt' = IF fixed' = NoSecret THEN doubt \ {"kept"} ELSE doubt \cup {"kept"}
    /\ pc' = "recording"
    /\ UNCHANGED <<engine, rows, asked, jobs, worker, swarm, container, volume, opens>>

\* The row follows last.
RecordPassword ==
    /\ pc = "recording"
    /\ UpdateRow([database EXCEPT !.password = active.arg])
    /\ doubt' = doubt \ {"altered"}
    /\ End
    /\ UNCHANGED <<engine, deployments, asked, worker, remote>>

Change == AlterUser \/ Rotate \/ Forget \/ RecordPassword

-----------------------------------------------------------------------------
(* applyLifecycleAction *)

\* scaleService or restartService; what is not there, or does not come up
\* within its deadline, throws and leaves the row alone.  So does a stop that
\* Swarm took and whose answer, or the write that follows, is lost.
Scale ==
    /\ pc \in Actions
    /\ \/ Throw
       \/ /\ ~Gone
          /\ swarm.exists
          /\ swarm' = [swarm EXCEPT
               !.replicas = [start |-> 1, stop |-> 0, restart |-> swarm.replicas][pc],
               !.before = swarm.replicas,
               !.previous = swarm.mount,
               !.update = IF pc = "restart" THEN "updating" ELSE "none"]
          /\ \/ pc' = "applied" /\ UNCHANGED <<jobs, doubt>>
             \/ End /\ doubt' = IF pc = "stop" THEN doubt \cup {"unanswered"} ELSE doubt
          /\ UNCHANGED <<engine, rows, asked, worker, fixed, container, volume, opens>>

\* Mutant: an action that came back counts as recorded.
RecordOnce ==
    /\ pc = "applied"
    /\ UpdateRow(IF active.again THEN database
                 ELSE CASE active.kind = "start"   -> MarkRunning(database)
                        [] active.kind = "stop"    -> MarkStopped(database)
                        [] active.kind = "restart" -> database)
    /\ End
    /\ UNCHANGED <<engine, deployments, asked, worker, remote, doubt>>

RecordAction ==
    /\ pc = "applied"
    /\ UpdateRow(CASE active.kind = "start"   -> MarkRunning(database)
                   [] active.kind = "stop"    -> MarkStopped(database)
                   [] active.kind = "restart" -> database)
    /\ End
    /\ UNCHANGED <<engine, deployments, asked, worker, remote, doubt>>

-----------------------------------------------------------------------------
(* The worker process dies and comes back *)

\* A job whose worker dies twice does not come back.
Crash ==
    /\ Die
    /\ pc' = "idle"
    /\ doubt' = IF active.again THEN doubt \cup {"abandoned"} ELSE doubt
    /\ UNCHANGED <<engine, rows, asked, remote>>

\* Mutant: a deployment is given the status a database has.
RecoverAsCrashed ==
    /\ process = "down"
    /\ LET stale == {d \in Ids : deployments[d] = "deploying"} IN
       /\ deployments' = [d \in Ids |-> IF d \in stale THEN "crashed" ELSE deployments[d]]
       /\ process' = IF stale = {} THEN "up" ELSE "recovering"
    /\ UNCHANGED <<engine, database, asked, jobs, crashes, pc, remote, doubt>>

\* Mutant: rows that are still queued are failed, those in flight are not.
RecoverQueued ==
    /\ process = "down"
    /\ LET stale == {d \in Ids : deployments[d] = "queued"} IN
       /\ deployments' = [d \in Ids |-> IF d \in stale THEN "failed" ELSE deployments[d]]
       /\ process' = IF stale = {} THEN "up" ELSE "recovering"
    /\ UNCHANGED <<engine, database, asked, jobs, crashes, pc, remote, doubt>>

\* recoverDatabases: fail what was in flight, ...
RecoverDeployments ==
    /\ process = "down"
    /\ LET stale == {d \in Ids : deployments[d] = "deploying"} IN
       /\ deployments' = [d \in Ids |-> IF d \in stale THEN "failed" ELSE deployments[d]]
       /\ process' = IF stale = {} THEN "up" ELSE "recovering"
    /\ UNCHANGED <<engine, database, asked, jobs, crashes, pc, remote, doubt>>

\* ... then the database, if it still reads deploying.
RecoverDatabase ==
    /\ process = "recovering"
    /\ UpdateRow(IF database.status = "deploying" THEN MarkCrashed(database) ELSE database)
    /\ process' = "up"
    /\ UNCHANGED <<engine, deployments, asked, jobs, crashes, pc, remote, doubt>>

JobReturns ==
    /\ ComesBack
    /\ UNCHANGED <<engine, rows, asked, worker, pc, remote, doubt>>

Recovery == RecoverDeployments \/ RecoverDatabase \/ JobReturns

-----------------------------------------------------------------------------
(* Swarm and the engine *)

\* A container starts from the spec, for the first time, after an update, or
\* because the last one died.  An engine without data takes the mounted
\* password for its own, and redis always does.
TaskStarts ==
    /\ swarm.exists
    /\ swarm.replicas = 1
    /\ container' = [up |-> TRUE, secret |-> swarm.mount.value, current |-> TRUE]
    /\ opens' = IF engine = "redis" \/ opens = NoSecret THEN swarm.mount.value ELSE opens
    /\ volume' = TRUE
    /\ UNCHANGED <<engine, rows, asked, jobs, worker, pc, swarm, fixed, doubt>>

\* It is stopped, or dies.
TaskStops ==
    /\ container.up
    /\ container' = NoContainer
    /\ UNCHANGED <<engine, rows, asked, jobs, worker, pc, swarm, fixed, volume, opens, doubt>>

UpdateCompletes ==
    /\ swarm.update = "updating"
    /\ swarm' = [swarm EXCEPT !.update = "completed", !.before = swarm.replicas]
    /\ UNCHANGED <<engine, rows, asked, jobs, worker, pc, fixed, container, volume, opens, doubt>>

\* Swarm goes back to PreviousSpec: harmless to the password unless that
\* mounts another one, and to the replicas while the verdict is awaited.
UpdateRollsBack ==
    /\ swarm.update = "updating"
    /\ swarm' = [swarm EXCEPT !.update = "rolled_back", !.mount = swarm.previous,
                              !.replicas = swarm.before]
    /\ Outdated
    /\ doubt' = doubt
         \cup (IF swarm.previous.value # swarm.mount.value THEN {"rolled_back"} ELSE {})
         \cup (IF swarm.before # swarm.replicas /\ pc # "verdict" THEN {"scaled_back"} ELSE {})
    /\ UNCHANGED <<engine, rows, asked, jobs, worker, pc, fixed, volume, opens>>

SwarmSteps == TaskStarts \/ TaskStops \/ UpdateCompletes \/ UpdateRollsBack

-----------------------------------------------------------------------------
\* createDatabase wrote the row.
Init ==
    /\ engine \in Engines
    /\ database = [status |-> "created", error |-> FALSE, password |-> 1]
    /\ deployments = [d \in Ids |-> "absent"]
    /\ request = [d \in Ids |-> "none"]
    /\ deleting = FALSE
    /\ chosen = 1
    /\ QueueInit
    /\ pc = "idle"
    /\ swarm = NoSwarm
    /\ fixed = NoSecret
    /\ container = NoContainer
    /\ volume = FALSE
    /\ opens = NoSecret
    /\ doubt = {}

WorkerStep == Provision \/ Remove \/ Change \/ Scale \/ RecordAction

Next == Dashboard \/ TakeJob \/ WorkerStep \/ Crash \/ Recovery \/ SwarmSteps

Spec == Init /\ [][Next]_vars

-----------------------------------------------------------------------------
(* Properties *)

\* What the dashboard shows opens the engine, and a rebuild would start from
\* it too, whatever was provisioned, rebuilt, restarted or changed in between,
\* in whatever order: unless a change that reached the engine did not reach
\* the row, a secret of the fixed name outlived a change (its removal failed, or
\* a provision that failed had created it without mounting it), or Swarm went
\* back to the spec before.  All three happen, and are named in `doubt'.  After
\* a rotation this is so once Swarm has replaced the container.
CredentialsOpen ==
    ~Gone /\ doubt \cap {"altered", "kept", "rolled_back"} = {} =>
        /\ container.up /\ container.current => opens = database.password
        /\ fixed \in {NoSecret, database.password}

\* A row that reads running, without an error, has its service in the cluster
\* with a replica: after stops, refused updates, failed rebuilds and a worker
\* that died halfway through any of them.  What is excluded happens, and is
\* named in `doubt': Swarm took the replicas back after the verdict, a job that
\* had come back did not finish, a rebuild removed the service and threw before
\* the provision's try, or a stop was applied and its answer lost.
RunningIsServed ==
    Quiet /\ database.status = "running" /\ ~database.error
          /\ doubt \cap {"scaled_back", "abandoned", "untried", "unanswered"} = {} =>
        swarm.exists /\ swarm.replicas = 1

\* When the row is gone nothing is left to store data or to run, and no job
\* that was still waiting, or came back, builds it up again.
GoneLeavesNothing ==
    Gone /\ pc = "idle" => ~swarm.exists /\ ~volume

\* A deployment reads deploying only while a worker works on it, or until the
\* next one has started.
DeployingHasOwner ==
    \A d \in Ids : deployments[d] = "deploying" =>
        (active.kind \in Provisions /\ active.arg = d) \/ process = "down"

\* A row never reads deploying or deleting with nobody left to end it, unless
\* it also says what went wrong, through every failure inside the try and every
\* death of the worker but the second.  (A rebuild that cannot remove its volume
\* leaves it so.)  One case is excluded, for it does leave the row deploying,
\* without an error and without anybody: a provision that threw before its try.
NothingForgotten ==
    Quiet /\ crashes < 2 /\ ~deleting /\ (\A d \in Ids : request[d] = "none") =>
        /\ database.status = "deploying" => database.error \/ "untried" \in doubt
        /\ database.status = "deleting" => database.error
=============================================================================
