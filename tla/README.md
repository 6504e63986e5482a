# Noddle, verified

Noddle deploys services, stacks and databases of teams onto a Docker Swarm. This
directory models the parts of it where several processes write the same rows,
services, images and objects, checks the models with TLC on small instances, and
proves the properties that matter most with TLAPS, for every instance.

All paths below are relative to the repository (`src/`).

    tlc -workers 2 -config ServiceDeploy_deploys.cfg ServiceDeploy
    tlapm ServiceDeployProofs.tla

Every configuration is named `<module>_<question>.cfg` and is run on the module
it is named after. `PROJECT.json` is the index: components, runs, the source
lines of every definition, the hazards of the code and what covers them, the
findings, the theorems, and for every checked property one mutation of the code
that breaks it. The mutations are in the modules, above the operator they
mutate, under a comment that begins with "Mutant".

## 1. The system

### Processes and stores

| part | what it is | state it keeps |
| --- | --- | --- |
| dashboard (`apps/dashboard`) | one Node server: pages, server functions, public API, webhooks, live logs over SSE, a terminal over WebSocket | listeners of the `LogHub`, in memory; requests under way |
| worker (`apps/worker`) | one Node process: the consumer of the deploy queue (concurrency 1) and one consumer per schedule, each with a queue of its own | program counters of its handlers, in memory |
| Postgres | `services`, `deployments`, `stacks`, `databases`, `backups`, `volume_backups`, `backup_configs`, `servers`, ... | the ledger everything else is read from |
| Redis | BullMQ queues, idempotent answers, the buffer, counter and channel of each live log | jobs, locks, log tails |
| Docker Swarm, hosts | services, tasks, images, volumes, secrets, over SSH | what really runs |
| registry, bucket, forge | image manifests; backup objects; pull requests | what can be rolled back to, or restored; what previews are for |

The dashboard never touches Swarm to change it: it writes a row, then enqueues a
job. The worker takes the job, changes Swarm and writes the outcome to the row.
There is no transaction across any two of these stores, and few inside Postgres.

### Components, operations, interactions, and what makes them correct

**Service deploy path** (`deploy/deploy.ts`, `accepted-deployment.ts`, `sweep.ts`,
`recover.ts`, `teardown.ts`, `database/lifecycle.ts`, dashboard
`deploy-queue.server.ts`). State: the row of the service (status, error,
`currentDeploymentId`), its deployments (status, image, `watchUntil`), jobs, the
Swarm service. Operations: deploy, rollback, start, stop, restart, delete; the
watch sweep, every 30 seconds, which reverts a deployment that crash-loops within
five minutes of its acceptance; recovery of a restarted worker. Hard: the watch
sweep ships images outside the deploy queue; acceptance is three statements;
teardown removes Swarm's service first and the row last; BullMQ redelivers a
stalled job, once, and whole; Swarm answers late, or never. Correct when: the
service points at a row Swarm accepted, at most one row is watched, a settled row
stays settled, everything that began settles, a delete ends, a crash loop is
answered, and what the row says runs is what Swarm runs.

**Resource lifecycle** (`packages/shared/src/lifecycle.ts`). The statuses of a
service, stack or database, and the patches that set them with the error. Pure.

**Stacks** (`deploy/compose.ts`, `teardown-stack.ts`, the stack branches of
`sweep.ts` and `recover.ts`). State: one row and its deployments, as for a service,
but one Swarm service per key of the compose file. Operations: deploy, rollback,
delete, revert. Hard: Swarm rolls back each service on its own; two actors ship
service by service; a redeploy catches nothing. Correct when a stack that reads
running runs its current deployment in every service, no row is in flight that
nobody works on, and a teardown leaves nothing behind.

**Databases** (`database/database.ts`, `lifecycle.ts`, `recover.ts`). State: the
row and its deployments, the Swarm service, its secret, its data volume.
Operations: provision, rebuild (service and volume removed, then provisioned),
start, stop, restart, delete. Hard: rebuild and teardown remove one thing after
another and retry the volume against a container that still stops. Correct when a
row that reads running is served, nothing outlives the row, and none is left in
flight with nobody to end it.

**Database passwords** (`database/database-password.ts`,
`packages/deploy-engine` `database.ts`, `swarm.ts`). One password in the engine, the
Swarm secret, the container's secret file and the row, changed one after the other.
Correct when what the dashboard shows opens the engine.

**Backups and restores** (`backup-run/`, `packages/backup`, dashboard
`server/backups/`). State: rows of runs, objects in a bucket, the configuration,
the data itself and the replicas of the service that mounts it. Operations:
manual and scheduled dumps, retention, deletion of a run, restore with a safety
backup, recovery. Hard: a row and its object live in two stores and three parties
delete them; a restore contains a backup, which prunes; a restore is redelivered.
Correct when: retention keeps exactly the newest, what it keeps has a whole
object, one scheduled run is in flight, a restore can be undone, and a half
restored volume is not served.

**Live deployment logs** (`log-sink.ts`, `log-bus.ts`, `packages/shared/src/logs.ts`,
dashboard `redis.server.ts`, `log-replay.ts`, `sse-channel.server.ts`,
`routes/api/logs/$deploymentId.ts`, `components/log-stream.tsx`). State: a counter
and a bounded buffer in Redis, a channel, one subscription shared by the
listeners of a channel, per handler the last number delivered, per browser the
last event id. Hard: an entry comes over the buffer and over the channel, on two
connections nothing orders; browsers reconnect while their old handler still
runs; the set of listeners is made, found and dropped around an await. Correct
when: the log is shown in order, once, whole, to its end, and the hub leaks neither
listener nor subscription.

**Image retention** (`deploy/registry-sweep.ts`, `prune.ts`). State: manifests in the
registry, images on the hosts, `imagePurged` of each row. Operations: the hourly
sweep deletes the manifests beyond the newest of each service, the daily prune
frees the hosts and marks the rows whose image is on none. Hard: both act on a
survey made before; tags share digests; a revert is no job of their queue. Correct
when no image a rollback, a revert or a running service needs is deleted, and the
marks say what is gone.

**Preview environments** (`preview.server.ts`) and **webhooks**
(`webhook-intake.server.ts`). State: a service per pull request, up to a limit over
all projects, and its Swarm service. Operations: open, push, close, handled side
by side as the forge delivers them; deletion. Hard: look-ups and inserts are steps
of their own, a deletion is a job, a preview is itself a service of the repository.
Correct when the limit holds, and an open pull request ends with one preview and a
closed one with none.

**Queues and schedules** (`index.ts`, `packages/shared` queue names). BullMQ as the
code uses it: first in first out, one job at a time, a stalled job comes back once.

**Servers** (`target/`). Hosts are provisioned, adopted, drained and removed.
**Public API and idempotency** (`api-v1.server.ts`). A key is looked up before a
request and its answer stored after it.

The others, with the reason why each is left out, are in `PROJECT.json` and in
section 7.

## 2. The modules

    Lifecycle              statuses and patches of a resource's row, no state
    JobQueue               the deploy queue and the worker process, to be shared
    JobQueueProofs         EXTENDS JobQueue: what its steps do to a set of jobs
    ServiceDeploy          EXTENDS Lifecycle: the deploy path of one service,
                           composed with dashboard, queue, worker, sweep and Swarm
    ServiceDeployProofs    EXTENDS ServiceDeploy: types, owners of builds, settled
                           rows, the watch, the pointer, and what Swarm runs
    Stacks                 EXTENDS Lifecycle, JobQueue: one stack
    StacksProofs           EXTENDS Stacks, JobQueueProofs
    Databases              EXTENDS Lifecycle, JobQueue: one database, its password
    DatabasesProofs        EXTENDS Databases, JobQueueProofs
    ImageRetention         EXTENDS JobQueue: the images of one service
    ImageRetentionProofs   EXTENDS ImageRetention, JobQueueProofs
    Previews               EXTENDS Lifecycle, JobQueue: the previews of one service
    PreviewsProofs         EXTENDS Previews, JobQueueProofs: types, the limit, and
                           that the previews follow the pull requests
    BackupRuns             runs and restores of one configuration
    BackupRunsProofs       EXTENDS BackupRuns
    LogView                what a live log promises (abstract)
    LogStream              how it is kept; View == INSTANCE LogView WITH ...
    LogStreamProofs        EXTENDS LogStream: types, the hub, the refinement, and
                           with it what LogView promises of a screen
    MCBackupRuns, MCImageRetention, MCPreviews, MCStacks
                           the instances TLC checks side by side

A step, everywhere, is what happens between two awaits: one write to Postgres, one
call to Swarm, a host, the registry or the bucket, one queue operation. Where the
repository spreads one call over several requests that nothing else can come
between, it is one step, and the module says so. `doubt` (`clean` in
ServiceDeploy, `marred` in LogStream) is history: the names of things that
happened and that no row tells. A property that holds only but for such a thing
names it, so that what the code does not hold is in the statement, and nothing
more than that is excused.

### JobQueue

`queue`, `active`, `stalled` are the waiting jobs, the one the worker holds, and
those a dead worker holds the lock of; `process` is down, recovering or up. `Take`,
`Finish`, `Die`, `ComesBack` are the parts the components build their actions of.
`enqueueDeploy` of the dashboard passes no retry options, so a job that throws
is over; a job whose worker died comes back once and is failed by BullMQ after that.

### ServiceDeploy

Two kinds of process ship images, the worker of the deploy queue and one branch of
`sweepWatch` per watched row. They run the same code (`ship`, `redeployImage`,
`record*Service`), so the module has the steps once, with the *runner* as a
parameter; `run[r]` is its program counter and locals.

| variable | code |
| --- | --- |
| `service`, `deployments` | rows in Postgres; ids are in the order of `createdAt`; `image` is the id of the row that built it |
| `request`, `deleting` | how far `queueServiceDeploy` and `deleteService` of the dashboard got |
| `queue`, `active`, `stalled` | the BullMQ deploy queue, its one active job, the job whose lock a dead worker holds |
| `run`, `sweeping` | handlers of the worker and the branches of the sweep |
| `process`, `crashes` | the worker process and its recovery |
| `swarm`, `crashLoops` | the Swarm service with its `PreviousSpec` and `UpdateStatus`; rows since whose `finishedAt` two tasks failed |
| `clean` | history: nothing set the row and Swarm apart yet (see `ServedIsRecorded`) |

| actions | code |
| --- | --- |
| `RequestDeploy`, `RequestMark`, `RequestEnqueue`, `RequestLost` | `queueServiceDeploy`: insert, mark, enqueue, and the process that stops in between |
| `RequestRollback`, `RequestLifecycle`, `RequestDelete`, `DeleteEnqueue` | `triggerRollback`, `triggerLifecycle`, `deleteService` |
| `TakeJob`, `StartDeploy`, `ResolveImage`, `StartRedeploy` | the consumer, `runDeploy` up to the image, `redeployImage` |
| `Rollout`, `ReadVerdict`, `Throw` | `deployService`, `awaitSwarmVerdict`, and any throw between |
| `RecordSucceeded`, `RecordCurrent`, `ClearSupersededWatch` | `recordAcceptedService`, statement by statement |
| `RecordRolledBack`, `RecordCrashed`, `RecordFailed`, `RecordFailedService` | `recordRefusedService`, `recordFailedService` |
| `RemoveSwarm`, `EraseRow`, `TeardownThrows`, `RecordStuck` | `runServiceTeardown` |
| `Scale`, `RecordLifecycle` | `applyLifecycleAction` |
| `StartSweep`, `Inspect`, `FindPrevious`, `RecordReverted`, `RecordStranded`, `WatchElapses` | `sweepWatch` and the clock |
| `Crash`, `RecoverDeployments`, `RecoverLook`, `RecoverService`, `StalledJobReturns` | the worker dies; `recoverStaleDeployments`; BullMQ |
| `SwarmBegins`, `SwarmConverges`, `SwarmRollsBack`, `TasksFail` | external: Swarm |

`awaitSwarmVerdict` polls: an update Swarm has not taken up reads as accepted, one
that is still going at the deadline as refused. Both are in `ReadVerdict`, which
may fire in any state of the update.

### Stacks

`stack` and `rows` are the row and its deployments, where `source` is the row whose
images a redeploy ships; `swarm[s]` is one Swarm service per key of the file.
`act["worker"]` and `act["branch"]` are the deploy job and the branch of the watch
sweep, which go through the same steps.

| actions | code |
| --- | --- |
| `RequestDeploy`, `RequestEnqueue`, `RequestRollback`, `RequestDelete`, `DeleteEnqueue` | `queueStackDeploy`, `triggerStackRollback`, `deleteStack` |
| `StartDeploy`, `ReadCompose`, `Build` | `runStackDeploy` up to the rollout |
| `Redeploy` | `redeployStack`, for a rollback or a revert |
| `Roll`, `ReadVerdict`, `Throw` | `writeAndDeployStack`: the services one by one, their verdicts one by one |
| `RecordRow`, `RecordStack`, `ClearSupersededWatch` | `recordAcceptedStack`, `recordRefusedStack`, `recordFailedStack` |
| `StartBranch`, `FindPrevious`, `RecordReverted`, `RecordStranded` | the stack branch of `sweepWatch` |
| `RemoveStack`, `EraseRow`, `EraseThrows`, `RecordStuck` | `runStackTeardown`: `docker stack rm`, the wait and the row, what either throws |
| `Crash`, `RecoverRows`, `RecoverStack`, `JobReturns` | the worker dies, `recoverStacks`, BullMQ |
| `UpdateCompletes`, `UpdateRollsBack` | external: Swarm |

### Databases

One database. `engine` decides how a change of the password authenticates: over the
socket (postgres), with the container's secret file (mysql, and mariadb and mongo
alike), or with the secret file and in memory only (redis). The password lives in
`database.password` (the row), `fixed` (the secret `<name>-password`), `swarm.mount`
(the spec), `container.secret` (the file of the task that runs) and `opens` (what the
engine accepts). `pc` is where the worker stands in its job.

| actions | code |
| --- | --- |
| `RequestProvision`, `RequestEnqueue`, `RequestChange`, `RequestLifecycle`, `RequestDelete`, `DeleteEnqueue` | the server functions of `databases` |
| `StartProvision`, `ThrowUntried`, `EnsureSecret`, `Ship`, `ReadVerdict`, `ProvisionThrows`, `RecordDatabase`, `RecordDeployment` | `runDatabaseProvision` with the engine's `provisionDatabase` |
| `RemoveService`, `RemoveSecret`, `RemoveVolumes`, `RecordStuck`, `EraseRow` | `rebuildDatabase`, `runDatabaseTeardown` |
| `AlterUser`, `Rotate`, `Forget`, `RecordPassword` | `changeDatabasePassword`, `rotateSecret` |
| `Scale`, `RecordAction` | `applyLifecycleAction` |
| `Crash`, `RecoverDeployments`, `RecoverDatabase`, `JobReturns` | the worker dies, `recoverDatabases`, BullMQ |
| `TaskStarts`, `TaskStops`, `UpdateCompletes`, `UpdateRollsBack` | external: Swarm and the engine |

### ImageRetention

The deploy path again, reduced to what it does with images: `image[t]` says where
tag `t` belongs and which digest was built under it, `manifests` what the registries
answer for, `on[h]` what host `h` holds, `rows` what the history offers. Two tags may
share a digest, because a build that finds every layer in the cache yields the same
image again. `ReadServices`, `ReadRows`, `DeleteManifest`, `MarkPurged`, `MarkThrows`, `EndSweep`
are `sweepRegistry`; `StartPrune`, `SurveyHost`, `Reconcile` are `pruneDocker`;
`StartDeploy` ... `RecordCurrent` are `runDeploy` and `redeployImage`, as far as
images are concerned; `StartBranch` and `RecordReverted` are the watch branch.

### Previews

`services` are the previewed service (`Production`) and its previews, with the
columns that tell them apart; `pull` and `sent` are the forge; `branches` are the
requests of the dashboard, one record per delivery and target, because
`handleWebhook` runs the targets of a delivery in a `Promise.all`. `place` is where
the worker stands, `served` what Swarm runs of each preview. `instance.route` says by which hook
deliveries come: the service's own, whose target is that service, or a git
provider's, whose targets are all services of the repository.

| actions | code |
| --- | --- |
| `Open`, `Push`, `Close`, `Receive` | external: the forge; `handleWebhook` |
| `LookAtParent`, `LookForExisting`, `Count` | `ensurePreview` |
| `LookForEnvironment`, `InsertEnvironment` | `previewEnvironment` |
| `Insert`, `InsertDomain`, `CopyEnvVars` | `createPreview`, with the unique indices of the schema |
| `QueueDeploy`, `MarkPreview`, `EnqueueDeploy` | `queueServiceDeploy` |
| `LookForClosed`, `MarkDeleted`, `EnqueueDelete` | `destroyPreview` |
| `RequestDelete`, `RequestDeploy`, `RequestLifecycle` | `deleteService`, `triggerDeploy`, `triggerLifecycle`, by the operator |
| `Throw` | a step that Postgres or Redis refuses |
| `TakeJob`, `Deploy`, `Record`, `ApplyLifecycle` | the deploy worker |
| `RemoveService`, `EraseRow`, `TeardownThrows` | `runServiceTeardown`, with the cascade of the foreign key |

### BackupRuns

One configuration of a database or of a volume (`Subject`). `runs` are the rows,
`objects` what the bucket holds under each row's key, `data` what the database or
volume holds: what was there at first, a restore cut off, a restore completed. The
worker's `at` walks through `runBackupPipeline` (`Load` ... `PruneRow`) and
`runRestorePipeline` (`ResolveSource` ... `ScaleUp`); the latter enters the former
for the safety backup, and `Return` comes back. `sweep` is `sweepBackupConfigs` in
its own queue (`StartSweep`, `FindInFlight`, `CheckDue`, `InsertScheduled`,
`EnqueueScheduled`), `submitting` and `erasing` are the dashboard's
`triggerBackup` and `deleteBackupRun`, both in several steps. `fired` is the clock
of `isConfigDue`: the newest run that is older than the last cron time. The object
and then the row of an excess run are deleted in two steps, an error of the first
is ignored, as in the code. `RunOtherJob` and `WatchRedeploys` are what else scales the
service that mounts the volume: jobs of the worker's queue, one at a time with the
restores, and the watch, which waits for none.

### LogStream and LogView

One deployment. The worker writes chunks to the `wire` (commands of its Redis
connection), `LOG_PUBLISH_SCRIPT` is one step (`Publish`) that numbers, buffers,
trims and publishes. The hub has a connection to Redis, with `commands` one way
and `feed` (answers and messages, in one order) the other, and its `listening` /
`listeners`. `conn` are the handlers of `GET /api/logs/$deploymentId`: `Subscribe`,
`HearAck`, `Backlog` (LRANGE, on another connection), `Replay` (`planReplay`, then
what was heard meanwhile), `ReadArchive`. `browser` are the EventSources, with
what is on the screen. `marred` remembers which of three things that lose entries
have happened: *overlap* (a handler joined a set whose SUBSCRIBE was unanswered),
*lost* (the hub's connection broke with messages under way), *quiet* (the counter
expired under a running build).

`LogView` has none of this. It has the chunks written, the end, and what each
browser shows, and says how a screen may change: by the entry that follows, by a
fresh start, by a notice that the beginning is gone, by the whole archive, by the end,
after which nothing changes. Each cause in `marred` lifts one part of it. `ImplementsView`
is the refinement: under `settled <- status = "settled"` and `view <-` the screens,
every behaviour of `LogStream` is one of `LogView` (checked on an instance, and proved).

## 3. The runs

| run | instance | question |
| --- | --- | --- |
| `service_deploys` | 3 deployments, stops, watch sweep, no crash | does any interleaving of the deploy worker with the branches of the sweep leave the service pointing at a row that was not accepted, two rows watched, a settled row rewritten, or a row that runs and names another image than Swarm's? No; the last until two runners ship at once, a verdict comes early or late, or a step throws after Swarm was changed |
| `service_live` | 1 deployment, delete, start, restart, rollback, lost requests, sweeps that throw, a crash | is a building row always somebody's, does what began settle, does a queued delete end or say why not, is a crash loop answered? Yes |
| `service_orphan` | a watch branch during a delete | *violated*: the branch creates the Swarm service again after the teardown removed it |
| `stacks_ship` | 2 services, 3 deployments, rollbacks, reverts, delete, a crash | does a stack that reads running run its current deployment in every service, is every row in flight somebody's, does a teardown leave nothing? Yes, but for two actors at once, a late verdict, a redeploy that is cut off, and a teardown that removes what a branch is recording |
| `databases_passwords` | one database of each kind of engine, 2 passwords, rebuild, stop, delete, a crash, Swarm rollbacks | does what the row shows open the engine, is a row that reads running served, does nothing outlive the row, is no row in flight forgotten? Yes, but for the causes named |
| `images_retention` | keep 1; the registry with 3 deployments and rollbacks, with 3 and a crash, with 4; 2 hosts one of which may not answer | is what the history offers there, what it calls expired gone, the current image and the window spared? Yes, but for shared digests, reverts beside the sweep, and a deletion that is never marked |
| `previews_intake` | 2 pull requests, limit 1, deliveries over either hook, deletions, steps that throw; previews the operator deploys, starts and stops | does the limit hold, and do the previews end up those of the open pull requests? Yes, but for the causes named |
| `previews_nested` | 2 deliveries over a provider's hook | *violated*: the second makes a preview of the preview |
| `backup_retention` | database with dumps, deletions, lost requests; volume whose configuration is deleted, with restores or with a crash; volume with restores and a crash beside starts, deploys and the watch; keep 1, 3 runs | are the newest run and its object kept, is retention exact, one scheduled run in flight, no half restored volume served by a restore? Yes; a start, a deploy or the watch does serve it |
| `backup_undo` | database, restores, a crash | can a restore be undone whatever is redelivered; does a dump settle its row? Yes |
| `backup_source` | volume, keep 1 | *violated*: the safety backup prunes the run that is being restored |
| `log_stream` | 1 browser that reconnects, buffer of 2, 3 chunks, crash, expiry, lost messages | does LogStream implement LogView, is the end seen, does the hub follow its listeners? Yes |

Deadlock is not checked in any run: a service that was deleted, a log that ended, an
operator who asks for nothing more are ends the system may reach.

### Bounds, and why they are enough

- `MaxDeployments`: 3 rows are the least in which a watch branch reverts to a
  first row while a second is superseded by a third, and in which a sweep that keeps
  one image has a current one, a newest one and one to delete. A fourth row
  (`instance.rows`) lets the sweep delete an image while a revert to one before it
  is under way. In `service_live` 1,
  with every kind of operation around it; in `Databases` 1, because a
  row that has settled, or that no job is about, is never read again and its id serves
  once more (`Fresh`).
- `MaxRuns` 3 with `Keep` 1: a kept run, an excess one, and one in flight (or
  the safety backup of a restore) at once.
- `MaxServices` 2 with `PREVIEW_LIMIT` 1: one preview beyond the limit. `MaxEvents` 4: a
  pull request is opened, closed and reopened while another comes; 3 on the provider's
  route, where each delivery has a target per service, and beside an operator's own
  operations, where the third delivery meets what those brought back.
- `MaxPasswords` 2: the first and its successor. Of a third only the second's place
  as predecessor would be new, and `Rotate` treats every predecessor alike but the
  one of creation.
- `MaxQueue` bounds what is enqueued, never what BullMQ returns. One waiting job
  beside the active one lets a request overtake nothing but come at any time.
- `MaxCrashes` 1: the code has no memory of an earlier crash, but for BullMQ's
  count of stalls, which `again` is. A second crash after recovery meets the
  same code; inside recovery it is discussed in section 4.
- `MaxChunks` 3 with `Capacity` 2: the buffer overflows while a viewer that saw
  the first entry is away. `MaxConns` 2: the old handler of a browser and its new
  one.
- *Instances* (`MCBackupRuns`, `MCImageRetention`, `MCPreviews`): a behaviour is
  about one of a few instances, each of which leaves out what the question of the others
  needs. They are chosen in `Init` and never change.
- Symmetry is used over pull requests, over hosts and over the services of a stack,
  which no definition and no property tells apart, and in runs without liveness. (The
  code asks for the verdicts of a stack in the order of its file; `ReadVerdict` takes
  any order.) Ids are ordered by time and have none.

### Fairness, and why the code justifies it

Three runs have it: `service_live`, `backup_undo` and `log_stream`.

- Consumers run (`WF` on `TakeJob` and on each runner's steps): one Node process,
  every await of which ends in an answer, an error or a timeout.
- `SF` on an inspection that is *answered* (`Inspected`): a branch whose inspection
  throws is repeated every 30 seconds, and its only enemy is a Docker API that never
  answers again. Likewise `SF` on `InsertScheduled`, a sweep that finds its
  destination: it is repeated every five minutes.
- Recovery, redelivery and Swarm's own progress get `WF`; requests by operators,
  crashes, failing tasks and the clock get none.
- Requests that were begun are finished (`RequestMark \/ RequestEnqueue`,
  `TriggerEnqueue`), unless `lose` is among the `Requests`.
- In `LogStream` no step can be repeated for ever, so one `WF` on `Progress` (any
  step that goes on by itself) is all that is assumed.

`Databases`, `Stacks`, `ImageRetention` and `Previews` say what holds when nothing
moves any more (`Quiet`, `Still`) in place of liveness: every state in which
nobody is left to act must be a good one.

### What is abstracted

Postgres' single statements succeed or the worker dies; in `Previews` the
dashboard's may fail too. Swarm, the forge, the registry, the bucket, BullMQ, Redis
and ioredis are external and modelled from how the code uses them. Text,
domains, variables and sources change what is shipped, not how. `docker stack rm`
is one step that may remove some of the services and fail, and so is the look-up and deletion of a digest, which only the worker
that pushes could disturb.

## 4. What the code does not do

Three findings have runs of their own; the traces are what `tlc` prints.

- `NoOrphan`: `sweepWatch` ships in the schedule's queue. When a teardown removes
  the Swarm service after a branch read the row, the branch creates it again; the
  row goes, and nothing is left that knows the service.
- `SourceSurvives`: `restoreVolume` looks the object up, takes a safety backup with
  the configuration's id, whose retention deletes the oldest run, which may be the
  one being restored. With `keepLatestCount` 1 it always is.
- `OnePreview`: a preview copies its parent's repository, and `servicesOfRepository`
  takes every service of the repository for a target: over a git provider's hook
  each further delivery of a pull request makes a preview of each preview.

Others were met on the way. They are in the models, and each property excludes them
by name, or they are hazards with a note in `PROJECT.json`.

*Services.* Two acceptances that interleave may close each other's watch. A row
whose request was lost reads queued for ever, and so does a deploy that throws before
its `try`. A crash between the two writes of an acceptance leaves the service
deploying, and so does a crash inside recovery, which looks for stale deployments
first and has failed them by then. An update that outlives the deadline is
recorded as rolled back and may be served. A status patch may be written over a
service that is being deleted. The deletion of a service takes the rows of its
previews with it, by cascade, and leaves their Swarm services running.

*Stacks.* `redeployStack` has no `try`: what throws leaves its row deploying and some
services moved, under a stack that reads running. A rollback may be asked for to any
row with a compose file, also one whose build failed, and then throws. When Swarm
rolls back one service, the others stay updated under a refused deployment. A
deployment whose build fails records the failure, and with it the error of the stack,
while the branch of the sweep may be shipping the same stack.
`waitForStackGone` gives up after a minute without a word and the row goes anyway; when
its `listServices` throws instead, `docker stack rm` has removed the services and the row
stays, with the error. A branch that is past its rollout then marks the stack running and
clears the error, and no service is left (`removed`; the same when `docker stack rm` fails
after the first service).
Nothing prunes services a later file dropped. In the sweep the branches of
services are awaited before those of stacks begin, so one that throws skips them
for that round.

*Databases.* A rebuild whose volume stays in use says that the database was left
running as it was (database.ts:186), but the service is gone and the row reads
deploying. `markRunning` at the end of a provision writes over deleting. A stop that is
redelivered after the row is gone, or whose service is, throws and nobody records it.
A provision throws before its `try` when the password or a variable does not decrypt
(database.ts:41, :53) or Postgres does not answer: its row, and the database's, stay
queued and deploying, without an error, with nobody left (`untried`); a rebuild has
removed the service by then. A stop that Swarm took and whose answer is lost leaves the
row running (`unanswered`).
A job whose worker dies twice is failed by BullMQ and by nobody else (`abandoned`;
`cut` in `Stacks`): a stop that had scaled the service already leaves the row running.

*Passwords.* For mysql, mariadb and mongo a change that was cut off after the engine
took it cannot be redelivered: the password it authenticates with is the one it has
replaced. `rotateSecret` does not wait for Swarm's verdict, so a rollback of
that update leaves the row ahead of the spec. A `<name>-password` secret that
survived its rotation is taken for the right one by the next provision; so is one
that a failed provision had created and never mounted, once the password has been
changed. A delete after a
rotation does not know the name of the rotated secret and leaves it behind. The
connection URLs in the environments of attached services keep the old password
until they are deployed again.

*Images.* `deleteManifest` deletes a digest, and with it every tag a cached build gave
it, the current one included. Builds that failed count towards the window. A worker
that dies between the DELETE and the mark, an answer that is lost or a mark that throws
leaves a row that offers an image that is gone; the next sweep gets 404 and passes it
over (`cut`). `reconcile` takes the images of a
team's own registry for local ones and marks them purged. The daily prune takes the
host-local image of a service that is stopped. A sweep that read the pointer before
a revert records its own takes the image that revert has just made current
(`moved`). Neither a rollback nor a revert looks
whether its image is marked, and a redelivered build of a marked row keeps the
mark under its new image.

*Previews.* The live previews are counted and the next one inserted in two steps, so
two deliveries exceed the limit together. A preview that is being deleted is found by a
reopened pull request and marked deploying, and then removed by the delete job that
was queued before; a deployment that ends late, or a start or stop the operator
asked for, writes its status over deleting, and the preview counts again until it is
removed. A close that overtakes its open leaves a preview nobody closes. A `createPreview` that is cut off
leaves a preview without URL or variables, and the next push ships it so. (Not modelled:
the branch of the watch sweep may ship a preview that is being removed, like any
service, and leave it in Swarm.)

*Logs.* A second handler that subscribes while the first one's SUBSCRIBE is
unanswered reads the buffer too early and misses, for good, what is published before
Redis subscribed (redis.server.ts:43). After a worker's death no `end` is announced, nor (not modelled) when the look-up before
it throws (index.ts:86).
A counter that expired under a quiet build makes viewers discard what follows. A
viewer that connects after the row was settled may be told the end before the last
chunks have reached Redis; it reads the archive then, or nothing.

*Backups.* A worker that dies between an object and its row leaves a completed run
without one. A run whose connection fails before the `try` stays running until the
next start. A volume is restored without safety backup once its configuration is
gone. A volume that a restore left half written is scaled down, and nothing remembers
why: the next start, deploy or rollback serves it, and the watch does so even while the
restore is writing (`revived`). A scheduled run whose job Redis refuses
(backup-run/sweep.ts:70) stays queued, and the sweep, which finds it in flight, never
schedules that configuration again.

*API.* The answer of an idempotent request is looked up and stored in two steps; two
requests with one key that overlap are both handled.

## 5. What is proved

All from the named assumptions on the constants alone, for any values they allow.
Every argument has the same form: an inductive invariant that implies the property,
one lemma per action, and one temporal step. Each invariant was given to TLC on the
instances of the runs before it was proved.

`JobQueueProofs`, for the four components that share the queue: what `Enqueue`,
`Take`, `Finish`, `Die` and `ComesBack` do to a set all jobs are in, and to the jobs
that wait.

`ServiceDeployProofs`, from `BoundsAssumption`:

- `TypeCorrect`: `Spec => []TypeOK`. `TypeOK` is inductive as it stands: records that
  steps write are typed by one lemma each (`RowType`, `PatchType`, `LocalsType`,
  `UpdateType`, ...), and `TypeStep` has one step per action.
- `OwnerOfBuilding`: `Spec => []BuildingHasOwner`. A building row belongs to the
  worker or to its recovery. This is not inductive: the formula does not say
  where the worker stands, so it may be past its last write to that row. `Owned`
  is: while the process is up, a building row is the worker's `dep` and its counter is
  in `BuildPhase`, between the write of building and the next write to that row; a
  counter there belongs to a deploy job, so that `runDeploy` catches what is thrown;
  and no branch of the sweep ever starts a build. `OwnedStep` has one step per
  action; its lemmas say what `End`, `Goto` and `Update` may do to the rows of others.

- `HistoryIsFinal`: `Spec => SettledIsFinal`, an action property. Most steps write a
  status without looking at the one they replace, so it takes an invariant to say
  that it was not a settled one. `History` is one of ownership: a row that is
  written belongs to the deploy job that was asked for it or to the one redeploy
  that inserted it, never to both, since jobs name rows the dashboard inserted and
  a redeploy inserts rows of another trigger; and a branch of the sweep never looks at
  a row a redeploy is shipping. Until the worker first dies there is more: a row is
  asked for once and reads queued until its job is taken, and the row of a branch
  reads succeeded. A crash breaks this second part only, which is the exception
  the property states.
- `OneWatchedAlways`: `Spec => []OneWatched`. Two rows may be watched while an
  acceptance is under way. `Watched1` says of any two of them that a runner has
  accepted one of the two and has yet to close the watch of the others; in a quiet
  state there is no such runner, and so no second row.
- `CurrentAccepted`: `Spec => []CurrentWasAccepted`. `Pointing` follows the image from
  the row that built it (`JobImages`, `NothingLeft`) to the runner that ships it
  (`RunImages`), to the row that is pointed at (`CurrentImage`), which stays accepted
  until the first crash (`AcceptedStay`).
- `ServedAlways`: `Spec => []ServedIsRecorded`. While nothing disturbed it (`clean`,
  which implies that no worker died), at most one runner stands between a change to
  Swarm and its last write (`OneShips`), it ships the image of its row (`ShipsItsRow`), and
  `Serving` says what Swarm runs: what the row tells when no runner is amid a change
  (`AtRest`), what that runner knows when one is (`Amid`).

`DatabasesProofs`, from `DatabasesAssumption` and `QueueAssumption`. `IInv` is `Typed` (with the places a job of
each kind can stand at), `Owned` (a deploying row is the worker's), `TornDown` (of a
database that is gone neither service nor volume is left, and the worker ends where it
finds no row), `AboutToRun` (the worker is about to record
running only of a service it has brought up), `RunningIsMeant`, `NoneCameBack` (without
a crash no job is a second one) and `Remembered` (who is left to end what is in flight).

- `TypeCorrect`, `OwnerAlways` (`DeployingHasOwner`), `GoneForGood`
  (`GoneLeavesNothing`), `RunningServed` (`RunningIsServed`), `NoneForgotten`
  (`NothingForgotten`): from the part of `IInv` that is meant for each.
- `PasswordOpens`: `Spec => []CredentialsOpen`. `PasswordInv` follows one password through
  five places, each clause excused by the causes that break it: the secret of the fixed
  name holds what the row shows (`FixedFollows`), the spec mounts that or a rotated one
  that holds it (`MountFollows`, `MountThere`), the engine accepts what the row shows
  or, while a change is under way, what it is about to show (`EngineFollows`), and an
  engine that keeps its password in memory what its container was started with
  (`MemoryFollows`).

`StacksProofs`, from `StacksAssumption` and `QueueAssumption`. Beside the parts it has in common with
`DatabasesProofs`: `Alone` (one actor at a time ships, or the overlap is on record),
`ShipsRow` and `OwnImages` (an actor ships the images its row names, and which deployment
built them), `RolledOut` (the services a rollout is through with run its image) and
`RunningIsCurrent` (a stack that claims to run serves its current deployment, or somebody
is halfway to say so).

- `TypeCorrect`, `OwnerAlways` (`InFlightHasOwner`), `GoneForGood`
  (`GoneLeavesNothing`), `RunningServed` (`ServedIsCurrent`), `NoneForgotten`
  (`NothingForgotten`).

`ImageRetentionProofs`, from `ImageAssumption` and `QueueAssumption`:

- `TypeCorrect`, `PurgedAlwaysGone` (`PurgedIsGone`), `OfferedAlwaysThere`
  (`OfferedIsThere`). The cleaners act on a survey: `Surveyed` says what is still true of
  it, `Placed` where an image in the making is, `Fresh` that the tag of an unfinished
  build is on one row only, `Swept` and `Offered` that of a deleted tag every row is
  marked or about to be.
- `WindowKept` (`WindowSpared`) and `CurrentKept` (`CurrentSpared`): action properties,
  over the window and the pointer the sweep has read (`Pointed`). That a tag was
  beyond the window when the list was read says nothing of the moment it is deleted:
  `WindowStays` shows that `KEEP_PER_SERVICE` of the newer ones are not taken by that
  sweep, because the newest tag it takes has as many newer ones, none of which it takes.

`PreviewsProofs`, from `PreviewsAssumption` and `QueueAssumption`:

- `TypeCorrect`: the type invariant, with which column of a branch is meant at
  which step.
- `LimitHolds`: `Spec => []CapHolds`. `CapHolds` is not inductive: a branch that has
  counted and not inserted yet is about to add one. `Room` says that, until one of
  the causes has happened, there are at most `PREVIEW_LIMIT` live previews, at most
  one such branch, and room for its preview. Every step but five leaves the live
  previews and the counted branches alone or shrinks them (`RoomStays`); those five are
  `Count`, `Insert` and the three that may bring a preview back.
- `PreviewsFollow`: `Spec => []PreviewsFollowRequests`, what is true when nobody moves any
  more. `Follow` says what brings it about: of the branches that handle a pull request
  for the service there is one (`Alone`) and it does what the newest delivery said
  (`Newest`); what it looked up is still so when it acts on it (`Informed`); the rows
  and jobs are of the kinds a preview may have (`Rows`, `Works`); a row is complete by the
  time a job is queued for it (`Complete`); and a pull request nobody handles any
  more has what it should, or a job that sees to it (`Answered`).

`LogStreamProofs`, from `LogAssumption`. An entry is in up to six places on its way, and
each is read by somebody who does not see the others: the `wire`, the buffer, the feed of
the hub, what a handler keeps while it replays, its connection, and the screen. `IInv`
has a part for each of them and one for the calls that open and close the way.

- What is written: `DeployInv` (worker and row agree, and the wire continues the
  counter), `BufferInv` (the last entries, without a gap up to the counter), `FeedInv`
  and `Genuine` (whatever is under way was written, under its own number, which the
  counter has reached). All numbers hold while no counter expired under a build
  (`Steady`); a buffer that is gone for good after the end is `Expired`.
- Who listens: `CallInv` (a SUBSCRIBE is asked for and answered once, and its handler
  awaits it), `HubInv` (the hub has a set while somebody is in it or will join it, and the
  last of its commands says so to Redis) and `AloneInv` (until two handlers overlap, who
  awaits is alone, and who may still show something listens).
- What a listener has: `HeardInv`. The hub hears every number (`InStep`), and what a
  listener has read, kept or delivered goes up to the last one heard (`Follows`). Without
  it nothing says that the backlog and the channel, on two connections, overlap.
- What a browser sees: `Held` and `Framed` for the handler and its connection, and in
  `BrowserInv` what ties the two to the screen: every frame under way `Fits` behind the one
  before it, the first behind the last entry shown, and the next delivery behind them
  all; a `reset` is sent only to a browser whose last id the buffer will not come back to
  (`Stale`), which is why the archive and a new start never contradict what it had.

`Grows` says what no step takes back; with it most parts survive an action that does not
touch them. The rest is one lemma per action (`PublishKeeps`, `HearKeeps`, `ReplayKeeps`,
`ReceiveKeeps`, ...). `Replay` delivers a buffer and a backlog in one step, with a fold:
`DeliverAllSteps` and `AmongIs` say what the folds do element by element, for sequences
of any length, by an induction that goes through a smallest counterexample (`Counting`),
as the induction theorems of the library cannot be used here.

- `TypeCorrect`: `Spec => []TypeOK`, and `HubIsRight`: `Spec => []HubFollows`.
- `LogStreamImplementsView`: `Spec => ImplementsView`. `NextViews` maps every action: the
  screens change in `Receive` only, where each kind of frame is one action of `LogView`
  (`ReceiveViews`); `Write` is its own, `Settle` and `Recover` are `Settle`, what is added to
  `marred` is `Mar`, and all else is a stutter.
- `ShownInOrder` (`Spec => []View!Ordered`) and `ShownWhole` (`Spec => []View!Whole`): what
  follows from the refinement and the types. `LogView` has no bound on the log and knows nothing
  of Redis, so the two need only how a screen may change (`ViewMoves`), and lemmas about a
  sequence that grows at its end.

`BackupRunsProofs`, from `BackupAssumption`. Three parties write rows and objects
without a lock; `IInv` says what each may know. `Known`: jobs are about rows that were
inserted, and a backup job is not of a safety run. `Once` and `InHand`: until the worker
first dies a run waits in one place, the dashboard, the sweep, the queue or the worker,
so that the row in hand is the worker's own; for the safety run of a restore this holds
after a death as well, since no job asks for it.

- `TypeCorrect`, with which local of the worker is meant at which step (`Placed`).
- `KeptWhole` (`KeptHasObject`): `Whole` holds in the middle of a job as well, where the
  row of an object that was pruned is the one that goes next.
- `RetentionAlways` (`RetentionRespected`) and `NewestAlwaysKept` (`NewestKept`, an action
  property): `KeptAreFew` shows that what `findExcessRuns` spares is at most
  `keepLatestCount` runs, `ExcessHasNewer` that each of the others has as many newer ones
  that it spares. `Counted` keeps those until the last row is dropped, `Retained` carries
  the bound from one prune to the next, over runs the dashboard deletes and a
  configuration that goes.
- `OneScheduledAlways` (`OneScheduled`): between its look-up and its insert nobody but the
  sweep makes a scheduled run (`Swept`).
- `TornNeverServed` (`TornIsNotServed`): `Down`. While a restore has the volume open, or
  left it torn, the service is scaled down or another than a restore scaled it up, which
  `revived` remembers until the next restore scales it down.
- `SourceAlwaysSurvives`: `SourceSurvives` for a database. It does not hold for a volume,
  as `backup_source` shows: the safety run of a volume is of the configuration, that of
  a database is not (`Unlinked`), so that no prune runs while a database is restored
  and the object that was looked up stays (`Sourced`).
- `AlwaysReversible`: `RestoreIsReversible` for a database whose runs no operator deletes,
  after any number of crashes and redelivered restores. `Undoable` relates the place
  of the worker to the copy: the safety run has uploaded what is there, then it is
  completed, and only then is the first byte touched. The excluded request is no
  formality: an operator may delete the one copy there is.

Every safety property, action property and refinement that a passing run checks is
stated by a theorem, the two of `backup_undo` about restores for a database, as that run
has it. Model-checked only: liveness
(`BuildingSettles`, `DeleteSettles`, `CrashLoopAnswered`, `CaptureSettles`, `EndIsSeen`:
fairness and ENABLED are out of the prover's reach), and the three violations.

## 6. What could follow

- A `DeploymentLedger` of which the deploy paths of services, stacks and databases
  are three implementations.
- `Servers`: the look-up of a blocker against a placement that comes after it.
- A worker that crashes twice, in recovery: the code leaves a service, a stack or
  a database deploying then, which the exclusions `crashes < 2` and the bounds name.

## 7. Not modelled, and why

- *Registry trust, updates, installer, image build*: remote scripts, run one after
  the other and idempotent; the deploy path has a build as one step that yields an
  image or throws.
- *Servers*: one script per server, guarded by one look-up.
- *Git providers, repository hooks*: clients of HTTP APIs whose state is the forge's.
- *Control-plane backups*: a dump, and a restore that replaces the database in which
  everything modelled here lives, in one transaction.
- *Public API, dashboard queries, permissions, user interface, command line client*: requests
  that read, check and call what is modelled; access control is a function of a
  single request. They are most of the repository's lines.
- *Environments, variables, domains, projects, destinations, configurations*: rows
  edited in one request each, last writer wins.
- *Metrics, notifications, containers and terminal, SSH executor, encryption*: no
  state that two actors share, or pure functions over bytes.
