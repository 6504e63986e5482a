------------------------------ MODULE BackupRuns ------------------------------
(***************************************************************************)
(* Backups of one database, or of one volume of a service, under one backup *)
(* configuration: the dashboard and the sweep that ask for runs, the worker *)
(* of the deploy queue that dumps, uploads, prunes and restores, the rows   *)
(* in Postgres and the objects in the bucket.                               *)
(*                                                                          *)
(* A row and its object live in two stores, written in separate steps by    *)
(* three parties: the worker, the sweep in its own queue, the dashboard.    *)
(***************************************************************************)
EXTENDS Integers, Sequences, FiniteSets, FiniteSetsExt

CONSTANTS
    Instances,   \* what to check side by side, see Instance
    Keep,        \* keepLatestCount of the configuration, 0 for null
    MaxRuns,     \* bound: rows ever inserted
    MaxQueue     \* bound: jobs waiting when a request is enqueued

\* An instance: what is backed up, what operators do to it, and the bound on
\* crashes of the worker process.  A behaviour is about one of them.
RequestKinds == {"manual", "restore", "delete", "drop", "lose", "serve"}
Instance     == [subject : {"database", "volume"}, requests : SUBSET RequestKinds, crashes : Nat]

ASSUME BackupAssumption ==
    /\ Instances \subseteq Instance
    /\ Keep \in Nat
    /\ MaxRuns \in Nat \ {0}
    /\ MaxQueue \in Nat

Ids  == 1..MaxRuns   \* runs, in the order of createdAt
NoId == 0

VARIABLES
    instance,    \* one of Instances
    runs,        \* the rows of `backups' or `volume_backups'
    objects,     \* what the bucket holds under each run's object key
    config,      \* the configuration's row is there
    fired,       \* the newest run that is older than the last cron time
    submitting,  \* manual runs inserted and not enqueued yet
    erasing,     \* erasing[r]: how far deleteBackupRun got with run r
    queue,       \* jobs waiting on the deploy queue
    active,      \* the job the worker holds
    stalled,     \* the job a dead worker still holds the lock of
    at,          \* the worker's program counter and locals
    sweep,       \* the program counter and local of the backup sweep
    process,     \* the worker process: down or up
    crashes,     \* how often it crashed
    data,        \* what the database or the volume holds
    replicas,    \* replicas of the service that mounts the volume
    revived      \* it was a start, a deploy or the watch that scaled it up last

asks  == <<submitting, erasing>>
jobs  == <<queue, active, stalled>>
live  == <<data, replicas, revived>>
cron  == <<config, fired>>
store == <<runs, objects>>
host  == <<process, crashes>>
steps == <<store, cron, asks, jobs, at, sweep, host, live>>
vars  == <<instance, steps>>

Subject    == instance.subject
Requests   == instance.requests
MaxCrashes == instance.crashes

-----------------------------------------------------------------------------
(* Types *)

\* `original' is what operators and the service put there, `torn' a restore
\* that did not finish, `restored' one that did.
Data == {"original", "torn", "restored"}

\* An object is missing, cut off, or a whole copy of the data at that time.
Content == {"none", "partial"} \cup Data

InFlight == {"queued", "running"}

Run == [status : {"absent", "deleted", "completed", "failed"} \cup InFlight,
        kind   : {"manual", "scheduled", "pre_restore"},
        config : BOOLEAN]             \* configId is not null

NoRun == [status |-> "absent", kind |-> "manual", config |-> FALSE]

Job   == [kind : {"backup", "restore"}, run : Ids, again : BOOLEAN]
NoJob == [kind |-> "none", run |-> NoId, again |-> FALSE]

NewJob(kind, r) == [kind |-> kind, run |-> r, again |-> FALSE]

Counters ==
    { "idle",
      "load", "mark", "connect", "capture", "discard", "size", "complete",
      "prune", "object", "row", "fail",                        \* runBackupPipeline
      "source", "exists", "safety", "download",                \* runRestorePipeline
      "down", "wipe", "fill", "up" }                           \* apply

Locals == [pc : Counters, run : Ids \cup {NoId}, config : BOOLEAN, excess : SUBSET Ids]
Idle   == [pc |-> "idle", run |-> NoId, config |-> FALSE, excess |-> {}]

Sweep == [pc : {"idle", "inFlight", "due", "insert", "enqueue"}, run : Ids \cup {NoId}]
Rest  == [pc |-> "idle", run |-> NoId]

TypeOK ==
    /\ instance \in Instances
    /\ runs \in [Ids -> Run]
    /\ objects \in [Ids -> Content]
    /\ config \in BOOLEAN
    /\ fired \in Ids \cup {NoId}
    /\ submitting \subseteq Ids
    /\ erasing \in [Ids -> {"no", "object", "row", "erased"}]
    /\ queue \in Seq(Job)
    /\ active \in Job \cup {NoJob}
    /\ stalled \in Job \cup {NoJob}
    /\ at \in Locals
    /\ sweep \in Sweep
    /\ process \in {"down", "up"}
    /\ crashes \in 0..MaxCrashes
    /\ data \in Data
    /\ replicas \in {0, 1}
    /\ revived \in BOOLEAN

-----------------------------------------------------------------------------
(* Helpers *)

Exists(r) == runs[r].status \notin {"absent", "deleted"}

Fresh(r) == runs[r].status = "absent" /\ \A s \in Ids : s < r => runs[s].status # "absent"

Insert(r, kind, linked) ==
    runs' = [runs EXCEPT ![r] = [status |-> "queued", kind |-> kind, config |-> linked]]

\* UPDATE ... WHERE id = r: no row, no effect.
SetStatus(r, status) ==
    runs' = IF Exists(r) THEN [runs EXCEPT ![r].status = status] ELSE runs

Enqueue(kind, r) ==
    /\ Len(queue) < MaxQueue
    /\ queue' = Append(queue, NewJob(kind, r))
    /\ UNCHANGED <<active, stalled>>

Goto(pc) == at' = [at EXCEPT !.pc = pc]

\* Completed runs of the configuration.
Completed == {r \in Ids : runs[r].status = "completed" /\ runs[r].config}

\* Mutant: retention keeps the oldest.
ExcessOldest == {r \in Completed : Cardinality({s \in Completed : s < r}) >= Keep}

\* Mutant: one more is kept.
ExcessButOne == {r \in Completed : Cardinality({s \in Completed : s > r}) > Keep}

\* findExcessRuns: all but the newest keepLatestCount.
Excess == {r \in Completed : Cardinality({s \in Completed : s > r}) >= Keep}

\* The job is over, whether it returned or threw.
End ==
    /\ at' = Idle
    /\ active' = NoJob
    /\ UNCHANGED <<queue, stalled>>

\* A throw that changes nothing.
Throw == End /\ UNCHANGED <<store, cron, asks, sweep, host, live>>

\* runBackupPipeline returned: the backup job ends, a restore goes on.
Return ==
    IF active.kind = "restore"
    THEN at' = [Idle EXCEPT !.pc = "download"] /\ UNCHANGED jobs
    ELSE End

-----------------------------------------------------------------------------
(* The dashboard and the clock *)

\* triggerBackup, triggerVolumeBackup: insert, then enqueue.
TriggerInsert(r) ==
    /\ "manual" \in Requests
    /\ config
    /\ Fresh(r)
    /\ Insert(r, "manual", TRUE)
    /\ submitting' = submitting \cup {r}
    /\ UNCHANGED <<objects, cron, erasing, jobs, at, sweep, host, live>>

TriggerEnqueue(r) ==
    /\ r \in submitting
    /\ Enqueue("backup", r)
    /\ submitting' = submitting \ {r}
    /\ UNCHANGED <<store, cron, erasing, at, sweep, host, live>>

\* The dashboard stops, or Redis refuses the job, in between.
TriggerLost(r) ==
    /\ "lose" \in Requests
    /\ r \in submitting
    /\ submitting' = submitting \ {r}
    /\ UNCHANGED <<store, cron, erasing, jobs, at, sweep, host, live>>

\* deleteBackupRun: read the status, delete the object, drop the row.
EraseRead(r) ==
    /\ "delete" \in Requests
    /\ runs[r].status \in {"completed", "failed"}
    /\ erasing[r] = "no"
    /\ erasing' = [erasing EXCEPT ![r] = "object"]
    /\ UNCHANGED <<store, cron, submitting, jobs, at, sweep, host, live>>

EraseObject(r) ==
    /\ erasing[r] = "object"
    /\ objects' \in {objects, [objects EXCEPT ![r] = "none"]}
    /\ erasing' = [erasing EXCEPT ![r] = "row"]
    /\ UNCHANGED <<runs, cron, submitting, jobs, at, sweep, host, live>>

EraseRow(r) ==
    /\ erasing[r] = "row"
    /\ SetStatus(r, "deleted")
    /\ erasing' = [erasing EXCEPT ![r] = "erased"]
    /\ UNCHANGED <<objects, cron, submitting, jobs, at, sweep, host, live>>

\* triggerRestore, triggerVolumeRestore of a run.
TriggerRestore(r) ==
    /\ "restore" \in Requests
    /\ runs[r].status = "completed"
    /\ Enqueue("restore", r)
    /\ UNCHANGED <<store, cron, asks, at, sweep, host, live>>

\* deleteBackupConfig: configId becomes null.
DropConfig ==
    /\ "drop" \in Requests
    /\ config
    /\ config' = FALSE
    /\ runs' = [r \in Ids |-> [runs[r] EXCEPT !.config = FALSE]]
    /\ UNCHANGED <<objects, fired, asks, jobs, at, sweep, host, live>>

\* A cron time passes.
CronFires ==
    /\ fired' = Cardinality({r \in Ids : runs[r].status # "absent"})
    /\ fired' # fired
    /\ UNCHANGED <<store, config, asks, jobs, at, sweep, host, live>>

Dashboard ==
    \/ \E r \in Ids : \/ TriggerInsert(r) \/ TriggerEnqueue(r) \/ TriggerLost(r)
                      \/ EraseRead(r) \/ EraseObject(r) \/ EraseRow(r)
                      \/ TriggerRestore(r)
    \/ DropConfig
    \/ CronFires

-----------------------------------------------------------------------------
(* sweepBackupConfigs, a job of its own queue *)

\* loadEnabledConfigs
StartSweep ==
    /\ process = "up"
    /\ sweep.pc = "idle"
    /\ config
    /\ sweep' = [Rest EXCEPT !.pc = "inFlight"]
    /\ UNCHANGED <<store, cron, asks, jobs, at, host, live>>

\* Mutant: a queued run does not count.
FindRunning ==
    /\ sweep.pc = "inFlight"
    /\ sweep' = IF \E r \in Ids : runs[r].config /\ runs[r].status = "running"
                THEN Rest ELSE [sweep EXCEPT !.pc = "due"]
    /\ UNCHANGED <<store, cron, asks, jobs, at, host, live>>

\* findInFlight
FindInFlight ==
    /\ sweep.pc = "inFlight"
    /\ sweep' = IF \E r \in Ids : runs[r].config /\ runs[r].status \in InFlight
                THEN Rest ELSE [sweep EXCEPT !.pc = "due"]
    /\ UNCHANGED <<store, cron, asks, jobs, at, host, live>>

\* isConfigDue: the newest completed run is older than the last cron time.
Due == \A r \in Completed : r <= fired

\* findLastCompletedAt and isConfigDue
CheckDue ==
    /\ sweep.pc = "due"
    /\ sweep' = IF Due THEN [sweep EXCEPT !.pc = "insert"] ELSE Rest
    /\ UNCHANGED <<store, cron, asks, jobs, at, host, live>>

\* Mutant: enqueues what was not inserted.
InsertScheduledUnchecked ==
    /\ sweep.pc = "insert"
    /\ \/ sweep' = [Rest EXCEPT !.pc = "enqueue"] /\ UNCHANGED runs
       \/ \E r \in Ids :
            /\ config
            /\ Fresh(r)
            /\ Insert(r, "scheduled", TRUE)
            /\ sweep' = [pc |-> "enqueue", run |-> r]
    /\ UNCHANGED <<objects, cron, asks, jobs, at, host, live>>

\* resolveDestinationRow and insertScheduled; either may throw.
InsertScheduled ==
    /\ sweep.pc = "insert"
    /\ \/ sweep' = Rest /\ UNCHANGED runs
       \/ \E r \in Ids :
            /\ config
            /\ Fresh(r)
            /\ Insert(r, "scheduled", TRUE)
            /\ sweep' = [pc |-> "enqueue", run |-> r]
    /\ UNCHANGED <<objects, cron, asks, jobs, at, host, live>>

\* Redis may refuse the job; then the row stays queued.
EnqueueScheduled ==
    /\ sweep.pc = "enqueue"
    /\ Enqueue("backup", sweep.run) \/ UNCHANGED jobs
    /\ sweep' = Rest
    /\ UNCHANGED <<store, cron, asks, at, host, live>>

SweepStep == FindInFlight \/ CheckDue \/ InsertScheduled \/ EnqueueScheduled

-----------------------------------------------------------------------------
(* runBackupPipeline *)

TakeJob ==
    /\ process = "up"
    /\ active = NoJob
    /\ queue # <<>>
    /\ active' = Head(queue)
    /\ queue' = Tail(queue)
    /\ at' = IF Head(queue).kind = "backup"
             THEN [Idle EXCEPT !.pc = "load", !.run = Head(queue).run]
             ELSE [Idle EXCEPT !.pc = "source"]
    /\ UNCHANGED <<store, cron, asks, stalled, sweep, host, live>>

\* loadRun and resolveDestination, both before anything is written.
Load ==
    /\ at.pc = "load"
    /\ \/ Throw
       \/ /\ Exists(at.run)
          /\ at' = [at EXCEPT !.pc = "mark", !.config = runs[at.run].config]
          /\ UNCHANGED <<store, cron, asks, jobs, sweep, host, live>>

MarkRunning ==
    /\ at.pc = "mark"
    /\ SetStatus(at.run, "running")
    /\ Goto("connect")
    /\ UNCHANGED <<objects, cron, asks, jobs, sweep, host, live>>

\* connectTo runs before the try: the row stays running.
Connect ==
    /\ at.pc = "connect"
    /\ \/ Throw
       \/ Goto("capture") /\ UNCHANGED <<store, cron, asks, jobs, sweep, host, live>>

\* The upload ends with the dump's output, whatever the dump's exit code; an
\* upload that fails leaves the key as it was.
Capture ==
    /\ at.pc = "capture"
    /\ \/ objects' = [objects EXCEPT ![at.run] = data] /\ Goto("size")
       \/ objects' = [objects EXCEPT ![at.run] = "partial"] /\ Goto("discard")
       \/ UNCHANGED objects /\ Goto("fail")
    /\ UNCHANGED <<runs, cron, asks, jobs, sweep, host, live>>

\* Mutant: the exit code of the dump is ignored.
DiscardIgnored ==
    /\ at.pc = "discard"
    /\ Goto("size")
    /\ UNCHANGED <<store, cron, asks, jobs, sweep, host, live>>

\* The exit code is not 0: delete the object, ignoring an error.
Discard ==
    /\ at.pc = "discard"
    /\ objects' \in {objects, [objects EXCEPT ![at.run] = "none"]}
    /\ Goto("fail")
    /\ UNCHANGED <<runs, cron, asks, jobs, sweep, host, live>>

\* uploadedSize throws when the object is not there or the bucket is not.
UploadedSize ==
    /\ at.pc = "size"
    /\ \/ objects[at.run] # "none" /\ Goto("complete")
       \/ Goto("fail")
    /\ UNCHANGED <<store, cron, asks, jobs, sweep, host, live>>

MarkCompleted ==
    /\ at.pc = "complete"
    /\ SetStatus(at.run, "completed")
    /\ Goto("prune")
    /\ UNCHANGED <<objects, cron, asks, jobs, sweep, host, live>>

\* Mutant: a safety backup that fails does not stop the restore.
MarkFailedOnly ==
    /\ at.pc = "fail"
    /\ SetStatus(at.run, "failed")
    /\ Return
    /\ UNCHANGED <<objects, cron, asks, sweep, host, live>>

MarkFailed ==
    /\ at.pc = "fail"
    /\ SetStatus(at.run, "failed")
    /\ End
    /\ UNCHANGED <<objects, cron, asks, sweep, host, live>>

\* pruneBackupRuns: which runs are one too many, ...
FindExcess ==
    /\ at.pc = "prune"
    /\ LET excess == IF at.config /\ config /\ Keep > 0 THEN Excess ELSE {} IN
       \/ /\ excess = {}
          /\ Return
       \/ /\ excess # {}
          /\ at' = [at EXCEPT !.pc = "object", !.excess = excess]
          /\ UNCHANGED jobs
    /\ UNCHANGED <<store, cron, asks, sweep, host, live>>

\* ... and for each its object, ignoring an error, ...
PruneObject ==
    /\ at.pc = "object"
    /\ objects' \in {objects, [objects EXCEPT ![Max(at.excess)] = "none"]}
    /\ Goto("row")
    /\ UNCHANGED <<runs, cron, asks, jobs, sweep, host, live>>

\* ... then its row.
PruneRow ==
    /\ at.pc = "row"
    /\ SetStatus(Max(at.excess), "deleted")
    /\ LET rest == at.excess \ {Max(at.excess)} IN
       \/ /\ rest = {}
          /\ Return
       \/ /\ rest # {}
          /\ at' = [at EXCEPT !.pc = "object", !.excess = rest]
          /\ UNCHANGED jobs
    /\ UNCHANGED <<objects, cron, asks, sweep, host, live>>

Backup ==
    \/ Load \/ MarkRunning \/ Connect \/ Capture \/ Discard \/ UploadedSize
    \/ MarkCompleted \/ MarkFailed \/ FindExcess \/ PruneObject \/ PruneRow

-----------------------------------------------------------------------------
(* runRestorePipeline *)

\* load and resolveSource: only a completed run is restored.
ResolveSource ==
    /\ at.pc = "source"
    /\ \/ Throw
       \/ /\ runs[active.run].status = "completed"
          /\ at' = [at EXCEPT !.pc = "exists", !.config = runs[active.run].config]
          /\ UNCHANGED <<store, cron, asks, jobs, sweep, host, live>>

ObjectExists ==
    /\ at.pc = "exists"
    /\ \/ Throw
       \/ /\ objects[active.run] # "none"
          /\ Goto("safety")
          /\ UNCHANGED <<store, cron, asks, jobs, sweep, host, live>>

\* Mutant: every safety backup is tied to the configuration.
SafetyBackupLinked ==
    /\ at.pc = "safety"
    /\ \E r \in Ids :
         /\ Fresh(r)
         /\ Insert(r, "pre_restore", at.config /\ config)
         /\ at' = [Idle EXCEPT !.pc = "load", !.run = r]
    /\ UNCHANGED <<objects, cron, asks, jobs, sweep, host, live>>

\* safetyBackup inserts a run and runs the backup pipeline on it.  Only a
\* database's is always taken, and only a volume's is tied to the
\* configuration.
SafetyBackup ==
    /\ at.pc = "safety"
    /\ \/ Throw
       \/ /\ Subject = "database" \/ (at.config /\ config)
          /\ \E r \in Ids :
               /\ Fresh(r)
               /\ Insert(r, "pre_restore", Subject = "volume")
               /\ at' = [Idle EXCEPT !.pc = "load", !.run = r]
          /\ UNCHANGED <<objects, cron, asks, jobs, sweep, host, live>>
       \/ /\ Subject = "volume"
          /\ ~(at.config /\ config)
          /\ Goto("download")
          /\ UNCHANGED <<store, cron, asks, jobs, sweep, host, live>>

DownloadStream ==
    /\ at.pc = "download"
    /\ \/ Throw
       \/ /\ objects[active.run] # "none"
          /\ Goto(IF Subject = "volume" THEN "down" ELSE "wipe")
          /\ UNCHANGED <<store, cron, asks, jobs, sweep, host, live>>

\* applyVolumeRestore scales the service to 0; that it did not get there is
\* thrown after the change.
ScaleDown ==
    /\ at.pc = "down"
    /\ \/ Throw
       \/ /\ replicas' = 0
          /\ revived' = FALSE
          /\ \/ Goto("wipe") /\ UNCHANGED jobs
             \/ End
          /\ UNCHANGED <<store, cron, asks, sweep, host, data>>

\* The old contents go first.
Wipe ==
    /\ at.pc = "wipe"
    /\ \/ Throw
       \/ /\ data' = "torn"
          /\ Goto("fill")
          /\ UNCHANGED <<store, cron, asks, jobs, sweep, host, replicas, revived>>

\* Mutant: scales back up whatever happened.
FillFinally ==
    /\ at.pc = "fill"
    /\ \/ /\ Goto("up")
          /\ UNCHANGED <<store, cron, asks, jobs, sweep, host, live>>
       \/ /\ data' = "restored"
          /\ IF Subject = "volume" THEN Goto("up") /\ UNCHANGED jobs ELSE End
          /\ UNCHANGED <<store, cron, asks, sweep, host, replicas, revived>>

Fill ==
    /\ at.pc = "fill"
    /\ \/ Throw
       \/ /\ data' = "restored"
          /\ IF Subject = "volume" THEN Goto("up") /\ UNCHANGED jobs ELSE End
          /\ UNCHANGED <<store, cron, asks, sweep, host, replicas, revived>>

ScaleUp ==
    /\ at.pc = "up"
    /\ \/ Throw
       \/ /\ replicas' = 1
          /\ revived' = FALSE
          /\ End
          /\ UNCHANGED <<store, cron, asks, sweep, host, data>>

Restore ==
    \/ ResolveSource \/ ObjectExists \/ SafetyBackup \/ DownloadStream
    \/ ScaleDown \/ Wipe \/ Fill \/ ScaleUp

-----------------------------------------------------------------------------
(* Others that scale the service that mounts the volume *)

\* Jobs of the same queue, which takes one at a time: a stop scales it to 0; a
\* start, a deploy and a rollback to 1.  None asks what the volume holds.
RunOtherJob ==
    /\ "serve" \in Requests
    /\ Subject = "volume"
    /\ process = "up"
    /\ active = NoJob
    /\ replicas' \in {0, 1}
    /\ revived' = (replicas' = 1)
    /\ UNCHANGED <<store, cron, asks, jobs, at, sweep, host, data>>

\* redeployImage of the watch, in a queue of its own, beside the restore.
WatchRedeploys ==
    /\ "serve" \in Requests
    /\ Subject = "volume"
    /\ process = "up"
    /\ replicas' = 1
    /\ revived' = TRUE
    /\ UNCHANGED <<store, cron, asks, jobs, at, sweep, host, data>>

-----------------------------------------------------------------------------
(* The worker process dies and comes back *)

Crash ==
    /\ process = "up"
    /\ crashes < MaxCrashes
    /\ crashes' = crashes + 1
    /\ process' = "down"
    /\ at' = Idle
    /\ sweep' = Rest
    /\ active' = NoJob
    /\ stalled' = IF active = NoJob \/ active.again THEN stalled ELSE active
    /\ UNCHANGED <<store, cron, asks, queue, live>>

\* Mutant: a restart leaves the rows alone.
RecoverNothing ==
    /\ process = "down"
    /\ process' = "up"
    /\ UNCHANGED <<store, cron, asks, jobs, at, sweep, crashes, live>>

\* recoverStaleBackupRuns, before any consumer starts.
RecoverRuns ==
    /\ process = "down"
    /\ runs' = [r \in Ids |-> IF runs[r].status = "running"
                              THEN [runs[r] EXCEPT !.status = "failed"] ELSE runs[r]]
    /\ process' = "up"
    /\ UNCHANGED <<objects, cron, asks, jobs, at, sweep, crashes, live>>

\* BullMQ returns a job whose lock ran out to the head of the queue, once.
StalledJobReturns ==
    /\ process = "up"
    /\ stalled # NoJob
    /\ queue' = <<[stalled EXCEPT !.again = TRUE]>> \o queue
    /\ stalled' = NoJob
    /\ UNCHANGED <<store, cron, asks, active, at, sweep, host, live>>

-----------------------------------------------------------------------------
Init ==
    /\ instance \in Instances
    /\ runs = [r \in Ids |-> NoRun]
    /\ objects = [r \in Ids |-> "none"]
    /\ config = TRUE
    /\ fired = NoId
    /\ submitting = {}
    /\ erasing = [r \in Ids |-> "no"]
    /\ queue = <<>>
    /\ active = NoJob
    /\ stalled = NoJob
    /\ at = Idle
    /\ sweep = Rest
    /\ process = "up"
    /\ crashes = 0
    /\ data = "original"
    /\ replicas = 1
    /\ revived = FALSE

Step ==
    \/ Dashboard
    \/ StartSweep \/ SweepStep
    \/ TakeJob \/ Backup \/ Restore
    \/ RunOtherJob \/ WatchRedeploys
    \/ Crash \/ RecoverRuns \/ StalledJobReturns

Next == Step /\ UNCHANGED instance

Spec == Init /\ [][Next]_vars

\* The worker and the sweep run, a sweep that is repeated every five minutes
\* finds its destination some time, and the dashboard finishes what it began;
\* the operators, the clock and crashes owe nothing.
Fairness ==
    /\ SF_steps(InsertScheduled /\ sweep'.pc = "enqueue")
    /\ WF_steps(TakeJob)
    /\ WF_steps(Backup \/ Restore)
    /\ WF_steps(StartSweep \/ SweepStep)
    /\ WF_steps(RecoverRuns)
    /\ WF_steps(StalledJobReturns)
    /\ \A r \in Ids : WF_steps(TriggerEnqueue(r))

FairSpec == Spec /\ Fairness
-----------------------------------------------------------------------------
(* Properties *)

\* Whenever the worker is done, and none has died, a completed run that
\* retention keeps and nobody deletes has a whole object: neither a cut-off upload, nor an object that
\* pruneBackupRuns removed for a row that stayed.
KeptHasObject ==
    at.pc = "idle" /\ crashes = 0 =>
        \A r \in Ids :
            runs[r].status = "completed" /\ erasing[r] = "no" /\ (Keep > 0 => r \notin Excess)
                => objects[r] \in Data

\* When the worker is done, retention is respected, also by manual runs and by
\* the safety backups of a volume.
RetentionRespected ==
    at.pc = "idle" /\ crashes = 0 /\ config /\ Keep > 0 => Cardinality(Completed) <= Keep

\* Retention drops a row only for keepLatestCount newer ones; those an
\* operator deletes at the same time are counted, for the excess was read
\* before.
NewestKept ==
    [][\A r \in Ids :
         runs[r].status = "completed" /\ runs'[r].status = "deleted" /\ erasing[r] # "row" =>
           Cardinality({s \in Ids : /\ s > r
                                    /\ runs[s].status = "completed" \/ erasing[s] # "no"}) >= Keep]_vars

\* The sweep looks for a run in flight and inserts one in two steps, and still
\* at most one scheduled run is queued or running, until a worker dies.
OneScheduled ==
    crashes = 0 => Cardinality({r \in Ids : /\ runs[r].kind = "scheduled"
                                            /\ runs[r].status \in InFlight}) <= 1

\* The restore dialog: a safety dump first, so you can undo the restore.  Once
\* a restore changed the data, a completed safety backup holds what was there
\* before, whatever was redelivered, pruned or failed since.
RestoreIsReversible ==
    data # "original" =>
        \E r \in Ids : /\ runs[r].kind = "pre_restore"
                       /\ runs[r].status = "completed"
                       /\ objects[r] = "original"

\* The object that is restored is still there when it is downloaded: the
\* safety backup, which runs after it was looked up, does not prune it.
SourceSurvives ==
    at.pc = "download" /\ erasing[active.run] = "no" => objects[active.run] # "none"

\* A run whose dump began is settled, by the pipeline or by the recovery of a
\* worker that died in it.
CaptureSettles ==
    \A r \in Ids : at.pc = "capture" /\ at.run = r ~>
        runs[r].status \in {"completed", "failed", "deleted"}

\* No restore serves a volume that one left half restored: whatever fails, is
\* redelivered or asked for in between, the service stays scaled down until a
\* restore completes, or another scales it up.  For a start, a deploy, a rollback
\* and the redeploy of the watch do, also in the middle of a restore.
TornIsNotServed == Subject = "volume" /\ data = "torn" => replicas = 0 \/ revived
=============================================================================
