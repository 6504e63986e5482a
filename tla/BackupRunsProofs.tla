---------------------------- MODULE BackupRunsProofs ----------------------------
(***************************************************************************)
(* Theorems about BackupRuns, for databases and volumes, any number of      *)
(* runs, any keepLatestCount, any queue bound, any number of crashes and    *)
(* any set of requests.                                                     *)
(*                                                                          *)
(* The three parties write the same rows and objects, and nothing locks     *)
(* them.  What keeps them apart is what each of them may know:              *)
(*   - a run waits in one place at a time, the dashboard, the sweep, the    *)
(*     queue or the worker, so that the row the worker has in hand is its   *)
(*     own; a worker that died breaks this for dumps, never for the safety  *)
(*     run of a restore, which no job asks to be dumped,                     *)
(*   - what retention found in excess has keepLatestCount newer runs that   *)
(*     are not, and those stay until it is dropped, and                     *)
(*   - the safety run of a database is not of the configuration, so that no *)
(*     prune finds it, and while a restore is under way none runs at all.   *)
(***************************************************************************)
EXTENDS BackupRuns, FiniteSetTheorems, SequenceTheorems, WellFoundedInduction, TLAPS

-----------------------------------------------------------------------------
\* The steps of the two pipelines.
Dumping   == { "load", "mark", "connect", "capture", "discard", "size", "complete",
               "prune", "object", "row", "fail" }
Restoring == { "source", "exists", "safety", "download", "down", "wipe", "fill", "up" }

\* The worker holds a job exactly while it is somewhere in it, and knows what
\* the step it is at is about; a process that is down holds nothing.
Placed ==
    /\ at.pc = "idle" <=> active = NoJob
    /\ at.pc \in Dumping => at.run \in Ids
    /\ at.pc \in Restoring => active.kind = "restore"
    /\ at.pc \in {"object", "row"} => at.excess # {}
    /\ at.pc \notin {"object", "row"} => at.excess = {}
    /\ sweep.pc = "enqueue" => sweep.run \in Ids
    /\ process = "down" => at.pc = "idle" /\ sweep = Rest /\ crashes > 0
    /\ crashes = 0 => stalled = NoJob

Typed == TypeOK /\ Placed

\* A job is about a run that was inserted; a backup is not of a run that is the
\* safety of a restore, the safety run of a restore is.
Proper == {job \in Job : /\ runs[job.run].status # "absent"
                         /\ job.kind = "backup" => runs[job.run].kind # "pre_restore"}
KnownJobs ==
    /\ queue \in Seq(Proper)
    /\ active \in Proper \cup {NoJob}
    /\ stalled \in Proper \cup {NoJob}
KnownAsks ==
    /\ \A r \in submitting : runs[r].status # "absent" /\ runs[r].kind = "manual"
    /\ sweep.pc = "enqueue" => runs[sweep.run].status # "absent" /\ runs[sweep.run].kind = "scheduled"
    /\ \A r \in Ids : erasing[r] # "no" => runs[r].status # "absent"
    /\ \A r \in Ids : runs[r].status = "absent" => runs[r] = NoRun
KnownHand ==
    /\ at.pc \in Dumping =>
         /\ runs[at.run].status # "absent"
         /\ active.kind = "backup" => at.run = active.run
         /\ active.kind = "restore" => runs[at.run].kind = "pre_restore"
    /\ \A r \in at.excess : runs[r].status \in {"completed", "deleted"}
Known == KnownJobs /\ KnownAsks /\ KnownHand

\* The run in hand is the worker's alone: always a safety run, every run until
\* the worker first dies, when a run may be asked for twice.
InHand ==
    at.pc \in Dumping /\ (active.kind = "restore" \/ crashes = 0) =>
        /\ at.pc \in {"load", "mark"} => runs[at.run].status = "queued"
        /\ at.pc \in {"connect", "capture", "discard", "size", "complete", "fail"} =>
             runs[at.run].status = "running"
        /\ at.pc \notin {"prune", "object", "row"} => erasing[at.run] = "no"

\* Until then, a run waits to be dumped in one place only.
Waits(i) == i \in DOMAIN queue /\ queue[i].kind = "backup"
Once ==
    crashes = 0 =>
        /\ \A i \in DOMAIN queue : Waits(i) =>
             /\ runs[queue[i].run].status = "queued"
             /\ queue[i].run \notin submitting
             /\ sweep.pc = "enqueue" => queue[i].run # sweep.run
             /\ at.pc \in Dumping => queue[i].run # at.run
        /\ \A i, j \in DOMAIN queue : Waits(i) /\ Waits(j) /\ queue[i].run = queue[j].run => i = j
        /\ \A r \in submitting :
             runs[r].status = "queued" /\ (at.pc \in Dumping => r # at.run)
        /\ sweep.pc = "enqueue" =>
             runs[sweep.run].status = "queued" /\ (at.pc \in Dumping => sweep.run # at.run)
        /\ \A r \in Ids : erasing[r] # "no" => runs[r].status \in {"completed", "failed", "deleted"}

\* A completed run nobody deletes has a whole object, but for the one whose
\* row goes next.
Whole ==
    crashes = 0 =>
        /\ at.pc \in {"size", "complete"} => objects[at.run] \in Data
        /\ \A r \in Ids :
             /\ runs[r].status = "completed" /\ erasing[r] = "no"
             /\ ~(at.pc = "row" /\ r = Max(at.excess))
             => objects[r] \in Data

\* What retention is about to drop has enough newer runs that stay, or that an
\* operator deletes.
Held(r) == {s \in Ids : s > r /\ s \notin at.excess /\ (runs[s].status = "completed" \/ erasing[s] # "no")}
Counted == \A r \in at.excess : Cardinality(Held(r)) >= Keep

\* The worker knows whether the run is of the configuration; once it has
\* pruned, no more than Keep are.
Linked ==
    config => /\ at.pc \in Dumping \ {"load"} => at.config = runs[at.run].config
              /\ \A r \in Ids : runs[r].kind = "scheduled" => runs[r].config
Retained ==
    crashes = 0 /\ config /\ Keep > 0 /\ (at.pc # "prune" \/ ~at.config) =>
        Cardinality(Completed \ at.excess) <= Keep

\* The one sweep inserts a scheduled run only while there is none.
Scheduled == {r \in Ids : runs[r].kind = "scheduled" /\ runs[r].status \in InFlight}
Swept ==
    crashes = 0 =>
        /\ \A r, s \in Scheduled : r = s
        /\ sweep.pc \in {"due", "insert"} /\ config => Scheduled = {}

\* A restore of a volume wipes what is scaled down, or was scaled up by another
\* since, and scales up what it filled.
Down ==
    Subject = "volume" =>
        /\ data = "torn" => replicas = 0 \/ revived
        /\ at.pc \in {"wipe", "fill"} => replicas = 0 \/ revived
        /\ at.pc = "up" => data = "restored"

\* The safety run of a database is not of the configuration, so that nothing
\* prunes while a restore is under way.
Unlinked ==
    Subject = "database" =>
        /\ \A r \in Ids : runs[r].kind = "pre_restore" => ~runs[r].config
        /\ \A r \in at.excess : runs[r].kind # "pre_restore"
        /\ active.kind = "restore" /\ at.pc \in Dumping =>
             ~runs[at.run].config /\ (at.pc # "load" => ~at.config) /\ at.pc \notin {"object", "row"}

\* The source of a restore is not its safety run, and has its object.
Sourced ==
    /\ active.kind = "restore" /\ at.pc \in Dumping => at.run # active.run
    /\ Subject = "database" /\ active.kind = "restore" /\ at.pc \notin {"source", "exists"}
         /\ erasing[active.run] = "no" => objects[active.run] # "none"

\* A copy of what was there before the first restore.
Copies == {r \in Ids : /\ runs[r].kind = "pre_restore" /\ runs[r].status = "completed"
                       /\ objects[r] = "original"}
Undoable ==
    Subject = "database" /\ "delete" \notin Requests =>
        /\ \A r \in Ids : erasing[r] = "no"
        /\ data # "original" => Copies # {}
        /\ at.pc \in {"download", "wipe", "fill"} => Copies # {}
        /\ active.kind = "restore" /\ at.pc = "prune" => Copies # {}
        /\ active.kind = "restore" /\ at.pc \in {"size", "complete"} /\ data = "original" =>
             objects[at.run] = "original"
        /\ at.pc \notin {"down", "up"}
-----------------------------------------------------------------------------
(* Types *)

\* Initially all of it has its type, and nobody is at work.
LEMMA InitTyped == Init => Typed
<1> SUFFICES ASSUME Init PROVE Typed
    OBVIOUS
<1>1. NoRun \in Run /\ Idle \in Locals /\ Rest \in Sweep
    BY DEF NoRun, Run, Idle, Locals, Counters, Rest, Sweep, InFlight
<1>2. MaxCrashes \in Nat
    BY BackupAssumption DEF Init, Instance, MaxCrashes
<1>3. queue \in Seq(Job)
    BY DEF Init
<1>4. TypeOK
  <2>1. runs \in [Ids -> Run] /\ objects \in [Ids -> Content] /\ erasing \in [Ids -> {"no", "object", "row", "erased"}]
      BY <1>1 DEF Init, Content
  <2>2. data \in Data /\ replicas \in {0, 1} /\ revived \in BOOLEAN
      BY DEF Init, Data
  <2> QED BY <1>1, <1>2, <1>3, <2>1, <2>2 DEF Init, TypeOK
<1>5. Placed
    BY DEF Init, Placed, Idle, Dumping, Restoring, Rest, NoJob
<1> QED BY <1>4, <1>5 DEF Typed

\* What Insert, SetStatus and Goto change.
LEMMA Inserted ==
    ASSUME runs \in [Ids -> Run], NEW r \in Ids, Fresh(r),
           NEW kind \in {"manual", "scheduled", "pre_restore"}, NEW linked \in BOOLEAN,
           Insert(r, kind, linked)
    PROVE  /\ runs' \in [Ids -> Run]
           /\ runs[r].status = "absent" /\ \A s \in Ids : s < r => runs[s].status # "absent"
           /\ runs'[r].status = "queued" /\ runs'[r].kind = kind /\ runs'[r].config = linked
           /\ \A s \in Ids : s # r => runs'[s] = runs[s]
    BY DEF Run, InFlight, Insert, Fresh

\* SetStatus writes the status of a row that is there, and nothing else.
LEMMA StatusSet ==
    ASSUME runs \in [Ids -> Run], NEW r \in Ids,
           NEW status \in {"running", "completed", "failed", "deleted"}, SetStatus(r, status)
    PROVE  /\ runs' \in [Ids -> Run]
           /\ \A s \in Ids : /\ s # r => runs'[s] = runs[s]
                             /\ runs'[s].kind = runs[s].kind /\ runs'[s].config = runs[s].config
           /\ Exists(r) => runs'[r].status = status
           /\ ~Exists(r) => runs'[r] = runs[r]
<1>1. CASE Exists(r)
    BY <1>1 DEF Run, InFlight, SetStatus
<1>2. CASE ~Exists(r)
    BY <1>2 DEF SetStatus
<1> QED BY <1>1, <1>2

\* Goto changes the counter alone.
LEMMA Jumped ==
    ASSUME at \in Locals, NEW pc \in Counters, Goto(pc)
    PROVE  /\ at' \in Locals
           /\ at'.pc = pc /\ at'.run = at.run /\ at'.config = at.config /\ at'.excess = at.excess
    BY DEF Goto, Locals

\* A job that is over leaves nothing in hand.
LEMMA Ended ==
    ASSUME End
    PROVE  /\ at' = Idle /\ at' \in Locals
           /\ at'.pc = "idle" /\ at'.run = NoId /\ at'.config = FALSE /\ at'.excess = {}
           /\ active' = NoJob /\ UNCHANGED <<queue, stalled>>
    BY DEF End, Idle, Locals, Counters, NoId

\* The end of a dump is the next step of a restore, or the end of the job.
LEMMA Returned ==
    ASSUME Return
    PROVE  \/ /\ active.kind = "restore"
              /\ UNCHANGED jobs
              /\ at' \in Locals
              /\ at'.pc = "download" /\ at'.run = NoId /\ at'.config = FALSE /\ at'.excess = {}
           \/ active.kind # "restore" /\ End
    BY DEF Return, Idle, Locals, Counters, NoId

\* There are finitely many runs, and they can be compared.
LEMMA IdsFinite == IsFiniteSet(Ids) /\ \A r \in Ids : r \in Int
<1>1. MaxRuns \in Int /\ 1 \in Int
    BY BackupAssumption
<1> QED BY <1>1, FS_Interval DEF Ids

\* The largest of a set of runs: of the sets of the runs above one of them,
\* take one that has no smaller among them.
LEMMA MaxOfRuns ==
    ASSUME NEW S \in SUBSET Ids, S # {}
    PROVE  Max(S) \in S /\ \A r \in S : r <= Max(S)
<1> DEFINE above(r) == {s \in S : s > r}
           T == {above(r) : r \in S}
<1>1. IsFiniteSet(S) /\ \A r \in Ids : r \in Int
    BY IdsFinite, FS_Subset
<1>2. T \subseteq FiniteSubsetsOf(S) /\ T # {}
  <2>1. \A r \in S : above(r) \subseteq S /\ IsFiniteSet(above(r))
      BY <1>1, FS_Subset
  <2> QED BY <2>1 DEF FiniteSubsetsOf
<1> HIDE DEF T
<1>3. PICK X \in T : \A Y \in T : ~(<<Y, X>> \in StrictSubsetOrdering(S))
    BY <1>2, WFMin, FS_StrictSubsetOrderingWellFounded
<1>4. PICK x \in S : X = above(x)
    BY <1>3 DEF T
<1>5. ASSUME NEW y \in S, y > x PROVE FALSE
  <2>1. above(y) \in T /\ above(y) \subseteq S /\ above(x) \subseteq S
      BY DEF T
  <2>2. above(y) \subseteq above(x) /\ y \in above(x) /\ y \notin above(y)
      BY <1>1, <1>5
  <2>3. <<above(y), above(x)>> \in StrictSubsetOrdering(S)
      BY <2>1, <2>2 DEF StrictSubsetOrdering
  <2> QED BY <1>3, <1>4, <2>1, <2>3
<1>6. \A y \in S : x >= y
    BY <1>1, <1>5
<1>7. Max(S) \in S /\ \A y \in S : Max(S) >= y
    BY <1>6 DEF Max
<1> QED BY <1>1, <1>7

-----------------------------------------------------------------------------
(* The types are kept *)

\* An action that leaves the worker, its process and the sweep alone.
LEMMA PlacedStays ==
    ASSUME Placed, UNCHANGED <<at, active, stalled, sweep, process, crashes>>
    PROVE  Placed'
    BY DEF Placed

\* Enqueue puts a job on the queue.
LEMMA EnqueueTypes ==
    ASSUME TypeOK, NEW kind \in {"backup", "restore"}, NEW r \in Ids, Enqueue(kind, r)
    PROVE  queue' \in Seq(Job) /\ UNCHANGED <<active, stalled>>
<1>1. NewJob(kind, r) \in Job
    BY DEF NewJob, Job
<1> QED BY <1>1 DEF Enqueue, TypeOK

\* The step leaves the instance alone and keeps the types of what it writes.
LEMMA TypeKept ==
    ASSUME TypeOK, UNCHANGED instance, crashes' \in 0..MaxCrashes,
           runs' \in [Ids -> Run], objects' \in [Ids -> Content], config' \in BOOLEAN,
           fired' \in Ids \cup {NoId}, submitting' \subseteq Ids,
           erasing' \in [Ids -> {"no", "object", "row", "erased"}],
           queue' \in Seq(Job), active' \in Job \cup {NoJob}, stalled' \in Job \cup {NoJob},
           at' \in Locals, sweep' \in Sweep, process' \in {"down", "up"},
           data' \in Data, replicas' \in {0, 1}, revived' \in BOOLEAN
    PROVE  TypeOK'
    BY DEF TypeOK, MaxCrashes

\* No job is the absence of one.
LEMMA NewJobNotNone == \A job \in Job : job # NoJob
    BY DEF Job, NoJob

\* The types are kept by the dashboard and the clock, ...
LEMMA DashboardTypes ==
    ASSUME Typed, UNCHANGED instance, Dashboard
    PROVE  Typed'
<1> USE DEF Typed
<1>1. ASSUME NEW r \in Ids, TriggerInsert(r) PROVE Typed'
  <2>1. runs' \in [Ids -> Run]
      BY <1>1, Inserted DEF TriggerInsert, TypeOK
  <2> QED BY <1>1, <2>1, PlacedStays DEF TriggerInsert, TypeOK, MaxCrashes, cron, jobs, host, live
<1>2. ASSUME NEW r \in Ids, TriggerEnqueue(r) PROVE Typed'
  <2>1. queue' \in Seq(Job) /\ UNCHANGED <<active, stalled>>
      BY <1>2, EnqueueTypes DEF TriggerEnqueue
  <2> QED BY <1>2, <2>1, PlacedStays DEF TriggerEnqueue, TypeOK, MaxCrashes, store, cron, host, live
<1>3. ASSUME NEW r \in Ids, TriggerLost(r) PROVE Typed'
    BY <1>3, PlacedStays DEF TriggerLost, TypeOK, MaxCrashes, store, cron, jobs, host, live
<1>4. ASSUME NEW r \in Ids, EraseRead(r) PROVE Typed'
    BY <1>4, PlacedStays DEF EraseRead, TypeOK, MaxCrashes, store, cron, jobs, host, live
<1>5. ASSUME NEW r \in Ids, EraseObject(r) PROVE Typed'
  <2>1. objects' \in [Ids -> Content]
      BY <1>5 DEF EraseObject, TypeOK, Content
  <2> QED BY <1>5, <2>1, PlacedStays DEF EraseObject, TypeOK, MaxCrashes, cron, jobs, host, live
<1>6. ASSUME NEW r \in Ids, EraseRow(r) PROVE Typed'
  <2>1. runs' \in [Ids -> Run]
      BY <1>6, StatusSet DEF EraseRow, TypeOK
  <2> QED BY <1>6, <2>1, PlacedStays DEF EraseRow, TypeOK, MaxCrashes, cron, jobs, host, live
<1>7. ASSUME NEW r \in Ids, TriggerRestore(r) PROVE Typed'
  <2>1. queue' \in Seq(Job) /\ UNCHANGED <<active, stalled>>
      BY <1>7, EnqueueTypes DEF TriggerRestore
  <2> QED BY <1>7, <2>1, PlacedStays DEF TriggerRestore, TypeOK, MaxCrashes, store, cron, asks, host, live
<1>8. CASE DropConfig
  <2>1. runs' \in [Ids -> Run]
      BY <1>8 DEF DropConfig, TypeOK, Run
  <2> QED BY <1>8, <2>1, PlacedStays DEF DropConfig, TypeOK, MaxCrashes, asks, jobs, host, live
<1>9. CASE CronFires
  <2>1. LET S == {r \in Ids : runs[r].status # "absent"} IN Cardinality(S) \in Ids \cup {NoId}
    <3> DEFINE S == {r \in Ids : runs[r].status # "absent"}
    <3>1. IsFiniteSet(S) /\ Cardinality(S) <= Cardinality(Ids) /\ Cardinality(S) \in Nat
        BY IdsFinite, FS_Subset, FS_CardinalityType
    <3>2. Cardinality(Ids) = MaxRuns
        BY FS_Interval, BackupAssumption DEF Ids
    <3> QED BY <3>1, <3>2, BackupAssumption DEF Ids, NoId
  <2> QED BY <1>9, <2>1, PlacedStays DEF CronFires, TypeOK, MaxCrashes, store, asks, jobs, host, live
<1> QED BY <1>1, <1>2, <1>3, <1>4, <1>5, <1>6, <1>7, <1>8, <1>9 DEF Dashboard

\* ... the sweep, ...
LEMMA SweepTypes ==
    ASSUME Typed, UNCHANGED instance, StartSweep \/ SweepStep
    PROVE  Typed'
<1> USE DEF Typed, Rest, Sweep, Placed
<1>1. CASE StartSweep
    BY <1>1 DEF StartSweep, TypeOK, MaxCrashes, store, cron, asks, jobs, host, live
<1>2. CASE FindInFlight
    BY <1>2 DEF FindInFlight, TypeOK, MaxCrashes, store, cron, asks, jobs, host, live
<1>3. CASE CheckDue
    BY <1>3 DEF CheckDue, TypeOK, MaxCrashes, store, cron, asks, jobs, host, live
<1>4. CASE InsertScheduled
  <2>1. CASE sweep' = Rest /\ UNCHANGED runs
      BY <1>4, <2>1 DEF InsertScheduled, TypeOK, MaxCrashes, cron, asks, jobs, host, live
  <2>2. ASSUME NEW r \in Ids, Fresh(r), Insert(r, "scheduled", TRUE), sweep' = [pc |-> "enqueue", run |-> r]
        PROVE  Typed'
    <3>1. runs' \in [Ids -> Run]
        BY <2>2, Inserted DEF TypeOK
    <3> QED BY <1>4, <2>2, <3>1 DEF InsertScheduled, TypeOK, MaxCrashes, cron, asks, jobs, host, live
  <2> QED BY <1>4, <2>1, <2>2 DEF InsertScheduled
<1>5. CASE EnqueueScheduled
  <2>1. sweep.run \in Ids
      BY <1>5 DEF EnqueueScheduled
  <2>2. queue' \in Seq(Job) /\ UNCHANGED <<active, stalled>>
      BY <1>5, <2>1, EnqueueTypes DEF EnqueueScheduled, TypeOK, jobs
  <2> QED BY <1>5, <2>2 DEF EnqueueScheduled, TypeOK, MaxCrashes, store, cron, asks, host, live
<1> QED BY <1>1, <1>2, <1>3, <1>4, <1>5 DEF SweepStep

\* The types hold after a step of the worker that writes no more than rows,
\* objects and its own place.
LEMMA WorkerKept ==
    ASSUME Typed, UNCHANGED instance, UNCHANGED <<cron, asks, sweep, host>>, UNCHANGED stalled,
           runs' \in [Ids -> Run], objects' \in [Ids -> Content], queue' \in Seq(Job),
           active' \in Job \cup {NoJob}, at' \in Locals,
           data' \in Data, replicas' \in {0, 1}, revived' \in BOOLEAN,
           at'.pc = "idle" <=> active' = NoJob,
           at'.pc \in Dumping => at'.run \in Ids,
           at'.pc \in Restoring => active'.kind = "restore",
           at'.pc \in {"object", "row"} <=> at'.excess # {},
           process = "down" => at'.pc = "idle"
    PROVE  Typed'
<1>1. TypeOK'
    BY TypeKept DEF Typed, TypeOK, MaxCrashes, cron, asks, host
<1>2. Placed'
    BY DEF Typed, Placed, host
<1> QED BY <1>1, <1>2 DEF Typed

\* ... when the job is over,
LEMMA EndTypes ==
    ASSUME Typed, UNCHANGED instance, UNCHANGED <<cron, asks, sweep, host>>, End,
           runs' \in [Ids -> Run], objects' \in [Ids -> Content],
           data' \in Data, replicas' \in {0, 1}, revived' \in BOOLEAN
    PROVE  Typed'
<1>1. queue' \in Seq(Job) /\ UNCHANGED stalled
    BY Ended DEF Typed, TypeOK
<1>2. at'.pc \notin Dumping \cup Restoring
    BY Ended DEF Dumping, Restoring
<1> QED BY <1>1, <1>2, Ended, WorkerKept

\* ... and when it goes on in the pipeline it is in.
LEMMA GotoTypes ==
    ASSUME Typed, UNCHANGED instance, UNCHANGED <<cron, asks, jobs, sweep, host>>,
           runs' \in [Ids -> Run], objects' \in [Ids -> Content],
           data' \in Data, replicas' \in {0, 1}, revived' \in BOOLEAN,
           at.pc # "idle", at' \in Locals, at'.pc # "idle",
           at'.pc \in Dumping => at'.run \in Ids,
           at'.pc \in Restoring => active.kind = "restore",
           at'.pc \in {"object", "row"} <=> at'.excess # {}
    PROVE  Typed'
<1>1. queue' \in Seq(Job) /\ UNCHANGED <<stalled, active>> /\ active' \in Job \cup {NoJob}
    BY DEF Typed, TypeOK, jobs
<1>2. active # NoJob /\ process # "down"
    BY DEF Typed, Placed
<1> QED BY <1>1, <1>2, WorkerKept

\* ... when a dump returns, ...
LEMMA ReturnTypes ==
    ASSUME Typed, UNCHANGED instance, UNCHANGED <<cron, asks, sweep, host>>, Return,
           runs' \in [Ids -> Run], objects' \in [Ids -> Content], UNCHANGED live, at.pc # "idle"
    PROVE  Typed'
<1>1. data' \in Data /\ replicas' \in {0, 1} /\ revived' \in BOOLEAN
    BY DEF live, Typed, TypeOK
<1>2. CASE End
    BY <1>1, <1>2, EndTypes
<1>3. CASE /\ active.kind = "restore"
           /\ UNCHANGED jobs
           /\ at' \in Locals
           /\ at'.pc = "download" /\ at'.run = NoId /\ at'.config = FALSE /\ at'.excess = {}
  <2>1. at'.pc # "idle" /\ at'.pc \notin Dumping /\ at'.pc \notin {"object", "row"}
      BY <1>3 DEF Dumping
  <2> QED BY <1>1, <1>3, <2>1, GotoTypes
<1> QED BY <1>2, <1>3, Returned

\* What is not written, and one object that is, keeps its type.
LEMMA StoreTypes ==
    ASSUME Typed
    PROVE  /\ UNCHANGED runs => runs' \in [Ids -> Run]
           /\ UNCHANGED objects => objects' \in [Ids -> Content]
           /\ UNCHANGED store => runs' \in [Ids -> Run] /\ objects' \in [Ids -> Content]
           /\ UNCHANGED data => data' \in Data
           /\ UNCHANGED <<replicas, revived>> => replicas' \in {0, 1} /\ revived' \in BOOLEAN
           /\ UNCHANGED live => data' \in Data /\ replicas' \in {0, 1} /\ revived' \in BOOLEAN
           /\ \A r \in Ids, content \in Content :
                objects' = [objects EXCEPT ![r] = content] => objects' \in [Ids -> Content]
    BY DEF Typed, TypeOK, store, live

\* A throw keeps the types.
LEMMA ThrowTypes ==
    ASSUME Typed, UNCHANGED instance, Throw
    PROVE  Typed'
    BY EndTypes, StoreTypes DEF Throw

\* The types are kept by the steps of a dump, ...
LEMMA BackupTypes ==
    ASSUME Typed, UNCHANGED instance, Backup
    PROVE  Typed'
<1> USE StoreTypes
<1>0. at \in Locals /\ at.pc \in Counters /\ (at.pc \in Dumping => at.run \in Ids)
      /\ (at.pc \notin {"object", "row"} => at.excess = {})
      /\ (at.pc \in {"object", "row"} => at.excess # {}) /\ at.excess \subseteq Ids /\ at.config \in BOOLEAN
    BY DEF Typed, TypeOK, Placed, Locals
<1>1. CASE Load
  <2>1. CASE Throw
      BY <2>1, ThrowTypes
  <2>2. CASE /\ at' = [at EXCEPT !.pc = "mark", !.config = runs[at.run].config]
             /\ UNCHANGED <<store, cron, asks, jobs, sweep, host, live>>
    <3>1. at.run \in Ids /\ runs[at.run].config \in BOOLEAN /\ at.excess = {}
        BY <1>0, <1>1 DEF Load, Dumping, Typed, TypeOK, Run
    <3>2. at' \in Locals /\ at'.pc = "mark" /\ at'.run = at.run /\ at'.excess = {}
        BY <1>0, <2>2, <3>1 DEF Locals, Counters
    <3> QED BY <1>1, <2>2, <3>1, <3>2, GotoTypes DEF Load, Restoring
  <2> QED BY <1>1, <2>1, <2>2 DEF Load
<1>2. CASE MarkRunning
  <2>1. at.run \in Ids /\ at.excess = {} /\ at.pc = "mark"
      BY <1>0, <1>2 DEF MarkRunning, Dumping
  <2>2. runs' \in [Ids -> Run]
      BY <1>2, <2>1, StatusSet DEF MarkRunning, Typed, TypeOK
  <2>3. at' \in Locals /\ at'.pc = "connect" /\ at'.run = at.run /\ at'.excess = {}
      BY <1>0, <1>2, <2>1, Jumped DEF MarkRunning, Counters
  <2> QED BY <1>2, <2>1, <2>2, <2>3, GotoTypes DEF MarkRunning, Restoring
<1>3. CASE Connect
  <2>1. CASE Throw
      BY <2>1, ThrowTypes
  <2>2. CASE Goto("capture") /\ UNCHANGED <<store, cron, asks, jobs, sweep, host, live>>
    <3>1. at.run \in Ids /\ at.excess = {} /\ at.pc = "connect"
        BY <1>0, <1>3 DEF Connect, Dumping
    <3>2. at' \in Locals /\ at'.pc = "capture" /\ at'.run = at.run /\ at'.excess = {}
        BY <1>0, <2>2, <3>1, Jumped DEF Counters
    <3> QED BY <2>2, <3>1, <3>2, GotoTypes DEF Restoring
  <2> QED BY <1>3, <2>1, <2>2 DEF Connect
<1>4. CASE Capture \/ Discard \/ UploadedSize
  <2>1. at.run \in Ids /\ at.excess = {} /\ at.pc \in {"capture", "discard", "size"}
      BY <1>0, <1>4 DEF Capture, Discard, UploadedSize, Dumping
  <2>2. runs' \in [Ids -> Run] /\ objects' \in [Ids -> Content]
    <3>1. "partial" \in Content /\ "none" \in Content /\ data \in Content
        BY DEF Content, Typed, TypeOK
    <3>2. UNCHANGED runs /\ \/ UNCHANGED objects
                            \/ \E content \in Content : objects' = [objects EXCEPT ![at.run] = content]
        BY <1>4, <3>1 DEF Capture, Discard, UploadedSize, store
    <3> QED BY <2>1, <3>2
  <2>3. \E pc \in {"size", "discard", "fail", "complete"} : Goto(pc)
      BY <1>4 DEF Capture, Discard, UploadedSize
  <2>4. at' \in Locals /\ at'.pc \in {"size", "discard", "fail", "complete"} /\ at'.run = at.run /\ at'.excess = {}
      BY <1>0, <2>1, <2>3, Jumped DEF Counters
  <2>5. UNCHANGED <<cron, asks, jobs, sweep, host, live>>
      BY <1>4 DEF Capture, Discard, UploadedSize
  <2> QED BY <2>1, <2>2, <2>4, <2>5, GotoTypes DEF Restoring
<1>5. CASE MarkCompleted
  <2>1. at.run \in Ids /\ at.excess = {} /\ at.pc = "complete"
      BY <1>0, <1>5 DEF MarkCompleted, Dumping
  <2>2. runs' \in [Ids -> Run]
      BY <1>5, <2>1, StatusSet DEF MarkCompleted, Typed, TypeOK
  <2>3. at' \in Locals /\ at'.pc = "prune" /\ at'.run = at.run /\ at'.excess = {}
      BY <1>0, <1>5, <2>1, Jumped DEF MarkCompleted, Counters
  <2> QED BY <1>5, <2>1, <2>2, <2>3, GotoTypes DEF MarkCompleted, Restoring
<1>6. CASE MarkFailed
  <2>1. at.run \in Ids
      BY <1>0, <1>6 DEF MarkFailed, Dumping
  <2>2. runs' \in [Ids -> Run]
      BY <1>6, <2>1, StatusSet DEF MarkFailed, Typed, TypeOK
  <2> QED BY <1>6, <2>2, EndTypes DEF MarkFailed
<1>7. CASE FindExcess
  <2> DEFINE excess == IF at.config /\ config /\ Keep > 0 THEN Excess ELSE {}
  <2>1. at.run \in Ids /\ at.excess = {} /\ at.pc = "prune" /\ excess \subseteq Ids
      BY <1>0, <1>7 DEF FindExcess, Dumping, Excess, Completed
  <2>2. CASE Return
      BY <1>7, <2>1, <2>2, ReturnTypes DEF FindExcess
  <2>3. CASE excess # {} /\ at' = [at EXCEPT !.pc = "object", !.excess = excess] /\ UNCHANGED jobs
    <3>1. at' \in Locals /\ at'.pc = "object" /\ at'.run = at.run /\ at'.excess # {}
        BY <1>0, <2>1, <2>3 DEF Locals, Counters
    <3> QED BY <1>7, <2>1, <2>3, <3>1, GotoTypes DEF FindExcess, Restoring
  <2> QED BY <1>7, <2>2, <2>3 DEF FindExcess
<1>8. CASE PruneObject
  <2>1. at.run \in Ids /\ at.pc = "object" /\ at.excess # {} /\ Max(at.excess) \in Ids
      BY <1>0, <1>8, MaxOfRuns DEF PruneObject, Dumping
  <2>2. objects' \in [Ids -> Content] /\ UNCHANGED runs
      BY <1>8, <2>1 DEF PruneObject, Content
  <2>3. at' \in Locals /\ at'.pc = "row" /\ at'.run = at.run /\ at'.excess = at.excess
      BY <1>0, <1>8, <2>1, Jumped DEF PruneObject, Counters
  <2> QED BY <1>8, <2>1, <2>2, <2>3, GotoTypes DEF PruneObject, Restoring
<1>9. CASE PruneRow
  <2> DEFINE rest == at.excess \ {Max(at.excess)}
  <2>1. at.run \in Ids /\ at.pc = "row" /\ Max(at.excess) \in Ids /\ rest \subseteq Ids
      BY <1>0, <1>9, MaxOfRuns DEF PruneRow, Dumping
  <2>2. runs' \in [Ids -> Run]
      BY <1>9, <2>1, StatusSet DEF PruneRow, Typed, TypeOK
  <2>3. CASE Return
      BY <1>9, <2>1, <2>2, <2>3, ReturnTypes DEF PruneRow
  <2>4. CASE rest # {} /\ at' = [at EXCEPT !.pc = "object", !.excess = rest] /\ UNCHANGED jobs
    <3>1. at' \in Locals /\ at'.pc = "object" /\ at'.run = at.run /\ at'.excess # {}
        BY <1>0, <2>1, <2>4 DEF Locals, Counters
    <3> QED BY <1>9, <2>1, <2>2, <2>4, <3>1, GotoTypes DEF PruneRow, Restoring
  <2> QED BY <1>9, <2>3, <2>4 DEF PruneRow
<1> QED BY <1>1, <1>2, <1>3, <1>4, <1>5, <1>6, <1>7, <1>8, <1>9 DEF Backup

\* ... those of a restore, ...
LEMMA RestoreTypes ==
    ASSUME Typed, UNCHANGED instance, Restore
    PROVE  Typed'
<1> USE StoreTypes
<1>0. at \in Locals /\ at.pc \in Counters
      /\ (at.pc \notin {"object", "row"} => at.excess = {})
      /\ (at.pc \in Restoring => active.kind = "restore")
    BY DEF Typed, TypeOK, Placed, Locals
\* The worker goes on in the restore.
<1> DEFINE Onward == /\ UNCHANGED <<cron, asks, jobs, sweep, host>>
                     /\ at.pc \in Restoring
                     /\ \E pc \in Restoring : Goto(pc)
<1>a. ASSUME Onward, runs' \in [Ids -> Run], objects' \in [Ids -> Content],
           data' \in Data, replicas' \in {0, 1}, revived' \in BOOLEAN
      PROVE  Typed'
  <2>1. PICK pc \in Restoring : Goto(pc)
      BY <1>a
  <2>2. at.excess = {} /\ at.pc # "idle" /\ active.kind = "restore" /\ pc \in Counters /\ pc # "idle"
        /\ pc \notin Dumping /\ pc \notin {"object", "row"}
      BY <1>0, <1>a DEF Restoring, Counters, Dumping
  <2>3. at' \in Locals /\ at'.pc = pc /\ at'.excess = {}
      BY <1>0, <2>1, <2>2, Jumped
  <2> QED BY <1>a, <2>2, <2>3, GotoTypes
<1> HIDE DEF Onward
<1>1. CASE ResolveSource
  <2>1. CASE Throw
      BY <2>1, ThrowTypes
  <2>2. CASE /\ at' = [at EXCEPT !.pc = "exists", !.config = runs[active.run].config]
             /\ UNCHANGED <<store, cron, asks, jobs, sweep, host, live>>
    <3>1. active.kind = "restore" /\ at.excess = {} /\ at.pc = "source"
        BY <1>0, <1>1 DEF ResolveSource, Restoring
    <3>2. active.run \in Ids /\ runs[active.run].config \in BOOLEAN
        BY <3>1 DEF Typed, TypeOK, Job, NoJob, Run
    <3>3. at' \in Locals /\ at'.pc = "exists" /\ at'.excess = {}
        BY <1>0, <2>2, <3>1, <3>2 DEF Locals, Counters
    <3> QED BY <2>2, <3>1, <3>3, GotoTypes DEF Dumping
  <2> QED BY <1>1, <2>1, <2>2 DEF ResolveSource
<1>2. CASE ObjectExists
  <2>1. CASE Throw
      BY <2>1, ThrowTypes
  <2>2. CASE Goto("safety") /\ UNCHANGED <<store, cron, asks, jobs, sweep, host, live>>
    <3>1. Onward
        BY <1>2, <2>2 DEF ObjectExists, Onward, Restoring
    <3> QED BY <1>a, <2>2, <3>1
  <2> QED BY <1>2, <2>1, <2>2 DEF ObjectExists
<1>3. CASE SafetyBackup
  <2>1. CASE Throw
      BY <2>1, ThrowTypes
  <2>2. ASSUME NEW r \in Ids, Fresh(r), Insert(r, "pre_restore", Subject = "volume"),
               at' = [Idle EXCEPT !.pc = "load", !.run = r],
               UNCHANGED <<objects, cron, asks, jobs, sweep, host, live>>
        PROVE  Typed'
    <3>1. runs' \in [Ids -> Run]
        BY <2>2, Inserted DEF Typed, TypeOK
    <3>2. at' \in Locals /\ at'.pc = "load" /\ at'.run = r /\ at'.excess = {}
        BY <2>2 DEF Locals, Counters, Idle
    <3>3. at.pc # "idle"
        BY <1>3 DEF SafetyBackup
    <3> QED BY <2>2, <3>1, <3>2, <3>3, GotoTypes DEF Restoring
  <2>3. CASE Goto("download") /\ UNCHANGED <<store, cron, asks, jobs, sweep, host, live>>
    <3>1. Onward
        BY <1>3, <2>3 DEF SafetyBackup, Onward, Restoring
    <3> QED BY <1>a, <2>3, <3>1
  <2> QED BY <1>3, <2>1, <2>2, <2>3 DEF SafetyBackup
<1>4. CASE DownloadStream
  <2>1. CASE Throw
      BY <2>1, ThrowTypes
  <2>2. CASE Goto(IF Subject = "volume" THEN "down" ELSE "wipe")
             /\ UNCHANGED <<store, cron, asks, jobs, sweep, host, live>>
    <3>1. Onward
        BY <1>4, <2>2 DEF DownloadStream, Onward, Restoring
    <3> QED BY <1>a, <2>2, <3>1
  <2> QED BY <1>4, <2>1, <2>2 DEF DownloadStream
<1>5. CASE ScaleDown
  <2>1. CASE Throw
      BY <2>1, ThrowTypes
  <2>2. CASE /\ replicas' = 0 /\ revived' = FALSE /\ Goto("wipe") /\ UNCHANGED jobs
             /\ UNCHANGED <<store, cron, asks, sweep, host, data>>
    <3>1. Onward
        BY <1>5, <2>2 DEF ScaleDown, Onward, Restoring
    <3> QED BY <1>a, <2>2, <3>1
  <2>3. CASE replicas' = 0 /\ revived' = FALSE /\ End /\ UNCHANGED <<store, cron, asks, sweep, host, data>>
      BY <2>3, EndTypes
  <2> QED BY <1>5, <2>1, <2>2, <2>3 DEF ScaleDown
<1>6. CASE Wipe
  <2>1. CASE Throw
      BY <2>1, ThrowTypes
  <2>2. CASE data' = "torn" /\ Goto("fill") /\ UNCHANGED <<store, cron, asks, jobs, sweep, host, replicas, revived>>
    <3>1. Onward /\ data' \in Data
        BY <1>6, <2>2 DEF Wipe, Onward, Restoring, Data
    <3> QED BY <1>a, <2>2, <3>1
  <2> QED BY <1>6, <2>1, <2>2 DEF Wipe
<1>7. CASE Fill
  <2>1. CASE Throw
      BY <2>1, ThrowTypes
  <2>2. CASE data' = "restored" /\ Goto("up") /\ UNCHANGED <<store, cron, asks, jobs, sweep, host, replicas, revived>>
    <3>1. Onward /\ data' \in Data
        BY <1>7, <2>2 DEF Fill, Onward, Restoring, Data
    <3> QED BY <1>a, <2>2, <3>1
  <2>3. CASE data' = "restored" /\ End /\ UNCHANGED <<store, cron, asks, sweep, host, replicas, revived>>
      BY <2>3, EndTypes DEF Data
  <2> QED BY <1>7, <2>1, <2>2, <2>3 DEF Fill
<1>8. CASE ScaleUp
  <2>1. CASE Throw
      BY <2>1, ThrowTypes
  <2>2. CASE replicas' = 1 /\ revived' = FALSE /\ End /\ UNCHANGED <<store, cron, asks, sweep, host, data>>
      BY <2>2, EndTypes
  <2> QED BY <1>8, <2>1, <2>2 DEF ScaleUp
<1> QED BY <1>1, <1>2, <1>3, <1>4, <1>5, <1>6, <1>7, <1>8 DEF Restore

\* ... when the worker takes a job, ...
LEMMA TakeTypes ==
    ASSUME Typed, UNCHANGED instance, TakeJob
    PROVE  Typed'
<1>1. Head(queue) \in Job /\ queue' \in Seq(Job) /\ active' = Head(queue) /\ process = "up"
    BY DEF TakeJob, Typed, TypeOK
<1>2. /\ Head(queue).kind \in {"backup", "restore"} /\ Head(queue).run \in Ids
      /\ active' # NoJob
    BY <1>1 DEF Job, NoJob
<1>3. at' \in Locals /\ at'.excess = {} /\ at'.pc # "idle" /\ at'.pc \notin {"object", "row"}
      /\ (at'.pc \in Dumping => at'.run \in Ids)
      /\ (at'.pc \in Restoring => active'.kind = "restore")
    BY <1>1, <1>2 DEF TakeJob, Locals, Counters, Idle, Dumping, Restoring
<1> QED BY <1>1, <1>2, <1>3, WorkerKept, StoreTypes DEF TakeJob

\* ... and when it dies, comes back, or gets its job again.
LEMMA DeathTypes ==
    ASSUME Typed, UNCHANGED instance, Crash \/ RecoverRuns \/ StalledJobReturns
    PROVE  Typed'
<1>1. CASE Crash
  <2>1. stalled' \in Job \cup {NoJob}
      BY <1>1 DEF Crash, Typed, TypeOK
  <2>2. crashes' \in 0..MaxCrashes /\ crashes' > 0
    <3>1. crashes \in Nat /\ MaxCrashes \in Nat /\ crashes < MaxCrashes /\ crashes' = crashes + 1
        BY <1>1, BackupAssumption DEF Crash, Typed, TypeOK, Instance, MaxCrashes
    <3> QED BY <3>1
  <2>3. Idle \in Locals /\ Idle.pc = "idle" /\ Idle.excess = {} /\ Rest \in Sweep /\ Rest.pc = "idle"
      BY DEF Idle, Locals, Counters, Rest, Sweep
  <2>4. TypeOK'
      BY <1>1, <2>1, <2>2, <2>3, TypeKept DEF Crash, Typed, TypeOK, store, cron, asks, live
  <2>5. Placed'
      BY <1>1, <2>2, <2>3 DEF Crash, Typed, Placed, Dumping, Restoring
  <2> QED BY <2>4, <2>5 DEF Typed
<1>2. CASE RecoverRuns
  <2>1. runs' \in [Ids -> Run]
      BY <1>2 DEF RecoverRuns, Typed, TypeOK, Run
  <2>2. TypeOK'
      BY <1>2, <2>1, TypeKept DEF RecoverRuns, Typed, TypeOK, MaxCrashes, cron, asks, jobs, live
  <2>3. Placed'
      BY <1>2 DEF RecoverRuns, Typed, Placed, jobs
  <2> QED BY <2>2, <2>3 DEF Typed
<1>3. CASE StalledJobReturns
  <2>1. [stalled EXCEPT !.again = TRUE] \in Job
      BY <1>3 DEF StalledJobReturns, Typed, TypeOK, Job
  <2>2. queue' \in Seq(Job)
      BY <1>3, <2>1, ConcatProperties DEF StalledJobReturns, Typed, TypeOK
  <2>3. TypeOK'
      BY <1>3, <2>2, TypeKept DEF StalledJobReturns, Typed, TypeOK, MaxCrashes, store, cron, asks, host, live
  <2>4. Placed'
      BY <1>3 DEF StalledJobReturns, Typed, Placed, host
  <2> QED BY <2>3, <2>4 DEF Typed
<1> QED BY <1>1, <1>2, <1>3

\* Those who scale the service keep them too.
LEMMA ServeTypes ==
    ASSUME Typed, UNCHANGED instance, RunOtherJob \/ WatchRedeploys
    PROVE  Typed'
<1>1. replicas' \in {0, 1} /\ revived' \in BOOLEAN
    BY DEF RunOtherJob, WatchRedeploys
<1>2. UNCHANGED <<store, cron, asks, jobs, at, sweep, host, data>>
    BY DEF RunOtherJob, WatchRedeploys
<1>3. TypeOK'
    BY <1>1, <1>2, TypeKept DEF Typed, TypeOK, MaxCrashes, store, cron, asks, jobs, host
<1>4. Placed'
    BY <1>2, PlacedStays DEF Typed, jobs, host
<1> QED BY <1>3, <1>4 DEF Typed

\* Every step keeps the types.
LEMMA TypedStep ==
    ASSUME Typed, [Next]_vars
    PROVE  Typed'
<1>1. CASE Next
    BY <1>1, DashboardTypes, SweepTypes, TakeTypes, BackupTypes, RestoreTypes, ServeTypes, DeathTypes DEF Next, Step
<1>2. CASE UNCHANGED vars
  <2>1. UNCHANGED <<instance, runs, objects, config, fired, submitting, erasing, queue, active, stalled,
                    at, sweep, process, crashes, data, replicas, revived>>
      BY <1>2 DEF vars, steps, store, cron, asks, jobs, host, live
  <2>2. TypeOK'
      BY <2>1, TypeKept DEF Typed, TypeOK, MaxCrashes
  <2> QED BY <2>1, <2>2, PlacedStays DEF Typed
<1> QED BY <1>1, <1>2

\* Every variable keeps its type, and the worker holds a job exactly while it
\* is somewhere in one.
THEOREM TypeCorrect == Spec => []TypeOK
<1>1. Spec => []Typed
    BY InitTyped, TypedStep, PTL DEF Spec
<1>2. Typed => TypeOK
    BY DEF Typed
<1> QED BY <1>1, <1>2, PTL

-----------------------------------------------------------------------------
(* What the steps do *)

\* The dashboard, the clock and the sweep leave the worker alone.  They insert
\* rows, take the configuration from all of them, and delete an object and then
\* a row that an operator chose.
LEMMA AsideDoes ==
    ASSUME Typed, Dashboard \/ StartSweep \/ SweepStep
    PROVE  /\ UNCHANGED <<at, active, stalled, process, crashes, data, replicas, revived>>
           /\ config' => config
           /\ \A r \in Ids :
                /\ \/ runs'[r].status = runs[r].status
                   \/ runs[r].status = "absent" /\ runs'[r].status = "queued"
                   \/ erasing[r] = "row" /\ runs'[r].status = "deleted"
                /\ \/ runs'[r].kind = runs[r].kind
                   \/ /\ runs[r].status = "absent" /\ runs'[r].status = "queued"
                      /\ runs'[r].kind \in {"manual", "scheduled"} /\ runs'[r].config
                /\ \/ runs'[r].config = runs[r].config
                   \/ ~config' /\ ~runs'[r].config
                   \/ /\ runs[r].status = "absent" /\ runs'[r].status = "queued"
                      /\ runs'[r].kind \in {"manual", "scheduled"} /\ runs'[r].config
                /\ objects'[r] = objects[r] \/ erasing[r] = "object"
                /\ erasing[r] # "no" => erasing'[r] # "no"
                /\ erasing[r] = "no" /\ erasing'[r] # "no" =>
                     "delete" \in Requests /\ runs[r].status \in {"completed", "failed"} /\ runs'[r] = runs[r]
<1> USE DEF Typed, TypeOK
<1>1. ASSUME NEW r \in Ids, TriggerInsert(r)
      PROVE  /\ UNCHANGED <<objects, config, erasing, at, active, stalled, process, crashes, data, replicas, revived>>
             /\ runs[r].status = "absent" /\ runs'[r].status = "queued" /\ runs'[r].kind = "manual" /\ runs'[r].config
             /\ \A s \in Ids \ {r} : runs'[s] = runs[s]
    BY <1>1, Inserted DEF TriggerInsert, cron, jobs, host, live
<1>2. ASSUME NEW r \in Ids, TriggerEnqueue(r) \/ TriggerLost(r) \/ TriggerRestore(r)
      PROVE  UNCHANGED <<runs, objects, config, erasing, at, active, stalled, process, crashes, data, replicas, revived>>
    BY <1>2 DEF TriggerEnqueue, TriggerLost, TriggerRestore, Enqueue, store, cron, asks, jobs, host, live
<1>3. ASSUME NEW r \in Ids, EraseRead(r)
      PROVE  /\ UNCHANGED <<runs, objects, config, at, active, stalled, process, crashes, data, replicas, revived>>
             /\ "delete" \in Requests /\ runs[r].status \in {"completed", "failed"}
             /\ erasing[r] = "no" /\ erasing'[r] = "object" /\ \A s \in Ids \ {r} : erasing'[s] = erasing[s]
    BY <1>3 DEF EraseRead, store, cron, jobs, host, live
<1>4. ASSUME NEW r \in Ids, EraseObject(r)
      PROVE  /\ UNCHANGED <<runs, config, at, active, stalled, process, crashes, data, replicas, revived>>
             /\ erasing[r] = "object" /\ erasing'[r] = "row" /\ \A s \in Ids \ {r} : erasing'[s] = erasing[s]
             /\ \A s \in Ids \ {r} : objects'[s] = objects[s]
    BY <1>4 DEF EraseObject, cron, jobs, host, live
<1>5. ASSUME NEW r \in Ids, EraseRow(r)
      PROVE  /\ UNCHANGED <<objects, config, at, active, stalled, process, crashes, data, replicas, revived>>
             /\ erasing[r] = "row" /\ erasing'[r] = "erased" /\ \A s \in Ids \ {r} : erasing'[s] = erasing[s]
             /\ \A s \in Ids : /\ s # r => runs'[s] = runs[s]
                               /\ runs'[s].kind = runs[s].kind /\ runs'[s].config = runs[s].config
             /\ runs'[r].status \in {runs[r].status, "deleted"}
  <2>1. /\ \A s \in Ids : /\ s # r => runs'[s] = runs[s]
                          /\ runs'[s].kind = runs[s].kind /\ runs'[s].config = runs[s].config
        /\ runs'[r].status \in {runs[r].status, "deleted"}
      BY <1>5, StatusSet DEF EraseRow
  <2> QED BY <1>5, <2>1 DEF EraseRow, cron, jobs, host, live
<1>6. ASSUME DropConfig
      PROVE  /\ UNCHANGED <<objects, erasing, at, active, stalled, process, crashes, data, replicas, revived>>
             /\ ~config'
             /\ \A s \in Ids : runs'[s].status = runs[s].status /\ runs'[s].kind = runs[s].kind /\ ~runs'[s].config
    BY <1>6 DEF DropConfig, asks, jobs, host, live, Run
<1>7. ASSUME CronFires \/ StartSweep \/ FindInFlight \/ CheckDue \/ EnqueueScheduled
      PROVE  UNCHANGED <<runs, objects, config, erasing, at, active, stalled, process, crashes, data, replicas, revived>>
    BY <1>7 DEF CronFires, StartSweep, FindInFlight, CheckDue, EnqueueScheduled, Enqueue,
                store, cron, asks, jobs, host, live
<1>8. ASSUME InsertScheduled, UNCHANGED runs
      PROVE  UNCHANGED <<runs, objects, config, erasing, at, active, stalled, process, crashes, data, replicas, revived>>
    BY <1>8 DEF InsertScheduled, cron, asks, jobs, host, live
<1>9. ASSUME InsertScheduled, NEW r \in Ids, Fresh(r), Insert(r, "scheduled", TRUE)
      PROVE  /\ UNCHANGED <<objects, config, erasing, at, active, stalled, process, crashes, data, replicas, revived>>
             /\ runs[r].status = "absent" /\ runs'[r].status = "queued" /\ runs'[r].kind = "scheduled" /\ runs'[r].config
             /\ \A s \in Ids \ {r} : runs'[s] = runs[s]
    BY <1>9, Inserted DEF InsertScheduled, cron, asks, jobs, host, live
<1>10. CASE Dashboard
    BY <1>1, <1>2, <1>3, <1>4, <1>5, <1>6, <1>7, <1>10 DEF Dashboard
<1>11. CASE InsertScheduled
  <2>1. CASE UNCHANGED runs
      BY <1>8, <1>11, <2>1
  <2>2. CASE ~UNCHANGED runs
    <3>1. PICK r \in Ids : Fresh(r) /\ Insert(r, "scheduled", TRUE)
        BY <1>11, <2>2 DEF InsertScheduled
    <3> QED BY <1>9, <1>11, <3>1
  <2> QED BY <2>1, <2>2
<1> QED BY <1>7, <1>10, <1>11 DEF SweepStep

\* Steps that take only the worker on, or that scale the service,
OnlyMoves == UNCHANGED <<runs, objects, config, fired, submitting, erasing, queue, active, stalled, sweep,
                         process, crashes, data>>

\* ... or end its job, with nothing written.
OnlyEnds ==
    /\ UNCHANGED <<runs, objects, config, fired, submitting, erasing, queue, stalled, sweep,
                   process, crashes, data, replicas, revived>>
    /\ active' = NoJob
    /\ at'.pc = "idle" /\ at'.run = NoId /\ at'.config = FALSE /\ at'.excess = {}

Stays == at'.run = at.run /\ at'.config = at.config /\ at'.excess = at.excess

\* The groups of variables, one by one.
LEMMA Flat ==
    /\ UNCHANGED <<store, cron, asks, jobs, sweep, host, live>> => OnlyMoves
    /\ Throw => OnlyEnds
    /\ UNCHANGED <<cron, asks, sweep, host>> =>
         UNCHANGED <<config, fired, submitting, erasing, sweep, process, crashes>>
    /\ UNCHANGED jobs => UNCHANGED <<queue, active, stalled>>
    /\ UNCHANGED store => UNCHANGED <<runs, objects>>
    /\ UNCHANGED live => UNCHANGED <<data, replicas, revived>>
    BY Ended DEF OnlyMoves, OnlyEnds, Throw, store, cron, asks, jobs, host, live

\* The steps that write nothing.
LEMMA MovesDo ==
    ASSUME Typed, Load \/ Connect \/ UploadedSize \/ ResolveSource \/ ObjectExists \/ DownloadStream
    PROVE  /\ at.pc \in {"load", "connect", "size", "source", "exists", "download"}
           /\ at.excess = {} /\ at'.excess = {}
           /\ \/ OnlyEnds
              \/ /\ OnlyMoves
                 /\ at'.run = at.run
                 /\ \/ /\ at.pc = "load" /\ at'.pc = "mark" /\ Exists(at.run)
                       /\ at'.config = runs[at.run].config
                    \/ at.pc = "connect" /\ at'.pc = "capture" /\ at'.config = at.config
                    \/ /\ at.pc = "size" /\ at'.pc \in {"complete", "fail"} /\ at'.config = at.config
                       /\ at'.pc = "complete" => objects[at.run] # "none"
                    \/ /\ at.pc = "source" /\ at'.pc = "exists" /\ runs[active.run].status = "completed"
                       /\ at'.config = runs[active.run].config
                    \/ /\ at.pc = "exists" /\ at'.pc = "safety" /\ objects[active.run] # "none"
                       /\ at'.config = at.config
                    \/ /\ at.pc = "download" /\ objects[active.run] # "none" /\ at'.config = at.config
                       /\ at'.pc = IF Subject = "volume" THEN "down" ELSE "wipe"
<1>0. /\ at \in Locals
      /\ at.pc \in {"load", "connect", "size", "source", "exists", "download"}
    BY DEF Typed, TypeOK, Load, Connect, UploadedSize, ResolveSource, ObjectExists, DownloadStream
<1>1. at.excess = {}
    BY <1>0 DEF Typed, Placed
<1>2. ASSUME NEW pc \in Counters, NEW linked \in BOOLEAN, at' = [at EXCEPT !.pc = pc, !.config = linked]
      PROVE  at'.pc = pc /\ at'.config = linked /\ at'.run = at.run /\ at'.excess = at.excess
    BY <1>0, <1>2 DEF Locals
<1>3. runs[at.run].config \in BOOLEAN \/ at.pc # "load"
    BY DEF Typed, TypeOK, Placed, Dumping, Run
<1>4. runs[active.run].config \in BOOLEAN \/ at.pc # "source"
    BY DEF Typed, TypeOK, Placed, Restoring, Run, Job, NoJob
<1>5. CASE Throw
    BY <1>0, <1>1, <1>5, Flat DEF OnlyEnds
<1>6. CASE Load /\ ~Throw
  <2>1. at' = [at EXCEPT !.pc = "mark", !.config = runs[at.run].config] /\ Exists(at.run) /\ OnlyMoves /\ at.pc = "load"
      BY <1>6, Flat DEF Load
  <2> QED BY <1>0, <1>1, <1>2, <1>3, <2>1 DEF Counters
<1>7. CASE Connect /\ ~Throw
    BY <1>0, <1>1, <1>7, Flat, Jumped DEF Connect, Counters
<1>8. CASE UploadedSize
    BY <1>0, <1>1, <1>8, Flat, Jumped DEF UploadedSize, Counters
<1>9. CASE ResolveSource /\ ~Throw
  <2>1. at' = [at EXCEPT !.pc = "exists", !.config = runs[active.run].config] /\ OnlyMoves /\ at.pc = "source"
        /\ runs[active.run].status = "completed"
      BY <1>9, Flat DEF ResolveSource
  <2> QED BY <1>0, <1>1, <1>2, <1>4, <2>1 DEF Counters
<1>10. CASE ObjectExists /\ ~Throw
    BY <1>0, <1>1, <1>10, Flat, Jumped DEF ObjectExists, Counters
<1>11. CASE DownloadStream /\ ~Throw
    BY <1>0, <1>1, <1>11, Flat, Jumped DEF DownloadStream, Counters
<1> QED BY <1>0, <1>5, <1>6, <1>7, <1>8, <1>9, <1>10, <1>11

\* A backup is loaded, the source of a restore is looked up.
LEMMA TakeJobDoes ==
    ASSUME Typed, TakeJob
    PROVE  /\ UNCHANGED <<runs, objects, config, fired, submitting, erasing, stalled, sweep,
                          process, crashes, data, replicas, revived>>
           /\ at.pc = "idle" /\ active = NoJob /\ queue # <<>>
           /\ active' = Head(queue) /\ queue' = Tail(queue) /\ active' \in Job
           /\ at'.excess = {}
           /\ \/ active'.kind = "backup" /\ at'.pc = "load" /\ at'.run = active'.run
              \/ active'.kind = "restore" /\ at'.pc = "source"
<1>1. Head(queue) \in Job
    BY DEF TakeJob, Typed, TypeOK
<1> QED BY <1>1 DEF TakeJob, Typed, Placed, store, cron, asks, host, live, Idle, Job

\* What the worker writes to the row in hand.
LEMMA StatusDoes ==
    ASSUME Typed, NEW status \in {"running", "completed", "failed"}, SetStatus(at.run, status), at.pc \in Dumping
    PROVE  /\ \A s \in Ids : /\ s # at.run => runs'[s] = runs[s]
                             /\ runs'[s].kind = runs[s].kind /\ runs'[s].config = runs[s].config
           /\ at.run \in Ids
           /\ Exists(at.run) => runs'[at.run].status = status
           /\ ~Exists(at.run) => runs'[at.run] = runs[at.run]
    BY StatusSet DEF Typed, TypeOK, Placed

\* The steps that write the row or the object of the run in hand.
LEMMA MarkRunningDoes ==
    ASSUME Typed, MarkRunning
    PROVE  /\ UNCHANGED <<objects, config, fired, submitting, erasing, queue, active, stalled, sweep,
                          process, crashes, data, replicas, revived>>
           /\ at.pc = "mark" /\ at'.pc = "connect" /\ Stays /\ at.excess = {}
           /\ SetStatus(at.run, "running")
    BY Jumped, Flat DEF MarkRunning, Typed, TypeOK, Placed, Counters, Stays, cron, asks, jobs, host, live

LEMMA CaptureDoes ==
    ASSUME Typed, Capture
    PROVE  /\ UNCHANGED <<runs, config, fired, submitting, erasing, queue, active, stalled, sweep,
                          process, crashes, data, replicas, revived>>
           /\ at.pc = "capture" /\ Stays /\ at.excess = {} /\ at.run \in Ids
           /\ \A s \in Ids \ {at.run} : objects'[s] = objects[s]
           /\ \/ at'.pc = "size" /\ objects'[at.run] = data
              \/ at'.pc = "discard"
              \/ at'.pc = "fail"
<1>1. at.pc = "capture" /\ at.run \in Ids /\ at.excess = {} /\ at \in Locals /\ objects \in [Ids -> Content]
    BY DEF Capture, Typed, TypeOK, Placed, Dumping
<1> QED BY <1>1, Jumped, Flat DEF Capture, Counters, Stays

LEMMA DiscardDoes ==
    ASSUME Typed, Discard
    PROVE  /\ UNCHANGED <<runs, config, fired, submitting, erasing, queue, active, stalled, sweep,
                          process, crashes, data, replicas, revived>>
           /\ at.pc = "discard" /\ at'.pc = "fail" /\ Stays /\ at.excess = {} /\ at.run \in Ids
           /\ \A s \in Ids \ {at.run} : objects'[s] = objects[s]
<1>1. at.pc = "discard" /\ at.run \in Ids /\ at.excess = {} /\ at \in Locals /\ objects \in [Ids -> Content]
    BY DEF Discard, Typed, TypeOK, Placed, Dumping
<1> QED BY <1>1, Jumped, Flat DEF Discard, Counters, Stays

LEMMA MarkCompletedDoes ==
    ASSUME Typed, MarkCompleted
    PROVE  /\ UNCHANGED <<objects, config, fired, submitting, erasing, queue, active, stalled, sweep,
                          process, crashes, data, replicas, revived>>
           /\ at.pc = "complete" /\ at'.pc = "prune" /\ Stays /\ at.excess = {}
           /\ SetStatus(at.run, "completed")
    BY Jumped, Flat DEF MarkCompleted, Typed, TypeOK, Placed, Counters, Stays

LEMMA MarkFailedDoes ==
    ASSUME Typed, MarkFailed
    PROVE  /\ UNCHANGED <<objects, config, fired, submitting, erasing, queue, stalled, sweep,
                          process, crashes, data, replicas, revived>>
           /\ at.pc = "fail" /\ active' = NoJob /\ at'.pc = "idle" /\ at'.excess = {}
           /\ SetStatus(at.run, "failed")
    BY Ended, Flat DEF MarkFailed

\* Retention: what goes is found, or nothing does and the dump returns.
LEMMA FindExcessDoes ==
    ASSUME Typed, FindExcess
    PROVE  /\ UNCHANGED <<runs, objects, config, fired, submitting, erasing, queue, stalled, sweep,
                          process, crashes, data, replicas, revived>>
           /\ at.pc = "prune" /\ at.excess = {}
           /\ \/ /\ at'.pc = "object" /\ at'.run = at.run /\ at'.config = at.config /\ UNCHANGED active
                 /\ at'.excess = Excess /\ at.config /\ config /\ Keep > 0
              \/ /\ at.config /\ config /\ Keep > 0 => Excess = {}
                 /\ at'.excess = {}
                 /\ \/ active.kind = "restore" /\ at'.pc = "download" /\ UNCHANGED active
                    \/ active.kind # "restore" /\ at'.pc = "idle" /\ active' = NoJob
<1> DEFINE excess == IF at.config /\ config /\ Keep > 0 THEN Excess ELSE {}
<1>1. at.pc = "prune" /\ at.excess = {} /\ at \in Locals
    BY DEF FindExcess, Typed, TypeOK, Placed
<1>2. UNCHANGED <<runs, objects, config, fired, submitting, erasing, sweep, process, crashes, data, replicas, revived>>
    BY Flat DEF FindExcess
<1>3. CASE Return /\ excess = {}
    BY <1>1, <1>2, <1>3, Returned, Ended, Flat
<1>4. CASE excess # {} /\ at' = [at EXCEPT !.pc = "object", !.excess = excess] /\ UNCHANGED jobs
  <2>1. at'.pc = "object" /\ at'.run = at.run /\ at'.config = at.config /\ at'.excess = excess
      BY <1>1, <1>4 DEF Locals
  <2> QED BY <1>1, <1>2, <1>4, <2>1, Flat
<1> QED BY <1>3, <1>4 DEF FindExcess

\* The run that goes next.
Going == Max(at.excess)

\* The object of the newest one that goes, ...
LEMMA PruneObjectDoes ==
    ASSUME Typed, PruneObject
    PROVE  /\ UNCHANGED <<runs, config, fired, submitting, erasing, queue, active, stalled, sweep,
                          process, crashes, data, replicas, revived>>
           /\ at.pc = "object" /\ at'.pc = "row" /\ Stays
           /\ Going \in at.excess /\ \A s \in at.excess : s <= Going
           /\ \A s \in Ids \ {Going} : objects'[s] = objects[s]
<1>1. at.pc = "object" /\ at.excess # {} /\ at.excess \subseteq Ids /\ at \in Locals /\ objects \in [Ids -> Content]
    BY DEF PruneObject, Typed, TypeOK, Placed, Locals
<1>2. Going \in at.excess /\ \A s \in at.excess : s <= Going
    BY <1>1, MaxOfRuns DEF Going
<1> QED BY <1>1, <1>2, Jumped, Flat DEF PruneObject, Counters, Stays, Going

\* ... its row, and then the next or the end.
LEMMA PruneRowDoes ==
    ASSUME Typed, PruneRow
    PROVE  /\ UNCHANGED <<objects, config, fired, submitting, erasing, queue, stalled, sweep,
                          process, crashes, data, replicas, revived>>
           /\ at.pc = "row"
           /\ Going \in at.excess /\ \A s \in at.excess : s <= Going
           /\ \A s \in Ids : /\ s # Going => runs'[s] = runs[s]
                             /\ runs'[s].kind = runs[s].kind /\ runs'[s].config = runs[s].config
           /\ Exists(Going) => runs'[Going].status = "deleted"
           /\ ~Exists(Going) => runs'[Going] = runs[Going]
           /\ at'.excess = at.excess \ {Going}
           /\ \/ at'.pc = "object" /\ at'.run = at.run /\ at'.config = at.config /\ UNCHANGED active
              \/ at'.excess = {} /\ active.kind = "restore" /\ at'.pc = "download" /\ UNCHANGED active
              \/ at'.excess = {} /\ active.kind # "restore" /\ at'.pc = "idle" /\ active' = NoJob
<1> DEFINE rest == at.excess \ {Max(at.excess)}
<1>1. at.pc = "row" /\ at.excess # {} /\ at.excess \subseteq Ids /\ at \in Locals /\ runs \in [Ids -> Run]
    BY DEF PruneRow, Typed, TypeOK, Placed, Locals
<1>2. Going \in at.excess /\ \A s \in at.excess : s <= Going
    BY <1>1, MaxOfRuns DEF Going
<1>3. /\ \A s \in Ids : /\ s # Going => runs'[s] = runs[s]
                        /\ runs'[s].kind = runs[s].kind /\ runs'[s].config = runs[s].config
      /\ Exists(Going) => runs'[Going].status = "deleted"
      /\ ~Exists(Going) => runs'[Going] = runs[Going]
    BY <1>1, <1>2, StatusSet DEF PruneRow, Going
<1>4. UNCHANGED <<objects, config, fired, submitting, erasing, sweep, process, crashes, data, replicas, revived>>
    BY Flat DEF PruneRow
<1>5. CASE Return /\ rest = {}
    BY <1>1, <1>2, <1>3, <1>4, <1>5, Returned, Ended, Flat DEF Going
<1>6. CASE rest # {} /\ at' = [at EXCEPT !.pc = "object", !.excess = rest] /\ UNCHANGED jobs
  <2>1. at'.pc = "object" /\ at'.run = at.run /\ at'.config = at.config /\ at'.excess = rest
      BY <1>1, <1>6 DEF Locals
  <2> QED BY <1>1, <1>2, <1>3, <1>4, <1>6, <2>1, Flat DEF Going
<1> QED BY <1>5, <1>6 DEF PruneRow

\* A restore that goes on to its safety backup is at the beginning of a dump,
\* of a run that is inserted for it.
LEMMA SafetyBackupDoes ==
    ASSUME Typed, SafetyBackup
    PROVE  /\ at.pc = "safety" /\ active.kind = "restore" /\ at.excess = {}
           /\ \/ OnlyEnds
              \/ OnlyMoves /\ Subject = "volume" /\ at'.pc = "download" /\ at'.excess = {}
              \/ /\ UNCHANGED <<objects, config, fired, submitting, erasing, queue, active, stalled, sweep,
                                process, crashes, data, replicas, revived>>
                 /\ at'.pc = "load" /\ at'.run \in Ids /\ at'.excess = {}
                 /\ runs[at'.run].status = "absent" /\ runs'[at'.run].status = "queued"
                 /\ runs'[at'.run].kind = "pre_restore" /\ runs'[at'.run].config = (Subject = "volume")
                 /\ \A s \in Ids : s < at'.run => runs[s].status # "absent"
                 /\ \A s \in Ids : s # at'.run => runs'[s] = runs[s]
                 /\ Subject = "volume" => config
<1>1. at.pc = "safety" /\ active.kind = "restore" /\ at.excess = {} /\ at \in Locals /\ runs \in [Ids -> Run]
    BY DEF SafetyBackup, Typed, TypeOK, Placed, Restoring
<1>2. CASE Throw
    BY <1>1, <1>2, Flat
<1>3. ASSUME NEW r \in Ids, Fresh(r), Insert(r, "pre_restore", Subject = "volume"),
             at' = [Idle EXCEPT !.pc = "load", !.run = r],
             UNCHANGED <<objects, cron, asks, jobs, sweep, host, live>>,
             Subject = "database" \/ (at.config /\ config)
      PROVE  /\ UNCHANGED <<objects, config, fired, submitting, erasing, queue, active, stalled, sweep,
                            process, crashes, data, replicas, revived>>
             /\ at'.pc = "load" /\ at'.run \in Ids /\ at'.excess = {}
             /\ runs[at'.run].status = "absent" /\ runs'[at'.run].status = "queued"
             /\ runs'[at'.run].kind = "pre_restore" /\ runs'[at'.run].config = (Subject = "volume")
             /\ \A s \in Ids : s < at'.run => runs[s].status # "absent"
             /\ \A s \in Ids : s # at'.run => runs'[s] = runs[s]
             /\ Subject = "volume" => config
  <2>1. at'.pc = "load" /\ at'.run = r /\ at'.excess = {}
      BY <1>3 DEF Idle
  <2>2. /\ runs[r].status = "absent" /\ \A s \in Ids : s < r => runs[s].status # "absent"
        /\ runs'[r].status = "queued" /\ runs'[r].kind = "pre_restore"
        /\ runs'[r].config = (Subject = "volume")
        /\ \A s \in Ids : s # r => runs'[s] = runs[s]
      BY <1>1, <1>3, Inserted
  <2> QED BY <1>3, <2>1, <2>2, Flat
<1>4. CASE /\ Subject = "volume" /\ Goto("download")
           /\ UNCHANGED <<store, cron, asks, jobs, sweep, host, live>>
    BY <1>1, <1>4, Jumped, Flat DEF Counters
<1>5. CASE Subject = "database" \/ (at.config /\ config)
  <2>1. \/ Throw
        \/ \E r \in Ids : /\ Fresh(r) /\ Insert(r, "pre_restore", Subject = "volume")
                          /\ at' = [Idle EXCEPT !.pc = "load", !.run = r]
                          /\ UNCHANGED <<objects, cron, asks, jobs, sweep, host, live>>
        \/ /\ Subject = "volume" /\ Goto("download")
           /\ UNCHANGED <<store, cron, asks, jobs, sweep, host, live>>
      BY DEF SafetyBackup
  <2> QED BY <1>1, <1>2, <1>3, <1>4, <1>5, <2>1
<1>6. CASE ~(Subject = "database" \/ (at.config /\ config))
    BY <1>2, <1>4, <1>6 DEF SafetyBackup
<1> QED BY <1>5, <1>6

\* The steps that change the data and the replicas.
LEMMA ApplyDoes ==
    ASSUME Typed, ScaleDown \/ Wipe \/ Fill \/ ScaleUp
    PROVE  /\ at.pc \in {"down", "wipe", "fill", "up"} /\ at.excess = {} /\ at'.excess = {}
           /\ \/ OnlyEnds
              \/ /\ UNCHANGED <<runs, objects, config, fired, submitting, erasing, queue, stalled, sweep,
                                process, crashes>>
                 /\ \/ at'.pc # "idle" /\ UNCHANGED active
                    \/ at'.pc = "idle" /\ active' = NoJob
                 /\ \/ at.pc = "down" /\ at'.pc \in {"wipe", "idle"} /\ replicas' = 0 /\ UNCHANGED data
                    \/ at.pc = "wipe" /\ at'.pc = "fill" /\ data' = "torn" /\ UNCHANGED <<replicas, revived>>
                    \/ /\ at.pc = "fill" /\ data' = "restored" /\ UNCHANGED <<replicas, revived>>
                       /\ at'.pc = IF Subject = "volume" THEN "up" ELSE "idle"
                    \/ at.pc = "up" /\ at'.pc = "idle" /\ replicas' = 1 /\ UNCHANGED data
<1>1. at.excess = {} /\ at \in Locals /\ at.pc \in {"down", "wipe", "fill", "up"}
    BY DEF ScaleDown, Wipe, Fill, ScaleUp, Typed, TypeOK, Placed
<1>2. CASE Throw
    BY <1>1, <1>2, Flat DEF OnlyEnds
<1>3. CASE ScaleDown /\ ~Throw
    BY <1>1, <1>3, Jumped, Ended, Flat DEF ScaleDown, Counters
<1>4. CASE Wipe /\ ~Throw
    BY <1>1, <1>4, Jumped, Ended, Flat DEF Wipe, Counters
<1>5. CASE Fill /\ ~Throw
    BY <1>1, <1>5, Jumped, Ended, Flat DEF Fill, Counters
<1>6. CASE ScaleUp /\ ~Throw
    BY <1>1, <1>6, Jumped, Ended, Flat DEF ScaleUp, Counters
<1> QED BY <1>1, <1>2, <1>3, <1>4, <1>5, <1>6

\* A worker that dies holds nothing; its rows, objects and jobs stay, ...
LEMMA CrashDoes ==
    ASSUME Typed, Crash
    PROVE  /\ UNCHANGED <<runs, objects, config, fired, submitting, erasing, queue, data, replicas, revived>>
           /\ crashes' > 0 /\ at'.pc = "idle" /\ at'.excess = {} /\ active' = NoJob
           /\ sweep' = Rest /\ sweep'.pc = "idle"
           /\ stalled' \in {active, stalled}
<1>1. crashes \in Nat
    BY BackupAssumption DEF Typed, TypeOK, Instance, MaxCrashes
<1> QED BY <1>1, Flat DEF Crash, Rest, Idle, store, cron, asks, live

\* ... until it is back: what was running has failed.
LEMMA RecoverRunsDoes ==
    ASSUME Typed, RecoverRuns
    PROVE  /\ UNCHANGED <<objects, config, fired, submitting, erasing, queue, active, stalled, at, sweep,
                          crashes, data, replicas, revived>>
           /\ crashes > 0 /\ at.pc = "idle" /\ at.excess = {}
           /\ \A r \in Ids :
                /\ runs[r].status # "running" => runs'[r] = runs[r]
                /\ runs[r].status = "running" => runs'[r].status = "failed"
                /\ runs'[r].kind = runs[r].kind /\ runs'[r].config = runs[r].config
<1>1. crashes > 0 /\ at.pc = "idle" /\ at.excess = {} /\ runs \in [Ids -> Run]
    BY DEF RecoverRuns, Typed, TypeOK, Placed
<1>2. \A r \in Ids :
        /\ runs[r].status # "running" => runs'[r] = runs[r]
        /\ runs[r].status = "running" => runs'[r] = [runs[r] EXCEPT !.status = "failed"]
    BY DEF RecoverRuns
<1>3. \A r \in Ids :
        /\ runs[r].status # "running" => runs'[r] = runs[r]
        /\ runs[r].status = "running" => runs'[r].status = "failed"
        /\ runs'[r].kind = runs[r].kind /\ runs'[r].config = runs[r].config
  <2> SUFFICES ASSUME NEW r \in Ids
               PROVE  /\ runs[r].status # "running" => runs'[r] = runs[r]
                      /\ runs[r].status = "running" => runs'[r].status = "failed"
                      /\ runs'[r].kind = runs[r].kind /\ runs'[r].config = runs[r].config
      OBVIOUS
  <2>1. PICK run \in Run : run = runs[r]
      BY <1>1
  <2>2. runs'[r] = run \/ runs'[r] = [run EXCEPT !.status = "failed"]
      BY <1>2, <2>1
  <2>3. run.status = "running" => runs'[r] = [run EXCEPT !.status = "failed"]
      BY <1>2, <2>1
  <2>4. run.status # "running" => runs'[r] = run
      BY <1>2, <2>1
  <2> QED BY <2>1, <2>3, <2>4 DEF Run
<1> QED BY <1>1, <1>3 DEF RecoverRuns, cron, asks, jobs, live

\* Then BullMQ gives it the job it held.
LEMMA StalledJobReturnsDoes ==
    ASSUME Typed, StalledJobReturns
    PROVE  /\ UNCHANGED <<runs, objects, config, fired, submitting, erasing, active, at, sweep,
                          process, crashes, data, replicas, revived>>
           /\ crashes > 0 /\ stalled # NoJob /\ stalled' = NoJob
           /\ queue' = <<[stalled EXCEPT !.again = TRUE]>> \o queue
<1>1. crashes > 0
  <2>1. crashes \in Nat /\ crashes # 0
      BY BackupAssumption DEF StalledJobReturns, Typed, TypeOK, Placed, Instance, MaxCrashes
  <2> QED BY <2>1
<1> QED BY <1>1, Flat DEF StalledJobReturns

\* Those who scale the service write nothing else, and up is their doing.
LEMMA ServeDoes ==
    ASSUME RunOtherJob \/ WatchRedeploys
    PROVE  OnlyMoves /\ UNCHANGED at /\ (replicas' = 0 \/ revived')
    BY DEF RunOtherJob, WatchRedeploys, OnlyMoves, store, cron, asks, jobs, host

\* What a step may be.
LEMMA StepCases ==
    ASSUME [Next]_vars
    PROVE  \/ Dashboard \/ StartSweep \/ SweepStep
           \/ TakeJob
           \/ Load \/ Connect \/ UploadedSize \/ ResolveSource \/ ObjectExists \/ DownloadStream
           \/ MarkRunning \/ Capture \/ Discard \/ MarkCompleted \/ MarkFailed
           \/ FindExcess \/ PruneObject \/ PruneRow
           \/ SafetyBackup
           \/ ScaleDown \/ Wipe \/ Fill \/ ScaleUp
           \/ Crash \/ RecoverRuns \/ StalledJobReturns
           \/ OnlyMoves /\ UNCHANGED at
<1>1. UNCHANGED vars => OnlyMoves /\ UNCHANGED at
    BY DEF vars, steps, OnlyMoves, store, cron, asks, jobs, host, live
<1> QED BY <1>1, ServeDoes DEF Next, Step, Backup, Restore

\* What is backed up and what operators do is fixed.
LEMMA SubjectStays == ASSUME [Next]_vars PROVE UNCHANGED <<instance, Subject, Requests>>
    BY DEF Next, vars, Subject, Requests

-----------------------------------------------------------------------------
(* A half restored volume is not served *)

\* Who leaves the volume and its service alone.
LEMMA LiveStays ==
    ASSUME [Next]_vars
    PROVE  \/ UNCHANGED <<data, replicas, revived>>
           \/ ScaleDown \/ Wipe \/ Fill \/ ScaleUp
           \/ RunOtherJob \/ WatchRedeploys
<1>1. Dashboard \/ StartSweep \/ SweepStep \/ TakeJob \/ Backup => UNCHANGED live
  <2>1. Dashboard => UNCHANGED live
      BY DEF Dashboard, TriggerInsert, TriggerEnqueue, TriggerLost, EraseRead, EraseObject, EraseRow,
             TriggerRestore, DropConfig, CronFires
  <2>2. StartSweep \/ SweepStep \/ TakeJob => UNCHANGED live
      BY DEF StartSweep, SweepStep, FindInFlight, CheckDue, InsertScheduled, EnqueueScheduled, TakeJob
  <2>3. Backup => UNCHANGED live
      BY DEF Backup, Load, MarkRunning, Connect, Capture, Discard, UploadedSize, MarkCompleted, MarkFailed,
             FindExcess, PruneObject, PruneRow, Throw
  <2> QED BY <2>1, <2>2, <2>3
<1>2. ResolveSource \/ ObjectExists \/ SafetyBackup \/ DownloadStream => UNCHANGED live
    BY DEF ResolveSource, ObjectExists, SafetyBackup, DownloadStream, Throw
<1>3. Crash \/ RecoverRuns \/ StalledJobReturns => UNCHANGED live
    BY DEF Crash, RecoverRuns, StalledJobReturns
<1>4. UNCHANGED vars => UNCHANGED live
    BY DEF vars, steps
<1> QED BY <1>1, <1>2, <1>3, <1>4 DEF Next, Step, Restore, live

\* Where the worker stands after a step that is not of the volume's restore.
LEMMA NotRestoring ==
    ASSUME Typed, [Next]_vars, ~(ScaleDown \/ Wipe \/ Fill \/ ScaleUp), at'.pc \in {"wipe", "fill", "up"}
    PROVE  UNCHANGED at \/ (Subject # "volume" /\ at'.pc = "wipe")
<1>1. CASE Dashboard \/ StartSweep \/ SweepStep
    BY <1>1, AsideDoes
<1>2. CASE TakeJob
    BY <1>2, TakeJobDoes
<1>3. CASE Load \/ Connect \/ UploadedSize \/ ResolveSource \/ ObjectExists \/ DownloadStream
    BY <1>3, MovesDo DEF OnlyEnds
<1>4. CASE MarkRunning \/ Capture \/ Discard \/ MarkCompleted \/ MarkFailed
    BY <1>4, MarkRunningDoes, CaptureDoes, DiscardDoes, MarkCompletedDoes, MarkFailedDoes
<1>5. CASE FindExcess \/ PruneObject \/ PruneRow
    BY <1>5, FindExcessDoes, PruneObjectDoes, PruneRowDoes
<1>6. CASE SafetyBackup
    BY <1>6, SafetyBackupDoes DEF OnlyEnds
<1>7. CASE Crash \/ RecoverRuns \/ StalledJobReturns
    BY <1>7, CrashDoes, RecoverRunsDoes, StalledJobReturnsDoes
<1>8. CASE OnlyMoves /\ UNCHANGED at
    BY <1>8
<1> QED BY <1>1, <1>2, <1>3, <1>4, <1>5, <1>6, <1>7, <1>8, StepCases

\* Every step keeps Down: only the restore that scaled it down touches the
\* volume, and who scales its service up meanwhile says so.
LEMMA DownStep ==
    ASSUME Typed, Down, [Next]_vars
    PROVE  Down'
<1> USE SubjectStays DEF Down
<1>1. CASE ScaleDown \/ Wipe \/ Fill \/ ScaleUp
  <2>1. CASE OnlyEnds
      BY <2>1 DEF OnlyEnds
  <2>2. CASE ~OnlyEnds
      BY <1>1, <2>2, ApplyDoes
  <2> QED BY <2>1, <2>2
<1>2. CASE ~(ScaleDown \/ Wipe \/ Fill \/ ScaleUp)
  <2>1. at'.pc \in {"wipe", "fill", "up"} => UNCHANGED at \/ (Subject # "volume" /\ at'.pc = "wipe")
      BY <1>2, NotRestoring
  <2>2. CASE UNCHANGED <<data, replicas, revived>>
      BY <2>1, <2>2
  <2>3. CASE RunOtherJob \/ WatchRedeploys
    <3>1. (replicas' = 0 \/ revived') /\ UNCHANGED <<data, at>>
        BY <2>3, ServeDoes DEF OnlyMoves
    <3> QED BY <3>1
  <2> QED BY <1>2, <2>2, <2>3, LiveStays
<1> QED BY <1>1, <1>2

-----------------------------------------------------------------------------
(* What the jobs and the worker are about *)

\* Rows that were inserted stay inserted, and keep their kind.
LEMMA RowsStay ==
    ASSUME Typed, [Next]_vars
    PROVE  \A r \in Ids : runs[r].status # "absent" =>
               runs'[r].status # "absent" /\ runs'[r].kind = runs[r].kind
<1>1. CASE Dashboard \/ StartSweep \/ SweepStep
    BY <1>1, AsideDoes
<1>2. CASE TakeJob
    BY <1>2, TakeJobDoes
<1>3. CASE Load \/ Connect \/ UploadedSize \/ ResolveSource \/ ObjectExists \/ DownloadStream
    BY <1>3, MovesDo DEF OnlyMoves, OnlyEnds
<1>4. CASE MarkRunning \/ MarkCompleted \/ MarkFailed
  <2>1. at.pc \in Dumping /\ \E status \in {"running", "completed", "failed"} : SetStatus(at.run, status)
      BY <1>4, MarkRunningDoes, MarkCompletedDoes, MarkFailedDoes DEF Dumping
  <2> QED BY <2>1, StatusDoes
<1>5. CASE Capture \/ Discard
    BY <1>5, CaptureDoes, DiscardDoes
<1>6. CASE FindExcess \/ PruneObject \/ PruneRow
    BY <1>6, FindExcessDoes, PruneObjectDoes, PruneRowDoes DEF Exists
<1>7. CASE SafetyBackup
    BY <1>7, SafetyBackupDoes DEF OnlyMoves, OnlyEnds
<1>8. CASE ScaleDown \/ Wipe \/ Fill \/ ScaleUp
    BY <1>8, ApplyDoes DEF OnlyEnds
<1>9. CASE Crash \/ RecoverRuns \/ StalledJobReturns
    BY <1>9, CrashDoes, RecoverRunsDoes, StalledJobReturnsDoes
<1>10. CASE OnlyMoves /\ UNCHANGED at
    BY <1>10 DEF OnlyMoves
<1> QED BY <1>1, <1>2, <1>3, <1>4, <1>5, <1>6, <1>7, <1>8, <1>9, <1>10, StepCases

\* So what is proper stays proper.
LEMMA ProperStays ==
    ASSUME Typed, [Next]_vars
    PROVE  Proper \subseteq Proper'
    BY RowsStay DEF Proper, Job

\* Sequences over a larger set.
LEMMA SeqGrows ==
    ASSUME NEW S, NEW T, S \subseteq T, NEW q \in Seq(S)
    PROVE  q \in Seq(T)
    OBVIOUS

\* A proper job is put on the queue.
LEMMA EnqueueKnown ==
    ASSUME Typed, KnownJobs, [Next]_vars, NEW kind, NEW r \in Ids, Enqueue(kind, r), NewJob(kind, r) \in Proper
    PROVE  KnownJobs'
<1>1. queue \in Seq(Proper') /\ NewJob(kind, r) \in Proper' /\ Proper \subseteq Proper'
    BY ProperStays, SeqGrows DEF KnownJobs
<1> QED BY <1>1 DEF Enqueue, KnownJobs

\* Jobs are about what is there: those the dashboard and the sweep enqueue, and
\* those that come back.
LEMMA KnownJobsStep ==
    ASSUME Typed, Known, [Next]_vars
    PROVE  KnownJobs'
<1> USE DEF Known
<1>0. queue \in Seq(Proper') /\ Proper \subseteq Proper'
    BY ProperStays, SeqGrows DEF KnownJobs
\* Steps that add no job.
<1>a. ASSUME UNCHANGED queue, active' \in {active, NoJob}, stalled' \in {active, stalled} PROVE KnownJobs'
    BY <1>0, <1>a DEF KnownJobs
<1>1. CASE Dashboard \/ StartSweep \/ SweepStep
  <2>1. ASSUME NEW r \in Ids, TriggerEnqueue(r) PROVE KnownJobs'
    <3>1. NewJob("backup", r) \in Proper /\ Enqueue("backup", r)
        BY <2>1 DEF TriggerEnqueue, KnownAsks, NewJob, Proper, Job
    <3> QED BY <3>1, EnqueueKnown
  <2>2. ASSUME NEW r \in Ids, TriggerRestore(r) PROVE KnownJobs'
    <3>1. NewJob("restore", r) \in Proper /\ Enqueue("restore", r)
        BY <2>2 DEF TriggerRestore, NewJob, Proper, Job
    <3> QED BY <3>1, EnqueueKnown
  <2>3. CASE EnqueueScheduled /\ ~UNCHANGED jobs
    <3>1. sweep.pc = "enqueue" /\ sweep.run \in Ids
        BY <2>3 DEF EnqueueScheduled, Typed, Placed
    <3>2. NewJob("backup", sweep.run) \in Proper /\ Enqueue("backup", sweep.run)
        BY <2>3, <3>1 DEF EnqueueScheduled, KnownAsks, NewJob, Proper, Job
    <3> QED BY <3>1, <3>2, EnqueueKnown
  <2>4. CASE UNCHANGED jobs
      BY <1>a, <2>4 DEF jobs
  <2>5. \/ UNCHANGED jobs \/ EnqueueScheduled
        \/ \E r \in Ids : TriggerEnqueue(r) \/ TriggerRestore(r)
      BY <1>1 DEF Dashboard, TriggerInsert, TriggerLost, EraseRead, EraseObject, EraseRow, DropConfig, CronFires,
                  StartSweep, SweepStep, FindInFlight, CheckDue, InsertScheduled
  <2> QED BY <2>1, <2>2, <2>3, <2>4, <2>5
<1>2. CASE TakeJob
  <2>1. Tail(queue) \in Seq(Proper') /\ Head(queue) \in Proper'
      BY <1>0, <1>2, TakeJobDoes
  <2> QED BY <1>0, <1>2, <2>1, TakeJobDoes DEF KnownJobs
<1>3. CASE Load \/ Connect \/ UploadedSize \/ ResolveSource \/ ObjectExists \/ DownloadStream
    BY <1>3, <1>a, MovesDo DEF OnlyMoves, OnlyEnds
<1>4. CASE MarkRunning \/ Capture \/ Discard \/ MarkCompleted \/ MarkFailed
    BY <1>4, <1>a, MarkRunningDoes, CaptureDoes, DiscardDoes, MarkCompletedDoes, MarkFailedDoes
<1>5. CASE FindExcess \/ PruneObject \/ PruneRow
    BY <1>5, <1>a, FindExcessDoes, PruneObjectDoes, PruneRowDoes
<1>6. CASE SafetyBackup
    BY <1>6, <1>a, SafetyBackupDoes DEF OnlyMoves, OnlyEnds
<1>7. CASE ScaleDown \/ Wipe \/ Fill \/ ScaleUp
    BY <1>7, <1>a, ApplyDoes DEF OnlyEnds
<1>8. CASE Crash \/ RecoverRuns
    BY <1>8, <1>a, CrashDoes, RecoverRunsDoes
<1>9. CASE StalledJobReturns
  <2>1. stalled \in Proper
      BY <1>9, StalledJobReturnsDoes DEF KnownJobs
  <2>2. [stalled EXCEPT !.again = TRUE] \in Proper
      BY <2>1 DEF Proper, Job
  <2>3. <<[stalled EXCEPT !.again = TRUE]>> \in Seq(Proper')
      BY <1>0, <2>2
  <2>4. queue' \in Seq(Proper')
      BY <1>0, <1>9, <2>3, ConcatProperties, StalledJobReturnsDoes
  <2> QED BY <1>0, <1>9, <2>4, StalledJobReturnsDoes DEF KnownJobs
<1>10. CASE OnlyMoves /\ UNCHANGED at
    BY <1>10, <1>a DEF OnlyMoves
<1> QED BY <1>1, <1>2, <1>3, <1>4, <1>5, <1>6, <1>7, <1>8, <1>9, <1>10, StepCases

\* So is what the dashboard and the sweep have yet to enqueue or to delete.
LEMMA KnownAsksStep ==
    ASSUME Typed, Known, [Next]_vars
    PROVE  KnownAsks'
<1> USE DEF Known
<1>0. \A r \in Ids : runs[r].status # "absent" => runs'[r].status # "absent" /\ runs'[r].kind = runs[r].kind
    BY RowsStay
<1>b. submitting \subseteq Ids /\ (sweep.pc = "enqueue" => sweep.run \in Ids)
    BY DEF Typed, TypeOK, Placed
\* A row that is still absent is as it was.
<1>c. \A r \in Ids : runs'[r].status = "absent" => runs'[r] = NoRun
  <2>1. ASSUME NEW r \in Ids, runs'[r].status = "absent" PROVE runs'[r] = NoRun
    <3>1. runs[r] = NoRun
        BY <1>0, <2>1 DEF KnownAsks
    <3>2. runs[r].status = "absent" /\ runs[r].kind = "manual" /\ runs[r].config = FALSE
        BY <3>1 DEF NoRun
    <3>3. runs'[r].kind = "manual" /\ runs'[r].config = FALSE
      <4>1. CASE Dashboard \/ StartSweep \/ SweepStep
          BY <2>1, <3>2, <4>1, AsideDoes
      <4>2. CASE TakeJob
          BY <3>2, <4>2, TakeJobDoes
      <4>3. CASE Load \/ Connect \/ UploadedSize \/ ResolveSource \/ ObjectExists \/ DownloadStream
          BY <3>2, <4>3, MovesDo DEF OnlyMoves, OnlyEnds
      <4>4. CASE MarkRunning \/ MarkCompleted \/ MarkFailed
        <5>1. at.pc \in Dumping /\ \E status \in {"running", "completed", "failed"} : SetStatus(at.run, status)
            BY <4>4, MarkRunningDoes, MarkCompletedDoes, MarkFailedDoes DEF Dumping
        <5> QED BY <3>2, <5>1, StatusDoes
      <4>5. CASE Capture \/ Discard
          BY <3>2, <4>5, CaptureDoes, DiscardDoes
      <4>6. CASE FindExcess \/ PruneObject \/ PruneRow
          BY <3>2, <4>6, FindExcessDoes, PruneObjectDoes, PruneRowDoes
      <4>7. CASE SafetyBackup
          BY <2>1, <3>2, <4>7, SafetyBackupDoes DEF OnlyMoves, OnlyEnds
      <4>8. CASE ScaleDown \/ Wipe \/ Fill \/ ScaleUp
          BY <3>2, <4>8, ApplyDoes DEF OnlyEnds
      <4>9. CASE Crash \/ RecoverRuns \/ StalledJobReturns
          BY <3>2, <4>9, CrashDoes, RecoverRunsDoes, StalledJobReturnsDoes
      <4>10. CASE OnlyMoves /\ UNCHANGED at
          BY <3>2, <4>10 DEF OnlyMoves
      <4> QED BY <4>1, <4>2, <4>3, <4>4, <4>5, <4>6, <4>7, <4>8, <4>9, <4>10, StepCases
    <3>4. runs'[r] \in Run
        BY TypedStep DEF Typed, TypeOK
    <3> QED BY <2>1, <3>3, <3>4 DEF Run, NoRun
  <2> QED BY <2>1
\* Steps that begin nothing.
<1>a. ASSUME submitting' \subseteq submitting, sweep'.pc = "enqueue" => UNCHANGED sweep,
             \A r \in Ids : erasing'[r] # "no" => erasing[r] # "no" \/ runs[r].status # "absent"
      PROVE  KnownAsks'
    BY <1>0, <1>a, <1>b, <1>c DEF KnownAsks
<1>d. ASSUME UNCHANGED <<submitting, sweep, erasing>> PROVE KnownAsks'
    BY <1>a, <1>d DEF KnownAsks
<1>1. CASE Dashboard \/ StartSweep \/ SweepStep
  <2>1. ASSUME NEW r \in Ids, TriggerInsert(r) PROVE KnownAsks'
    <3>1. /\ runs'[r].status = "queued" /\ runs'[r].kind = "manual" /\ submitting' = submitting \cup {r}
          /\ UNCHANGED <<sweep, erasing>>
        BY <2>1, Inserted DEF TriggerInsert, Typed, TypeOK
    <3> QED BY <1>0, <1>b, <1>c, <3>1 DEF KnownAsks
  <2>2. ASSUME NEW r \in Ids, TriggerEnqueue(r) \/ TriggerLost(r) \/ TriggerRestore(r) PROVE KnownAsks'
      BY <1>a, <2>2 DEF KnownAsks, TriggerEnqueue, TriggerLost, TriggerRestore, asks
  <2>3. ASSUME NEW r \in Ids, EraseRead(r) \/ EraseObject(r) \/ EraseRow(r) PROVE KnownAsks'
    <3>1. UNCHANGED <<submitting, sweep>> /\ erasing \in [Ids -> {"no", "object", "row", "erased"}]
          /\ \E how \in {"object", "row", "erased"} : erasing' = [erasing EXCEPT ![r] = how]
        BY <2>3 DEF EraseRead, EraseObject, EraseRow, Typed, TypeOK
    <3>2. runs[r].status # "absent"
        BY <2>3 DEF EraseRead, EraseObject, EraseRow, KnownAsks
    <3> QED BY <1>a, <3>1, <3>2
  <2>4. CASE DropConfig \/ CronFires
      BY <1>d, <2>4 DEF DropConfig, CronFires, asks
  <2>5. CASE StartSweep \/ FindInFlight \/ CheckDue \/ EnqueueScheduled
    <3>1. sweep'.pc # "enqueue" /\ UNCHANGED <<submitting, erasing>>
        BY <2>5 DEF StartSweep, FindInFlight, CheckDue, EnqueueScheduled, Rest, asks, Typed, TypeOK, Sweep
    <3> QED BY <1>a, <3>1
  <2>6. CASE InsertScheduled
    <3>0. UNCHANGED <<submitting, erasing>>
        BY <2>6 DEF InsertScheduled, asks
    <3>1. CASE sweep' = Rest
        BY <1>a, <3>0, <3>1 DEF Rest
    <3>2. ASSUME NEW r \in Ids, Fresh(r), Insert(r, "scheduled", TRUE), sweep' = [pc |-> "enqueue", run |-> r]
          PROVE  KnownAsks'
      <4>1. runs'[r].status = "queued" /\ runs'[r].kind = "scheduled" /\ sweep'.run = r
          BY <3>2, Inserted DEF Typed, TypeOK
      <4> QED BY <1>0, <1>b, <1>c, <3>0, <4>1 DEF KnownAsks
    <3> QED BY <2>6, <3>1, <3>2 DEF InsertScheduled
  <2> QED BY <1>1, <2>1, <2>2, <2>3, <2>4, <2>5, <2>6 DEF Dashboard, SweepStep
<1>2. CASE TakeJob
    BY <1>2, <1>d, TakeJobDoes
<1>3. CASE Load \/ Connect \/ UploadedSize \/ ResolveSource \/ ObjectExists \/ DownloadStream
    BY <1>3, <1>d, MovesDo DEF OnlyMoves, OnlyEnds
<1>4. CASE MarkRunning \/ Capture \/ Discard \/ MarkCompleted \/ MarkFailed
    BY <1>4, <1>d, MarkRunningDoes, CaptureDoes, DiscardDoes, MarkCompletedDoes, MarkFailedDoes
<1>5. CASE FindExcess \/ PruneObject \/ PruneRow
    BY <1>5, <1>d, FindExcessDoes, PruneObjectDoes, PruneRowDoes
<1>6. CASE SafetyBackup
    BY <1>6, <1>d, SafetyBackupDoes DEF OnlyMoves, OnlyEnds
<1>7. CASE ScaleDown \/ Wipe \/ Fill \/ ScaleUp
    BY <1>7, <1>d, ApplyDoes DEF OnlyEnds
<1>8. CASE RecoverRuns \/ StalledJobReturns
    BY <1>8, <1>d, RecoverRunsDoes, StalledJobReturnsDoes
<1>9. CASE Crash
    BY <1>9, <1>a, CrashDoes DEF KnownAsks
<1>10. CASE OnlyMoves /\ UNCHANGED at
    BY <1>10, <1>d DEF OnlyMoves
<1> QED BY <1>1, <1>2, <1>3, <1>4, <1>5, <1>6, <1>7, <1>8, <1>9, <1>10, StepCases

\* So is what the worker has in hand, and what it is about to drop.
LEMMA KnownHandStep ==
    ASSUME Typed, Known, [Next]_vars
    PROVE  KnownHand'
<1> USE DEF Known
<1>0. \A r \in Ids : runs[r].status # "absent" => runs'[r].status # "absent" /\ runs'[r].kind = runs[r].kind
    BY RowsStay
<1>b. at.excess \subseteq Ids /\ (at.pc \in Dumping => at.run \in Ids)
    BY DEF Typed, TypeOK, Placed, Locals
\* Steps that end the pipeline, or stay in it.
<1>a. ASSUME at'.pc \in Dumping => at.pc \in Dumping /\ at'.run = at.run /\ UNCHANGED active,
             at'.excess \subseteq at.excess,
             \A r \in at.excess : runs'[r].status \in {runs[r].status, "deleted"}
      PROVE  KnownHand'
    BY <1>0, <1>a, <1>b DEF KnownHand
<1>1. CASE Dashboard \/ StartSweep \/ SweepStep
    BY <1>1, <1>a, <1>b, AsideDoes DEF KnownHand
<1>2. CASE TakeJob
  <2>1. active' \in Proper
      BY <1>2, TakeJobDoes DEF KnownJobs
  <2> QED BY <1>2, <2>1, TakeJobDoes DEF KnownHand, Proper, Dumping
<1>3. CASE Load \/ Connect \/ UploadedSize \/ ResolveSource \/ ObjectExists \/ DownloadStream
  <2>1. CASE OnlyEnds
      BY <1>a, <1>b, <2>1 DEF OnlyEnds, Dumping
  <2> QED BY <1>3, <1>a, <1>b, <2>1, MovesDo DEF OnlyMoves, Dumping
<1>4. CASE MarkRunning \/ MarkCompleted \/ MarkFailed
  <2>1. at.pc \in Dumping /\ at.excess = {} /\ \E status \in {"running", "completed", "failed"} : SetStatus(at.run, status)
      BY <1>4, MarkRunningDoes, MarkCompletedDoes, MarkFailedDoes DEF Dumping, Typed, Placed
  <2> QED BY <1>4, <1>a, <2>1, MarkRunningDoes, MarkCompletedDoes, MarkFailedDoes DEF Stays, Dumping
<1>5. CASE Capture \/ Discard
    BY <1>5, <1>a, CaptureDoes, DiscardDoes DEF Stays, Dumping
<1>6. CASE FindExcess
  <2>1. at.pc \in Dumping
      BY <1>6, FindExcessDoes DEF Dumping
  <2>2. CASE at'.excess = Excess /\ at'.run = at.run /\ UNCHANGED active
      BY <1>0, <1>6, <1>b, <2>1, <2>2, FindExcessDoes DEF KnownHand, Excess, Completed
  <2>3. CASE at'.excess = {} /\ at'.pc \in {"download", "idle"}
      BY <1>6, <1>a, <1>b, <2>3, FindExcessDoes DEF Dumping
  <2> QED BY <1>6, <2>2, <2>3, FindExcessDoes
<1>7. CASE PruneObject
    BY <1>7, <1>a, <1>b, PruneObjectDoes DEF Stays, Dumping
<1>8. CASE PruneRow
  <2>1. at.pc \in Dumping /\ at'.excess \subseteq at.excess
        /\ \A r \in at.excess : runs'[r].status \in {runs[r].status, "deleted"}
      BY <1>8, <1>b, PruneRowDoes DEF Dumping
  <2>2. at'.pc \in Dumping => at'.run = at.run /\ UNCHANGED active
      BY <1>8, PruneRowDoes DEF Dumping
  <2> QED BY <1>a, <2>1, <2>2
<1>9. CASE SafetyBackup
    BY <1>9, <1>a, <1>b, SafetyBackupDoes DEF OnlyMoves, OnlyEnds, KnownHand, Dumping, KnownJobs, Proper, Job
<1>10. CASE ScaleDown \/ Wipe \/ Fill \/ ScaleUp
    BY <1>10, <1>a, <1>b, ApplyDoes DEF OnlyEnds, Dumping
<1>11. CASE Crash \/ RecoverRuns \/ StalledJobReturns
    BY <1>11, <1>a, <1>b, CrashDoes, RecoverRunsDoes, StalledJobReturnsDoes DEF Dumping
<1>12. CASE OnlyMoves /\ UNCHANGED at
    BY <1>12, <1>a, <1>b DEF OnlyMoves
<1> QED BY <1>1, <1>2, <1>3, <1>4, <1>5, <1>6, <1>7, <1>8, <1>9, <1>10, <1>11, <1>12, StepCases

\* Every step keeps Known.
LEMMA KnownStep ==
    ASSUME Typed, Known, [Next]_vars
    PROVE  Known'
    BY KnownJobsStep, KnownAsksStep, KnownHandStep DEF Known

-----------------------------------------------------------------------------
(* The run in hand *)

\* The row in hand was queued when it was taken, and nobody else writes it.
LEMMA InHandStep ==
    ASSUME Typed, Known, InHand, Once, [Next]_vars
    PROVE  InHand'
<1>0. at.pc \in Dumping => at.run \in Ids /\ runs[at.run].status # "absent"
    BY DEF Typed, Placed, Known, KnownHand
<1>1. CASE Dashboard \/ StartSweep \/ SweepStep
  <2>1. SUFFICES ASSUME at.pc \in Dumping, active.kind = "restore" \/ crashes = 0 PROVE InHand'
      BY <1>1, AsideDoes DEF InHand
  <2>2. ASSUME at.pc \notin {"prune", "object", "row"}
        PROVE  runs[at.run].status \in {"queued", "running"} /\ erasing[at.run] = "no"
               /\ runs'[at.run].status = runs[at.run].status /\ erasing'[at.run] = "no"
      BY <1>0, <1>1, <2>1, <2>2, AsideDoes DEF InHand, Dumping
  <2> QED BY <1>1, <2>1, <2>2, AsideDoes DEF InHand
<1>2. CASE TakeJob
  <2>1. ASSUME crashes = 0, active'.kind = "backup"
        PROVE  runs[active'.run].status = "queued" /\ erasing[active'.run] = "no"
    <3>1. 1 \in DOMAIN queue /\ queue[1] = active' /\ active' \in Job
        BY <1>2, TakeJobDoes DEF Typed, TypeOK
    <3>2. runs[active'.run].status = "queued"
        BY <2>1, <3>1 DEF Once, Waits
    <3> QED BY <2>1, <3>1, <3>2 DEF Once, Job
  <2> QED BY <1>2, <2>1, TakeJobDoes DEF InHand, Dumping
<1>3. CASE Load \/ Connect \/ UploadedSize \/ ResolveSource \/ ObjectExists \/ DownloadStream
    BY <1>3, MovesDo DEF OnlyMoves, OnlyEnds, InHand, Dumping
<1>4. CASE MarkRunning
  <2>1. at.pc \in Dumping /\ \E status \in {"running", "completed", "failed"} : SetStatus(at.run, status)
      BY <1>4, MarkRunningDoes DEF Dumping
  <2> QED BY <1>0, <1>4, <2>1, MarkRunningDoes, StatusDoes DEF InHand, Stays, Exists, Dumping
<1>5. CASE MarkCompleted \/ MarkFailed
    BY <1>5, MarkCompletedDoes, MarkFailedDoes DEF InHand, Dumping
<1>6. CASE Capture \/ Discard
    BY <1>6, CaptureDoes, DiscardDoes DEF InHand, Stays, Dumping
<1>7. CASE FindExcess \/ PruneObject \/ PruneRow
    BY <1>7, FindExcessDoes, PruneObjectDoes, PruneRowDoes DEF InHand, Dumping
<1>8. CASE SafetyBackup
    BY <1>8, SafetyBackupDoes DEF OnlyMoves, OnlyEnds, InHand, Known, KnownAsks, Dumping
<1>9. CASE ScaleDown \/ Wipe \/ Fill \/ ScaleUp
    BY <1>9, ApplyDoes DEF OnlyEnds, InHand, Dumping
<1>10. CASE Crash \/ RecoverRuns \/ StalledJobReturns
    BY <1>10, CrashDoes, RecoverRunsDoes, StalledJobReturnsDoes DEF InHand, Dumping
<1>11. CASE OnlyMoves /\ UNCHANGED at
    BY <1>11 DEF OnlyMoves, InHand
<1> QED BY <1>1, <1>2, <1>3, <1>4, <1>5, <1>6, <1>7, <1>8, <1>9, <1>10, <1>11, StepCases

-----------------------------------------------------------------------------
(* A run waits in one place *)

Settled(r) == runs[r].status \in {"completed", "failed", "deleted"}

\* What waits is about runs.
LEMMA QueueRuns ==
    ASSUME Typed
    PROVE  /\ \A i \in DOMAIN queue : queue[i] \in Job /\ queue[i].run \in Ids
           /\ submitting \subseteq Ids
           /\ sweep.pc = "enqueue" => sweep.run \in Ids
           /\ at.pc \in Dumping => at.run \in Ids
<1>1. \A i \in DOMAIN queue : queue[i] \in Job
    BY DEF Typed, TypeOK
<1> QED BY <1>1 DEF Job, Typed, TypeOK, Placed

\* Nothing new waits, and what waits still does.
LEMMA OnceKept ==
    ASSUME Typed, Once, crashes' = 0 => crashes = 0, UNCHANGED queue,
           submitting' \subseteq submitting, sweep'.pc = "enqueue" => UNCHANGED sweep,
           at'.pc \in Dumping => at.pc \in Dumping /\ at'.run = at.run,
           crashes = 0 => \A r \in Ids :
               /\ runs[r].status = "queued" =>
                    runs'[r].status = "queued" \/ (at.pc \in Dumping /\ r = at.run)
               /\ erasing'[r] # "no" => Settled(r)'
    PROVE  Once'
<1> SUFFICES ASSUME crashes' = 0 PROVE Once'
    BY DEF Once
<1>1. crashes = 0
    OBVIOUS
<1>2. ASSUME NEW i \in DOMAIN queue, Waits(i)
      PROVE  /\ runs'[queue[i].run].status = "queued"
             /\ queue[i].run \notin submitting'
             /\ sweep'.pc = "enqueue" => queue[i].run # sweep'.run
             /\ at'.pc \in Dumping => queue[i].run # at'.run
    BY <1>1, <1>2, QueueRuns DEF Once
<1>3. ASSUME NEW r \in submitting'
      PROVE  runs'[r].status = "queued" /\ (at'.pc \in Dumping => r # at'.run)
    BY <1>1, <1>3, QueueRuns DEF Once
<1>4. sweep'.pc = "enqueue" => runs'[sweep'.run].status = "queued" /\ (at'.pc \in Dumping => sweep'.run # at'.run)
    BY <1>1, QueueRuns DEF Once
<1>5. \A i, j \in DOMAIN queue : Waits(i) /\ Waits(j) /\ queue[i].run = queue[j].run => i = j
    BY <1>1 DEF Once
<1>6. \A i : Waits(i)' <=> Waits(i)
    BY DEF Waits
<1> QED BY <1>1, <1>2, <1>3, <1>4, <1>5, <1>6 DEF Once, Settled

\* A run that has waited elsewhere is put on the queue.
LEMMA OnceEnqueued ==
    ASSUME Typed, Once, UNCHANGED <<crashes, runs, erasing, at>>, NEW r \in Ids, Enqueue("backup", r),
           submitting' \subseteq submitting, sweep'.pc = "enqueue" => UNCHANGED sweep,
           r \notin submitting', sweep'.pc = "enqueue" => sweep'.run # r,
           crashes = 0 =>
               /\ runs[r].status = "queued" /\ (at.pc \in Dumping => r # at.run)
               /\ \A i \in DOMAIN queue : Waits(i) => queue[i].run # r
    PROVE  Once'
<1> SUFFICES ASSUME crashes = 0 PROVE Once'
    BY DEF Once
<1>1. /\ Len(queue') = Len(queue) + 1 /\ Len(queue) \in Nat
      /\ DOMAIN queue = 1..Len(queue) /\ DOMAIN queue' = 1..Len(queue')
      /\ \A i \in DOMAIN queue : queue'[i] = queue[i]
      /\ queue'[Len(queue) + 1].run = r
    BY DEF Enqueue, NewJob, Typed, TypeOK
<1>2. \A i \in DOMAIN queue' : i \in DOMAIN queue \/ i = Len(queue) + 1
    BY <1>1
<1>3. \A i \in DOMAIN queue : Waits(i)' => Waits(i)
    BY <1>1 DEF Waits
<1>4. ASSUME NEW i \in DOMAIN queue', Waits(i)'
      PROVE  /\ runs[queue'[i].run].status = "queued"
             /\ queue'[i].run \notin submitting'
             /\ sweep'.pc = "enqueue" => queue'[i].run # sweep'.run
             /\ at.pc \in Dumping => queue'[i].run # at.run
  <2>1. CASE i \in DOMAIN queue
      BY <1>1, <1>3, <1>4, <2>1 DEF Once
  <2>2. CASE i = Len(queue) + 1
      BY <1>1, <2>2
  <2> QED BY <1>2, <2>1, <2>2
<1>5. ASSUME NEW i \in DOMAIN queue', NEW j \in DOMAIN queue', Waits(i)', Waits(j)', queue'[i].run = queue'[j].run
      PROVE  i = j
  <2>1. CASE i \in DOMAIN queue /\ j \in DOMAIN queue
      BY <1>1, <1>3, <1>5, <2>1 DEF Once
  <2>2. CASE i = Len(queue) + 1 /\ j \in DOMAIN queue
      BY <1>1, <1>3, <1>5, <2>2
  <2>3. CASE i \in DOMAIN queue /\ j = Len(queue) + 1
      BY <1>1, <1>3, <1>5, <2>3
  <2> QED BY <1>2, <2>1, <2>2, <2>3
<1> QED BY <1>4, <1>5 DEF Once

\* Every step keeps Once: a run moves from one place to the next.
LEMMA OnceStep ==
    ASSUME Typed, Known, InHand, Once, [Next]_vars
    PROVE  Once'
<1> USE QueueRuns
<1>0. at.pc \in Dumping => at.run \in Ids /\ runs[at.run].status # "absent"
    BY DEF Typed, Placed, Known, KnownHand
<1>a. crashes = 0 => \A r \in Ids : erasing[r] # "no" => Settled(r)
    BY DEF Once, Settled
<1>1. CASE Dashboard \/ StartSweep \/ SweepStep
  <2>0. /\ UNCHANGED <<at, crashes>>
        /\ crashes = 0 => \A r \in Ids :
               /\ runs[r].status = "queued" => runs'[r].status = "queued"
               /\ erasing'[r] # "no" => Settled(r)'
      BY <1>1, <1>a, AsideDoes DEF Settled
  <2>1. ASSUME NEW r \in Ids, TriggerInsert(r) PROVE Once'
    <3>1. /\ runs[r].status = "absent" /\ runs'[r].status = "queued"
          /\ UNCHANGED <<queue, sweep>> /\ submitting' = submitting \cup {r}
        BY <2>1, Inserted DEF TriggerInsert, Typed, TypeOK, jobs
    <3>2. \A i : Waits(i)' <=> Waits(i)
        BY <3>1 DEF Waits
    <3>3. CASE crashes = 0
      <4>1. \A i \in DOMAIN queue : Waits(i) => queue[i].run # r
          BY <3>1, <3>3 DEF Once
      <4>2. \A i \in DOMAIN queue : Waits(i) =>
               /\ runs'[queue[i].run].status = "queued"
               /\ queue[i].run \notin submitting'
               /\ sweep'.pc = "enqueue" => queue[i].run # sweep'.run
               /\ at'.pc \in Dumping => queue[i].run # at'.run
          BY <2>0, <3>1, <3>3, <4>1 DEF Once
      <4>3. \A s \in submitting' : runs'[s].status = "queued" /\ (at'.pc \in Dumping => s # at'.run)
          BY <1>0, <2>0, <3>1, <3>3 DEF Once
      <4>4. sweep'.pc = "enqueue" => runs'[sweep'.run].status = "queued" /\ (at'.pc \in Dumping => sweep'.run # at'.run)
          BY <2>0, <3>1, <3>3 DEF Once
      <4>5. \A i, j \in DOMAIN queue : Waits(i) /\ Waits(j) /\ queue[i].run = queue[j].run => i = j
          BY <3>3 DEF Once
      <4> QED BY <2>0, <3>1, <3>2, <3>3, <4>2, <4>3, <4>4, <4>5 DEF Once, Settled
    <3> QED BY <2>0, <3>3 DEF Once
  <2>2. ASSUME NEW r \in Ids, TriggerEnqueue(r) PROVE Once'
    <3>1. /\ r \in submitting /\ Enqueue("backup", r) /\ submitting' = submitting \ {r}
          /\ UNCHANGED <<runs, erasing, sweep, at, crashes>>
        BY <2>2 DEF TriggerEnqueue, store, host
    <3>2. sweep.pc = "enqueue" => sweep.run # r
        BY <3>1 DEF Known, KnownAsks
    <3>3. crashes = 0 =>
               /\ runs[r].status = "queued" /\ (at.pc \in Dumping => r # at.run)
               /\ \A i \in DOMAIN queue : Waits(i) => queue[i].run # r
        BY <3>1 DEF Once
    <3> QED BY <3>1, <3>2, <3>3, OnceEnqueued
  <2>3. ASSUME NEW r \in Ids, TriggerRestore(r) PROVE Once'
    <3>1. UNCHANGED <<runs, erasing, sweep, at, submitting, crashes>> /\ Enqueue("restore", r)
        BY <2>3 DEF TriggerRestore, store, asks, host
    <3>2. /\ Len(queue') = Len(queue) + 1 /\ Len(queue) \in Nat
          /\ DOMAIN queue = 1..Len(queue) /\ DOMAIN queue' = 1..Len(queue')
          /\ \A i \in DOMAIN queue : queue'[i] = queue[i]
          /\ queue'[Len(queue) + 1].kind = "restore"
        BY <3>1 DEF Enqueue, NewJob, Typed, TypeOK
    <3>3. \A i \in DOMAIN queue' : Waits(i)' => i \in DOMAIN queue /\ Waits(i) /\ queue'[i] = queue[i]
        BY <3>2 DEF Waits
    <3> QED BY <3>1, <3>3 DEF Once
  <2>4. CASE EnqueueScheduled /\ ~UNCHANGED jobs
    <3>1. /\ sweep.pc = "enqueue" /\ sweep.run \in Ids /\ Enqueue("backup", sweep.run) /\ sweep'.pc = "idle"
          /\ UNCHANGED <<runs, erasing, submitting, at, crashes>>
        BY <2>4 DEF EnqueueScheduled, store, asks, host, Rest
    <3>2. sweep.run \notin submitting
        BY <3>1 DEF Known, KnownAsks
    <3>3. crashes = 0 =>
               /\ runs[sweep.run].status = "queued" /\ (at.pc \in Dumping => sweep.run # at.run)
               /\ \A i \in DOMAIN queue : Waits(i) => queue[i].run # sweep.run
        BY <3>1 DEF Once
    <3> QED BY <3>1, <3>2, <3>3, OnceEnqueued
  <2>5. ASSUME InsertScheduled, NEW r \in Ids, Fresh(r), Insert(r, "scheduled", TRUE),
               sweep' = [pc |-> "enqueue", run |-> r]
        PROVE  Once'
    <3>1. /\ runs[r].status = "absent" /\ runs'[r].status = "queued" /\ sweep'.run = r
          /\ UNCHANGED <<queue, submitting>>
        BY <2>5, Inserted DEF InsertScheduled, Typed, TypeOK, jobs, asks
    <3>2. \A i : Waits(i)' <=> Waits(i)
        BY <3>1 DEF Waits
    <3>3. CASE crashes = 0
      <4>1. \A i \in DOMAIN queue : Waits(i) =>
               /\ runs'[queue[i].run].status = "queued"
               /\ queue[i].run \notin submitting'
               /\ queue[i].run # r
               /\ at'.pc \in Dumping => queue[i].run # at'.run
          BY <2>0, <3>1, <3>3 DEF Once
      <4>2. \A s \in submitting' : runs'[s].status = "queued" /\ (at'.pc \in Dumping => s # at'.run)
          BY <2>0, <3>1, <3>3 DEF Once
      <4>3. at'.pc \in Dumping => r # at'.run
          BY <1>0, <2>0, <3>1
      <4>4. \A i, j \in DOMAIN queue : Waits(i) /\ Waits(j) /\ queue[i].run = queue[j].run => i = j
          BY <3>3 DEF Once
      <4> QED BY <2>0, <3>1, <3>2, <3>3, <4>1, <4>2, <4>3, <4>4 DEF Once, Settled
    <3> QED BY <2>0, <3>3 DEF Once
  <2>6. ASSUME UNCHANGED queue, submitting' \subseteq submitting, sweep'.pc # "enqueue" \/ UNCHANGED sweep
        PROVE  Once'
      BY <2>0, <2>6, OnceKept
  <2>7. ASSUME NEW r \in Ids, TriggerLost(r) \/ EraseRead(r) \/ EraseObject(r) \/ EraseRow(r) PROVE Once'
      BY <2>6, <2>7 DEF TriggerLost, EraseRead, EraseObject, EraseRow, jobs
  <2>8. CASE DropConfig \/ CronFires
      BY <2>6, <2>8 DEF DropConfig, CronFires, jobs, asks
  <2>9. CASE StartSweep \/ FindInFlight \/ CheckDue
    <3>1. sweep'.pc # "enqueue" /\ UNCHANGED <<submitting, queue>>
        BY <2>9 DEF StartSweep, FindInFlight, CheckDue, Rest, asks, jobs, Typed, TypeOK, Sweep
    <3> QED BY <2>6, <3>1
  <2>10. CASE InsertScheduled
    <3>1. CASE sweep' = Rest
        BY <2>6, <2>10, <3>1 DEF InsertScheduled, Rest, jobs, asks
    <3> QED BY <2>5, <2>10, <3>1 DEF InsertScheduled
  <2>11. CASE EnqueueScheduled /\ UNCHANGED jobs
    <3>1. UNCHANGED <<submitting, queue>> /\ sweep'.pc # "enqueue"
        BY <2>11 DEF EnqueueScheduled, Rest, asks, jobs
    <3> QED BY <2>6, <3>1
  <2> QED BY <1>1, <2>1, <2>2, <2>3, <2>4, <2>7, <2>8, <2>9, <2>10, <2>11 DEF Dashboard, SweepStep
<1>2. CASE TakeJob
  <2>1. /\ UNCHANGED <<runs, erasing, submitting, sweep, crashes>> /\ active' = queue[1]
        /\ Len(queue) \in Nat /\ Len(queue) # 0 /\ DOMAIN queue = 1..Len(queue)
        /\ DOMAIN queue' = 1..(Len(queue) - 1)
        /\ \A i \in DOMAIN queue' : queue'[i] = queue[i + 1]
        /\ \/ active'.kind = "backup" /\ at'.pc = "load" /\ at'.run = active'.run
           \/ active'.kind = "restore" /\ at'.pc = "source"
      BY <1>2, TakeJobDoes DEF Typed, TypeOK
  <2>2. \A i \in DOMAIN queue' : i + 1 \in DOMAIN queue /\ i + 1 # 1 /\ (Waits(i)' => Waits(i + 1))
      BY <2>1 DEF Waits
  <2>3. 1 \in DOMAIN queue /\ (at'.pc \in Dumping => Waits(1) /\ at'.run = queue[1].run)
      BY <2>1 DEF Waits, Dumping
  <2>4. CASE crashes = 0
    <3>1. ASSUME NEW i \in DOMAIN queue', Waits(i)'
          PROVE  /\ runs[queue'[i].run].status = "queued"
                 /\ queue'[i].run \notin submitting
                 /\ sweep.pc = "enqueue" => queue'[i].run # sweep.run
                 /\ at'.pc \in Dumping => queue'[i].run # at'.run
        BY <2>1, <2>2, <2>3, <2>4, <3>1 DEF Once
    <3>2. ASSUME NEW i \in DOMAIN queue', NEW j \in DOMAIN queue', Waits(i)', Waits(j)',
                 queue'[i].run = queue'[j].run
          PROVE  i = j
      <4>1. i + 1 = j + 1
          BY <2>1, <2>2, <2>4, <3>2 DEF Once
      <4> QED BY <4>1, <2>1
    <3>3. \A r \in submitting : runs[r].status = "queued" /\ (at'.pc \in Dumping => r # at'.run)
        BY <2>3, <2>4 DEF Once
    <3>4. sweep.pc = "enqueue" => runs[sweep.run].status = "queued" /\ (at'.pc \in Dumping => sweep.run # at'.run)
        BY <2>3, <2>4 DEF Once
    <3> QED BY <2>1, <2>4, <3>1, <3>2, <3>3, <3>4 DEF Once
  <2> QED BY <2>1, <2>4 DEF Once
<1>3. CASE Load \/ Connect \/ UploadedSize \/ ResolveSource \/ ObjectExists \/ DownloadStream
    BY <1>3, <1>a, OnceKept, MovesDo DEF OnlyMoves, OnlyEnds, Dumping, Settled
<1>4. CASE MarkRunning \/ MarkCompleted \/ MarkFailed
  <2>1. at.pc \in Dumping /\ at.pc \notin {"prune", "object", "row"}
        /\ \E status \in {"running", "completed", "failed"} : SetStatus(at.run, status)
      BY <1>4, MarkRunningDoes, MarkCompletedDoes, MarkFailedDoes DEF Dumping
  <2>2. crashes = 0 => erasing[at.run] = "no"
      BY <2>1 DEF InHand
  <2>3. \A s \in Ids : s # at.run => runs'[s] = runs[s]
      BY <2>1, StatusDoes
  <2>4. /\ UNCHANGED <<queue, submitting, sweep, erasing, crashes>>
        /\ at'.pc \in Dumping => at'.run = at.run
      BY <1>4, MarkRunningDoes, MarkCompletedDoes, MarkFailedDoes DEF Stays, Dumping
  <2>5. crashes = 0 => \A r \in Ids :
               /\ runs[r].status = "queued" => runs'[r].status = "queued" \/ (at.pc \in Dumping /\ r = at.run)
               /\ erasing'[r] # "no" => Settled(r)'
      BY <1>a, <2>1, <2>2, <2>3, <2>4 DEF Settled
  <2> QED BY <2>1, <2>4, <2>5, OnceKept
<1>5. CASE Capture \/ Discard
    BY <1>5, <1>a, OnceKept, CaptureDoes, DiscardDoes DEF Stays, Dumping, Settled
<1>6. CASE FindExcess \/ PruneObject
    BY <1>6, <1>a, OnceKept, FindExcessDoes, PruneObjectDoes DEF Stays, Dumping, Settled
<1>7. CASE PruneRow
  <2>1. runs[Going].status \in {"completed", "deleted"} /\ Going \in Ids
      BY <1>7, PruneRowDoes DEF Known, KnownHand, Typed, TypeOK, Locals
  <2>2. /\ UNCHANGED <<queue, submitting, sweep, erasing, crashes>>
        /\ at.pc \in Dumping /\ (at'.pc \in Dumping => at'.run = at.run)
      BY <1>7, PruneRowDoes DEF Dumping
  <2>3. runs'[Going].status = "deleted" /\ \A s \in Ids : s # Going => runs'[s] = runs[s]
      BY <1>7, <2>1, PruneRowDoes DEF Exists
  <2>4. crashes = 0 => \A r \in Ids :
               /\ runs[r].status = "queued" => runs'[r].status = "queued"
               /\ erasing'[r] # "no" => Settled(r)'
      BY <1>a, <2>1, <2>2, <2>3 DEF Settled
  <2> QED BY <2>2, <2>4, OnceKept
<1>8. CASE SafetyBackup
  <2>1. CASE OnlyEnds \/ (OnlyMoves /\ at'.pc = "download")
      BY <1>a, <2>1, OnceKept DEF OnlyEnds, OnlyMoves, Dumping, Settled
  <2>2. CASE ~(OnlyEnds \/ (OnlyMoves /\ at'.pc = "download")) /\ crashes = 0
    <3> DEFINE r == at'.run
    <3>1. /\ UNCHANGED <<queue, submitting, sweep, erasing, crashes>> /\ r \in Ids
          /\ runs[r].status = "absent" /\ runs'[r].status = "queued"
          /\ \A s \in Ids : s # r => runs'[s] = runs[s]
        BY <1>8, <2>2, SafetyBackupDoes
    <3> HIDE DEF r
    <3>2. \A i : Waits(i)' <=> Waits(i)
        BY <3>1 DEF Waits
    <3>3. \A i \in DOMAIN queue : Waits(i) =>
               /\ runs'[queue[i].run].status = "queued"
               /\ queue[i].run \notin submitting'
               /\ sweep'.pc = "enqueue" => queue[i].run # sweep'.run
               /\ queue[i].run # r
        BY <2>2, <3>1 DEF Once
    <3>4. \A s \in submitting' : runs'[s].status = "queued" /\ s # r
        BY <2>2, <3>1 DEF Once
    <3>5. sweep'.pc = "enqueue" => runs'[sweep'.run].status = "queued" /\ sweep'.run # r
        BY <2>2, <3>1 DEF Once
    <3>6. \A i, j \in DOMAIN queue : Waits(i) /\ Waits(j) /\ queue[i].run = queue[j].run => i = j
        BY <2>2 DEF Once
    <3>7. \A s \in Ids : erasing'[s] # "no" => Settled(s)'
        BY <1>a, <2>2, <3>1 DEF Settled
    <3> QED BY <3>1, <3>2, <3>3, <3>4, <3>5, <3>6, <3>7 DEF Once, Settled, r
  <2>3. CASE crashes # 0
      BY <1>8, <2>3, SafetyBackupDoes DEF Once, OnlyEnds, OnlyMoves
  <2> QED BY <2>1, <2>2, <2>3
<1>9. CASE ScaleDown \/ Wipe \/ Fill \/ ScaleUp
    BY <1>9, <1>a, OnceKept, ApplyDoes DEF OnlyEnds, Dumping, Settled
<1>10. CASE Crash \/ RecoverRuns \/ StalledJobReturns
    BY <1>10, CrashDoes, RecoverRunsDoes, StalledJobReturnsDoes DEF Once
<1>11. CASE OnlyMoves /\ UNCHANGED at
    BY <1>11, <1>a, OnceKept DEF OnlyMoves, Settled
<1> QED BY <1>1, <1>2, <1>3, <1>4, <1>5, <1>6, <1>7, <1>8, <1>9, <1>10, <1>11, StepCases

-----------------------------------------------------------------------------
(* A completed run has its object *)

\* Every step keeps Whole: a row is completed for an object whose upload ended
\* well, and the row of an object that is pruned goes next.
LEMMA WholeStep ==
    ASSUME Typed, Known, InHand, Whole, [Next]_vars
    PROVE  Whole'
<1>0. at.pc \in Dumping => at.run \in Ids
    BY QueueRuns
<1>1. CASE Dashboard \/ StartSweep \/ SweepStep
  <2>1. SUFFICES ASSUME crashes = 0 PROVE Whole'
      BY <1>1, AsideDoes DEF Whole
  <2>2. at.pc \in {"size", "complete"} => erasing[at.run] = "no"
      BY <2>1 DEF InHand, Dumping
  <2>3. at'.pc \in {"size", "complete"} => objects'[at'.run] \in Data
      BY <1>0, <1>1, <2>1, <2>2, AsideDoes DEF Whole, Dumping
  <2>4. ASSUME NEW r \in Ids, runs'[r].status = "completed", erasing'[r] = "no",
               ~(at'.pc = "row" /\ r = Max(at'.excess))
        PROVE  objects'[r] \in Data
    <3>1. runs[r].status = "completed" /\ erasing[r] = "no" /\ objects'[r] = objects[r] /\ at' = at
        BY <1>1, <2>4, AsideDoes
    <3> QED BY <2>1, <2>4, <3>1 DEF Whole
  <2> QED BY <2>3, <2>4 DEF Whole
<1>2. CASE TakeJob
    BY <1>2, TakeJobDoes DEF Whole, Typed, Placed
<1>3. CASE Load \/ Connect \/ UploadedSize \/ ResolveSource \/ ObjectExists \/ DownloadStream
    BY <1>3, MovesDo DEF Whole, OnlyMoves, OnlyEnds
<1>4. CASE MarkRunning \/ MarkFailed
  <2>1. at.pc \in Dumping /\ \E status \in {"running", "failed"} : SetStatus(at.run, status)
      BY <1>4, MarkRunningDoes, MarkFailedDoes DEF Dumping
  <2>2. \A r \in Ids : runs'[r].status = "completed" => runs[r].status = "completed"
      BY <2>1, StatusDoes
  <2> QED BY <1>4, <2>2, MarkRunningDoes, MarkFailedDoes DEF Whole
<1>5. CASE Capture \/ Discard
  <2>1. crashes = 0 => runs[at.run].status = "running"
      BY <1>5, CaptureDoes, DiscardDoes DEF InHand, Dumping
  <2>2. data \in Data
      BY DEF Typed, TypeOK
  <2> QED BY <1>5, <2>1, <2>2, CaptureDoes, DiscardDoes DEF Whole, Stays
<1>6. CASE MarkCompleted
  <2>1. /\ at.pc = "complete" /\ SetStatus(at.run, "completed") /\ at.run \in Ids
        /\ UNCHANGED <<objects, erasing, crashes>> /\ at'.pc = "prune"
      BY <1>0, <1>6, MarkCompletedDoes DEF Dumping
  <2>2. \A r \in Ids : runs'[r].status = "completed" => runs[r].status = "completed" \/ r = at.run
      BY <2>1, StatusDoes DEF Dumping
  <2> QED BY <2>1, <2>2 DEF Whole
<1>7. CASE FindExcess
    BY <1>7, FindExcessDoes DEF Whole
<1>8. CASE PruneObject
  <2>1. /\ at.pc = "object" /\ at'.pc = "row" /\ Max(at'.excess) = Going
        /\ UNCHANGED <<runs, erasing, crashes>>
        /\ \A s \in Ids \ {Going} : objects'[s] = objects[s]
      BY <1>8, PruneObjectDoes DEF Stays, Going
  <2> QED BY <2>1 DEF Whole
<1>9. CASE PruneRow
  <2>1. runs[Going].status \in {"completed", "deleted"} /\ Going \in Ids
      BY <1>9, PruneRowDoes DEF Known, KnownHand, Typed, TypeOK, Locals
  <2>2. /\ at.pc = "row" /\ at'.pc \notin {"size", "complete", "row"} /\ UNCHANGED <<objects, erasing, crashes>>
        /\ runs'[Going].status = "deleted" /\ \A s \in Ids : s # Going => runs'[s] = runs[s]
      BY <1>9, <2>1, PruneRowDoes DEF Exists
  <2> QED BY <2>2 DEF Whole, Going
<1>10. CASE SafetyBackup
    BY <1>10, SafetyBackupDoes DEF OnlyMoves, OnlyEnds, Whole
<1>11. CASE ScaleDown \/ Wipe \/ Fill \/ ScaleUp
    BY <1>11, ApplyDoes DEF OnlyEnds, Whole
<1>12. CASE Crash \/ RecoverRuns \/ StalledJobReturns
    BY <1>12, CrashDoes, RecoverRunsDoes, StalledJobReturnsDoes DEF Whole
<1>13. CASE OnlyMoves /\ UNCHANGED at
    BY <1>13 DEF OnlyMoves, Whole
<1> QED BY <1>1, <1>2, <1>3, <1>4, <1>5, <1>6, <1>7, <1>8, <1>9, <1>10, <1>11, <1>12, <1>13, StepCases

-----------------------------------------------------------------------------
(* Which runs go, and which stay *)

Newer(r) == {s \in Completed : s > r}

\* Every run in excess has Keep newer ones that are not: those that are newer
\* than the newest of them.
LEMMA ExcessHasNewer ==
    ASSUME NEW r \in Excess
    PROVE  /\ Cardinality(Newer(Max(Excess))) >= Keep
           /\ \A s \in Newer(Max(Excess)) : s > r /\ s \notin Excess
<1> DEFINE m == Max(Excess)
<1>1. Excess \subseteq Ids /\ Excess # {}
    BY DEF Excess, Completed
<1>2. m \in Excess /\ \A s \in Excess : s <= m
    BY <1>1, MaxOfRuns
<1> HIDE DEF m
<1>3. Cardinality(Newer(m)) >= Keep
    BY <1>2 DEF Excess, Newer
<1>4. ASSUME NEW s \in Newer(m) PROVE s > r /\ s \notin Excess
  <2>1. s \in Int /\ m \in Int /\ r \in Int /\ s > m /\ r <= m
      BY <1>1, <1>2, <1>4, IdsFinite DEF Newer, Completed
  <2> QED BY <1>2, <2>1
<1> QED BY <1>3, <1>4 DEF m

\* The smallest of a set of runs.
LEMMA MinOfRuns ==
    ASSUME NEW S \in SUBSET Ids, S # {}
    PROVE  \E m \in S : \A r \in S : m <= r
<1> DEFINE below(r) == {s \in S : s < r}
           T == {below(r) : r \in S}
<1>1. IsFiniteSet(S) /\ \A r \in Ids : r \in Int
    BY IdsFinite, FS_Subset
<1>2. T \subseteq FiniteSubsetsOf(S) /\ T # {}
  <2>1. \A r \in S : below(r) \subseteq S /\ IsFiniteSet(below(r))
      BY <1>1, FS_Subset
  <2> QED BY <2>1 DEF FiniteSubsetsOf
<1> HIDE DEF T
<1>3. PICK X \in T : \A Y \in T : ~(<<Y, X>> \in StrictSubsetOrdering(S))
    BY <1>2, WFMin, FS_StrictSubsetOrderingWellFounded
<1>4. PICK x \in S : X = below(x)
    BY <1>3 DEF T
<1>5. ASSUME NEW y \in S, y < x PROVE FALSE
  <2>1. below(y) \in T /\ below(y) \subseteq S /\ below(x) \subseteq S
      BY DEF T
  <2>2. below(y) \subseteq below(x) /\ y \in below(x) /\ y \notin below(y)
      BY <1>1, <1>5
  <2>3. <<below(y), below(x)>> \in StrictSubsetOrdering(S)
      BY <2>1, <2>2 DEF StrictSubsetOrdering
  <2> QED BY <1>3, <1>4, <2>1, <2>3
<1> QED BY <1>1, <1>5

\* What is not in excess are at most Keep: the oldest of them has fewer than
\* Keep newer ones.
LEMMA KeptAreFew ==
    ASSUME Keep > 0
    PROVE  Cardinality(Completed \ Excess) <= Keep
<1> DEFINE S == Completed \ Excess
<1>1. S \in SUBSET Ids /\ IsFiniteSet(S) /\ IsFiniteSet(Completed) /\ Keep \in Nat
  <2>1. Completed \subseteq Ids
      BY DEF Completed
  <2> QED BY <2>1, IdsFinite, FS_Subset, BackupAssumption
<1>2. CASE S = {}
    BY <1>1, <1>2, FS_EmptySet
<1>3. CASE S # {}
  <2>1. PICK m \in S : \A r \in S : m <= r
      BY <1>1, <1>3, MinOfRuns
  <2>2. IsFiniteSet(Newer(m)) /\ Cardinality(Newer(m)) \in Nat
      BY <1>1, FS_Subset, FS_CardinalityType DEF Newer
  <2>3. Cardinality(Newer(m)) < Keep
      BY <1>1, <2>1, <2>2 DEF Excess, Newer
  <2>4. S \subseteq Newer(m) \cup {m}
    <3>1. ASSUME NEW r \in S, r # m PROVE r \in Newer(m)
      <4>1. m <= r /\ m \in Int /\ r \in Int
          BY <1>1, <2>1, IdsFinite
      <4> QED BY <3>1, <4>1 DEF Newer
    <3> QED BY <3>1
  <2>5. m \notin Newer(m)
      BY <1>1, <2>1, IdsFinite DEF Newer
  <2>6. IsFiniteSet(Newer(m) \cup {m}) /\ Cardinality(Newer(m) \cup {m}) = Cardinality(Newer(m)) + 1
      BY <2>2, <2>5, FS_AddElement
  <2>7. Cardinality(S) <= Cardinality(Newer(m) \cup {m}) /\ Cardinality(S) \in Nat
      BY <1>1, <2>4, <2>6, FS_Subset, FS_CardinalityType
  <2> QED BY <1>1, <2>2, <2>3, <2>6, <2>7
<1> QED BY <1>2, <1>3

\* What is held may grow.
LEMMA HeldGrows ==
    ASSUME Typed, Typed', Counted, at'.excess \subseteq at.excess,
           \A r \in at'.excess : \A s \in Ids : s \in Held(r) => s \in Held(r)'
    PROVE  Counted'
<1> SUFFICES ASSUME NEW r \in at'.excess PROVE Cardinality(Held(r)') >= Keep
    BY DEF Counted
<1>1. Held(r) \subseteq Held(r)' /\ IsFiniteSet(Held(r)') /\ IsFiniteSet(Held(r))
  <2>1. Held(r) \subseteq Ids /\ Held(r)' \subseteq Ids
      BY DEF Held
  <2> QED BY <2>1, IdsFinite, FS_Subset
<1>2. Cardinality(Held(r)) <= Cardinality(Held(r)') /\ Cardinality(Held(r)) \in Nat /\ Cardinality(Held(r)') \in Nat
    BY <1>1, FS_Subset, FS_CardinalityType
<1>3. Cardinality(Held(r)) >= Keep /\ Keep \in Nat
    BY BackupAssumption DEF Counted
<1> QED BY <1>2, <1>3

\* Every step keeps Counted: the excess is found where enough are newer, and
\* those are not dropped before.
LEMMA CountedStep ==
    ASSUME Typed, Typed', Known, Counted, [Next]_vars
    PROVE  Counted'
<1>a. ASSUME at'.excess = {} PROVE Counted'
    BY <1>a DEF Counted
<1>1. CASE Dashboard \/ StartSweep \/ SweepStep
  <2>1. ASSUME NEW s \in Ids, runs[s].status = "completed" \/ erasing[s] # "no"
        PROVE  runs'[s].status = "completed" \/ erasing'[s] # "no"
      BY <1>1, <2>1, AsideDoes
  <2>2. at' = at
      BY <1>1, AsideDoes
  <2>3. \A r \in at'.excess : \A s \in Ids : s \in Held(r) => s \in Held(r)'
      BY <2>1, <2>2 DEF Held
  <2> QED BY <2>2, <2>3, HeldGrows
<1>2. CASE TakeJob
    BY <1>2, <1>a, TakeJobDoes
<1>3. CASE Load \/ Connect \/ UploadedSize \/ ResolveSource \/ ObjectExists \/ DownloadStream
    BY <1>3, <1>a, MovesDo
<1>4. CASE MarkRunning \/ Capture \/ Discard \/ MarkCompleted \/ MarkFailed
    BY <1>4, <1>a, MarkRunningDoes, CaptureDoes, DiscardDoes, MarkCompletedDoes, MarkFailedDoes DEF Stays
<1>5. CASE FindExcess
  <2>1. CASE at'.excess = {}
      BY <2>1, <1>a
  <2>2. CASE at'.excess = Excess /\ UNCHANGED <<runs, erasing>>
    <3> SUFFICES ASSUME NEW r \in Excess PROVE Cardinality(Held(r)') >= Keep
        BY <2>2 DEF Counted
    <3> DEFINE N == Newer(Max(Excess))
    <3>1. Cardinality(N) >= Keep /\ \A s \in N : s > r /\ s \notin Excess
        BY ExcessHasNewer
    <3> HIDE DEF N
    <3>2. N \subseteq Held(r)'
        BY <2>2, <3>1 DEF Held, N, Newer, Completed
    <3>3. IsFiniteSet(Held(r)') /\ IsFiniteSet(N)
      <4>1. Held(r)' \subseteq Ids
          BY DEF Held
      <4> QED BY <3>2, <4>1, IdsFinite, FS_Subset
    <3>4. Cardinality(N) <= Cardinality(Held(r)') /\ Cardinality(N) \in Nat /\ Cardinality(Held(r)') \in Nat
        BY <3>2, <3>3, FS_Subset, FS_CardinalityType
    <3> QED BY <3>1, <3>4, BackupAssumption
  <2> QED BY <1>5, <2>1, <2>2, FindExcessDoes
<1>6. CASE PruneObject
  <2>1. at'.excess = at.excess /\ UNCHANGED <<runs, erasing>>
      BY <1>6, PruneObjectDoes DEF Stays
  <2>2. \A r \in at'.excess : \A s \in Ids : s \in Held(r) => s \in Held(r)'
      BY <2>1 DEF Held
  <2> QED BY <2>1, <2>2, HeldGrows
<1>7. CASE PruneRow
  <2>1. at'.excess = at.excess \ {Going} /\ Going \in at.excess /\ UNCHANGED erasing
        /\ \A s \in Ids : s # Going => runs'[s] = runs[s]
      BY <1>7, PruneRowDoes
  <2>2. \A r \in at'.excess : \A s \in Ids : s \in Held(r) => s \in Held(r)'
      BY <2>1 DEF Held
  <2> QED BY <2>1, <2>2, HeldGrows
<1>8. CASE SafetyBackup
    BY <1>8, <1>a, SafetyBackupDoes DEF OnlyMoves, OnlyEnds
<1>9. CASE ScaleDown \/ Wipe \/ Fill \/ ScaleUp
    BY <1>9, <1>a, ApplyDoes
<1>10. CASE Crash \/ RecoverRuns
    BY <1>10, <1>a, CrashDoes, RecoverRunsDoes
<1>11. CASE StalledJobReturns \/ (OnlyMoves /\ UNCHANGED at)
  <2>1. UNCHANGED <<at, runs, erasing>>
      BY <1>11, StalledJobReturnsDoes DEF OnlyMoves
  <2>2. \A r \in at'.excess : \A s \in Ids : s \in Held(r) => s \in Held(r)'
      BY <2>1 DEF Held
  <2> QED BY <2>1, <2>2, HeldGrows
<1> QED BY <1>1, <1>2, <1>3, <1>4, <1>5, <1>6, <1>7, <1>8, <1>9, <1>10, <1>11, StepCases

-----------------------------------------------------------------------------
(* Retention *)

\* Every step keeps Linked: the link of a row goes with the configuration only.
LEMMA LinkedStep ==
    ASSUME Typed, Known, Linked, [Next]_vars
    PROVE  Linked'
<1>0. at.pc \in Dumping => at.run \in Ids /\ runs[at.run].status # "absent"
    BY QueueRuns DEF Known, KnownHand
<1>1. CASE Dashboard \/ StartSweep \/ SweepStep
    BY <1>0, <1>1, AsideDoes DEF Linked
<1>2. CASE TakeJob
    BY <1>2, TakeJobDoes DEF Linked, Dumping
<1>3. CASE Load \/ Connect \/ UploadedSize \/ ResolveSource \/ ObjectExists \/ DownloadStream
    BY <1>3, MovesDo DEF OnlyMoves, OnlyEnds, Linked, Dumping
<1>4. CASE MarkRunning \/ MarkCompleted \/ MarkFailed
  <2>1. at.pc \in Dumping \ {"load"} /\ \E status \in {"running", "completed", "failed"} : SetStatus(at.run, status)
      BY <1>4, MarkRunningDoes, MarkCompletedDoes, MarkFailedDoes DEF Dumping
  <2>2. at'.pc \in Dumping => Stays
      BY <1>4, MarkRunningDoes, MarkCompletedDoes, MarkFailedDoes DEF Dumping
  <2>3. config' = config
      BY <1>4, MarkRunningDoes, MarkCompletedDoes, MarkFailedDoes
  <2> QED BY <1>0, <2>1, <2>2, <2>3, StatusDoes DEF Linked, Stays
<1>5. CASE Capture \/ Discard
    BY <1>5, CaptureDoes, DiscardDoes DEF Linked, Stays, Dumping
<1>6. CASE FindExcess \/ PruneObject \/ PruneRow
    BY <1>0, <1>6, FindExcessDoes, PruneObjectDoes, PruneRowDoes DEF Linked, Stays, Dumping
<1>7. CASE SafetyBackup
    BY <1>7, SafetyBackupDoes DEF OnlyMoves, OnlyEnds, Linked, Dumping
<1>8. CASE ScaleDown \/ Wipe \/ Fill \/ ScaleUp
    BY <1>8, ApplyDoes DEF OnlyEnds, Linked, Dumping
<1>9. CASE Crash \/ RecoverRuns \/ StalledJobReturns
    BY <1>9, CrashDoes, RecoverRunsDoes, StalledJobReturnsDoes DEF Linked, Dumping
<1>10. CASE OnlyMoves /\ UNCHANGED at
    BY <1>10 DEF OnlyMoves, Linked
<1> QED BY <1>1, <1>2, <1>3, <1>4, <1>5, <1>6, <1>7, <1>8, <1>9, <1>10, StepCases

\* Nothing more is kept than before.
LEMMA RetainedKept ==
    ASSUME Typed, Typed', Retained, crashes' = 0 => crashes = 0, config' => config,
           at'.pc # "prune" \/ ~at'.config => at.pc # "prune" \/ ~at.config,
           crashes = 0 /\ config /\ config' => \A r \in Ids :
             runs'[r].status = "completed" /\ runs'[r].config /\ r \notin at'.excess =>
               runs[r].status = "completed" /\ runs[r].config /\ r \notin at.excess
    PROVE  Retained'
<1> SUFFICES ASSUME crashes' = 0, config', Keep > 0, at'.pc # "prune" \/ ~at'.config
             PROVE  Cardinality(Completed' \ at'.excess) <= Keep
    BY DEF Retained
<1>1. Cardinality(Completed \ at.excess) <= Keep /\ Keep \in Nat
    BY BackupAssumption DEF Retained
<1>2. Completed' \ at'.excess \subseteq Completed \ at.excess
    BY DEF Completed
<1>3. IsFiniteSet(Completed \ at.excess)
  <2>1. Completed \ at.excess \subseteq Ids
      BY DEF Completed
  <2> QED BY <2>1, IdsFinite, FS_Subset
<1>4. /\ Cardinality(Completed' \ at'.excess) <= Cardinality(Completed \ at.excess)
      /\ IsFiniteSet(Completed' \ at'.excess)
    BY <1>2, <1>3, FS_Subset
<1>5. Cardinality(Completed \ at.excess) \in Nat /\ Cardinality(Completed' \ at'.excess) \in Nat
    BY <1>3, <1>4, FS_CardinalityType
<1> QED BY <1>1, <1>4, <1>5

\* Every step keeps Retained: a run that completes is pruned for before the
\* worker is done, unless it is not of the configuration.
LEMMA RetainedStep ==
    ASSUME Typed, Typed', Known, InHand, Linked, Retained, [Next]_vars
    PROVE  Retained'
<1>0. at.pc \in Dumping => at.run \in Ids /\ runs[at.run].status # "absent"
    BY QueueRuns DEF Known, KnownHand
\* Steps that touch neither the rows nor what goes.
<1>a. ASSUME UNCHANGED <<runs, config, crashes>>, at.pc # "prune", at'.excess = at.excess
      PROVE  Retained'
    BY <1>a, RetainedKept
<1>1. CASE Dashboard \/ StartSweep \/ SweepStep
    BY <1>1, AsideDoes, RetainedKept
<1>2. CASE TakeJob
  <2>1. at.excess = {}
      BY <1>2, TakeJobDoes DEF Typed, Placed
  <2> QED BY <1>2, <1>a, <2>1, TakeJobDoes
<1>3. CASE Load \/ Connect \/ UploadedSize \/ ResolveSource \/ ObjectExists \/ DownloadStream
    BY <1>3, <1>a, MovesDo DEF OnlyMoves, OnlyEnds
<1>4. CASE MarkRunning \/ MarkFailed
  <2>1. at.pc \in Dumping /\ at.pc # "prune" /\ at.excess = {} /\ UNCHANGED <<config, crashes>>
        /\ at'.excess = {} /\ \E status \in {"running", "failed"} : SetStatus(at.run, status)
      BY <1>4, MarkRunningDoes, MarkFailedDoes DEF Dumping, Stays, Typed, Placed
  <2>2. \A r \in Ids : runs'[r].config = runs[r].config
                       /\ (runs'[r].status = "completed" => runs[r].status = "completed")
      BY <2>1, StatusDoes
  <2> QED BY <2>1, <2>2, RetainedKept
<1>5. CASE MarkCompleted
  <2>1. /\ at.pc = "complete" /\ at'.pc = "prune" /\ at'.config = at.config /\ at.excess = {}
        /\ at'.excess = {} /\ SetStatus(at.run, "completed") /\ UNCHANGED <<config, crashes>> /\ at.run \in Ids
      BY <1>0, <1>5, MarkCompletedDoes DEF Dumping, Stays
  <2>2. CASE ~at.config
    <3>1. config => ~runs[at.run].config
        BY <2>1, <2>2 DEF Linked, Dumping
    <3>2. \A r \in Ids : /\ runs'[r].config = runs[r].config
                         /\ r # at.run => runs'[r] = runs[r]
        BY <2>1, StatusDoes DEF Dumping
    <3> QED BY <2>1, <3>1, <3>2, RetainedKept
  <2>3. CASE at.config
      BY <2>1, <2>3 DEF Retained
  <2> QED BY <2>2, <2>3
<1>6. CASE Capture \/ Discard
    BY <1>6, <1>a, CaptureDoes, DiscardDoes DEF Stays
<1>7. CASE FindExcess
  <2>1. UNCHANGED <<runs, config, crashes>> /\ at.pc = "prune" /\ at.excess = {}
      BY <1>7, FindExcessDoes
  <2>2. CASE at.config
    <3>1. config /\ Keep > 0 => Completed \ at'.excess = Completed \ Excess
        BY <1>7, <2>2, FindExcessDoes
    <3>2. Completed' = Completed
        BY <2>1 DEF Completed
    <3> QED BY <2>1, <3>1, <3>2, KeptAreFew DEF Retained
  <2>3. CASE ~at.config
      BY <2>1, <2>3, RetainedKept
  <2> QED BY <2>2, <2>3
<1>8. CASE PruneObject
    BY <1>8, <1>a, PruneObjectDoes DEF Stays
<1>9. CASE PruneRow
  <2>1. runs[Going].status \in {"completed", "deleted"} /\ Going \in Ids
      BY <1>9, PruneRowDoes DEF Known, KnownHand, Typed, TypeOK, Locals
  <2>2. /\ at.pc = "row" /\ UNCHANGED <<config, crashes>> /\ at'.excess = at.excess \ {Going}
        /\ runs'[Going].status = "deleted" /\ \A s \in Ids : s # Going => runs'[s] = runs[s]
      BY <1>9, <2>1, PruneRowDoes DEF Exists
  <2> QED BY <2>2, RetainedKept
<1>10. CASE SafetyBackup
  <2>1. CASE OnlyMoves \/ OnlyEnds
      BY <1>10, <1>a, <2>1, SafetyBackupDoes DEF OnlyMoves, OnlyEnds
  <2>2. CASE ~(OnlyMoves \/ OnlyEnds)
    <3>1. UNCHANGED <<config, crashes>> /\ at.pc = "safety" /\ at.excess = {} /\ at'.excess = {}
          /\ runs'[at'.run].status = "queued" /\ \A s \in Ids : s # at'.run => runs'[s] = runs[s]
        BY <1>10, <2>2, SafetyBackupDoes
    <3>2. \A r \in Ids : runs'[r].status = "completed" => runs'[r] = runs[r]
        BY <3>1
    <3> QED BY <3>1, <3>2, RetainedKept
  <2> QED BY <2>1, <2>2
<1>11. CASE ScaleDown \/ Wipe \/ Fill \/ ScaleUp
    BY <1>11, <1>a, ApplyDoes DEF OnlyEnds
<1>12. CASE Crash
    BY <1>12, CrashDoes DEF Retained
<1>13. CASE RecoverRuns
    BY <1>13, RecoverRunsDoes DEF Retained
<1>14. CASE StalledJobReturns \/ (OnlyMoves /\ UNCHANGED at)
  <2>1. UNCHANGED <<runs, config, crashes, at>>
      BY <1>14, StalledJobReturnsDoes DEF OnlyMoves
  <2> QED BY <2>1, RetainedKept
<1> QED BY <1>1, <1>2, <1>3, <1>4, <1>5, <1>6, <1>7, <1>8, <1>9, <1>10, <1>11, <1>12, <1>13, <1>14, StepCases

-----------------------------------------------------------------------------
(* One scheduled run *)

\* No scheduled run is added to those in flight.
LEMMA SweptKept ==
    ASSUME Swept, crashes' = 0 => crashes = 0, config' => config,
           config' /\ sweep'.pc \in {"due", "insert"} => sweep.pc \in {"due", "insert"},
           crashes = 0 => Scheduled' \subseteq Scheduled
    PROVE  Swept'
    BY DEF Swept

\* Every step keeps Swept: nobody but the sweep inserts a scheduled run, and it
\* has found none in flight.
LEMMA SweptStep ==
    ASSUME Typed, Known, InHand, Linked, Swept, [Next]_vars
    PROVE  Swept'
\* Steps after which fewer runs are in flight.
<1>a. ASSUME UNCHANGED <<config, crashes, sweep>>,
             \A r \in Ids : \/ runs'[r] = runs[r] \/ runs'[r].status \notin InFlight
                            \/ runs'[r].status = runs[r].status /\ runs'[r].kind = runs[r].kind
                            \/ runs'[r].kind # "scheduled"
      PROVE  Swept'
  <2>1. Scheduled' \subseteq Scheduled
      BY <1>a DEF Scheduled
  <2> QED BY <1>a, <2>1, SweptKept
<1>1. CASE Dashboard
  <2>1. ASSUME NEW r \in Ids, TriggerInsert(r) PROVE Swept'
    <3>1. /\ runs'[r].kind = "manual" /\ \A s \in Ids : s # r => runs'[s] = runs[s]
          /\ UNCHANGED <<config, crashes, sweep>>
        BY <2>1, Inserted, Flat DEF TriggerInsert, Typed, TypeOK, cron, host
    <3> QED BY <1>a, <3>1
  <2>2. ASSUME NEW r \in Ids, EraseRow(r) PROVE Swept'
    <3>1. /\ \A s \in Ids : s # r => runs'[s] = runs[s]
          /\ runs'[r] = runs[r] \/ runs'[r].status = "deleted"
          /\ UNCHANGED <<config, crashes, sweep>>
        BY <2>2, StatusSet, Flat DEF EraseRow, Typed, TypeOK, cron, host
    <3> QED BY <1>a, <3>1 DEF InFlight
  <2>3. CASE DropConfig
    <3>1. /\ ~config' /\ UNCHANGED <<crashes, sweep>>
          /\ \A r \in Ids : runs'[r].status = runs[r].status /\ runs'[r].kind = runs[r].kind
        BY <2>3 DEF DropConfig, host, Typed, TypeOK, Run
    <3>2. Scheduled' \subseteq Scheduled
        BY <3>1 DEF Scheduled
    <3> QED BY <3>1, <3>2, SweptKept
  <2>4. ASSUME NEW r \in Ids,
               TriggerEnqueue(r) \/ TriggerLost(r) \/ EraseRead(r) \/ EraseObject(r) \/ TriggerRestore(r)
        PROVE  Swept'
    <3>1. UNCHANGED <<runs, config, crashes, sweep>>
        BY <2>4 DEF TriggerEnqueue, TriggerLost, EraseRead, EraseObject, TriggerRestore, store, cron, host
    <3> QED BY <1>a, <3>1
  <2>5. CASE CronFires
    <3>1. UNCHANGED <<runs, config, crashes, sweep>>
        BY <2>5 DEF CronFires, store, host
    <3> QED BY <1>a, <3>1
  <2> QED BY <1>1, <2>1, <2>2, <2>3, <2>4, <2>5 DEF Dashboard
<1>2. CASE StartSweep \/ SweepStep
  <2>0. UNCHANGED <<config, crashes>> /\ sweep \in Sweep
      BY <1>2 DEF StartSweep, SweepStep, FindInFlight, CheckDue, InsertScheduled, EnqueueScheduled, cron, host,
                  Typed, TypeOK
  <2>1. CASE StartSweep \/ CheckDue \/ EnqueueScheduled
    <3>1. UNCHANGED runs
        BY <2>1 DEF StartSweep, CheckDue, EnqueueScheduled, store
    <3>2. sweep'.pc \in {"due", "insert"} => sweep.pc \in {"due", "insert"}
        BY <2>0, <2>1 DEF StartSweep, CheckDue, EnqueueScheduled, Sweep, Rest
    <3>3. Scheduled' \subseteq Scheduled
        BY <3>1 DEF Scheduled
    <3> QED BY <2>0, <3>2, <3>3, SweptKept
  <2>2. CASE FindInFlight
    <3>1. Scheduled' = Scheduled
        BY <2>2 DEF FindInFlight, store, Scheduled
    <3>2. CASE \E r \in Ids : runs[r].config /\ runs[r].status \in InFlight
      <4>1. sweep'.pc = "idle"
          BY <2>2, <3>2 DEF FindInFlight, Rest
      <4> QED BY <2>0, <3>1, <4>1, SweptKept
    <3>3. CASE ~ \E r \in Ids : runs[r].config /\ runs[r].status \in InFlight
      <4>1. config => Scheduled = {}
          BY <3>3 DEF Linked, Scheduled
      <4> QED BY <2>0, <3>1, <4>1 DEF Swept
    <3> QED BY <3>2, <3>3
  <2>3. CASE InsertScheduled
    <3>1. CASE sweep' = Rest /\ UNCHANGED runs
      <4>1. Scheduled' \subseteq Scheduled /\ sweep'.pc = "idle"
          BY <3>1 DEF Scheduled, Rest
      <4> QED BY <2>0, <4>1, SweptKept
    <3>2. ASSUME NEW r \in Ids, config, Fresh(r), Insert(r, "scheduled", TRUE), sweep' = [pc |-> "enqueue", run |-> r]
          PROVE  Swept'
      <4>1. crashes = 0 => Scheduled = {}
          BY <2>3, <3>2 DEF InsertScheduled, Swept
      <4>2. \A s \in Ids : s # r => runs'[s] = runs[s]
          BY <3>2, Inserted DEF Typed, TypeOK
      <4>3. crashes = 0 => \A s \in Scheduled' : s = r
          BY <4>1, <4>2 DEF Scheduled
      <4>4. sweep'.pc = "enqueue"
          BY <3>2
      <4> QED BY <2>0, <4>3, <4>4 DEF Swept
    <3> QED BY <2>3, <3>1, <3>2 DEF InsertScheduled
  <2> QED BY <1>2, <2>1, <2>2, <2>3 DEF SweepStep
<1>3. CASE TakeJob
    BY <1>3, <1>a, TakeJobDoes
<1>4. CASE Load \/ Connect \/ UploadedSize \/ ResolveSource \/ ObjectExists \/ DownloadStream
    BY <1>4, <1>a, MovesDo DEF OnlyMoves, OnlyEnds
<1>5. CASE MarkRunning
  <2>1. at.pc = "mark" /\ SetStatus(at.run, "running") /\ UNCHANGED <<config, crashes, sweep>> /\ at.run \in Ids
      BY <1>5, MarkRunningDoes, QueueRuns DEF Dumping
  <2>2. crashes = 0 => runs[at.run].status = "queued"
      BY <2>1 DEF InHand, Dumping
  <2>3. \A r \in Ids : runs'[r].kind = runs[r].kind /\ (r # at.run => runs'[r] = runs[r])
      BY <2>1, StatusDoes DEF Dumping
  <2>4. crashes = 0 => Scheduled' \subseteq Scheduled
      BY <2>2, <2>3 DEF Scheduled, InFlight
  <2> QED BY <2>1, <2>4, SweptKept
<1>6. CASE MarkCompleted \/ MarkFailed
  <2>1. at.pc \in Dumping /\ UNCHANGED <<config, crashes, sweep>>
        /\ \E status \in {"completed", "failed"} : SetStatus(at.run, status)
      BY <1>6, MarkCompletedDoes, MarkFailedDoes DEF Dumping
  <2>2. \A r \in Ids : runs'[r] = runs[r] \/ runs'[r].status \in {"completed", "failed"}
      BY <2>1, StatusDoes
  <2> QED BY <1>a, <2>1, <2>2 DEF InFlight
<1>7. CASE Capture \/ Discard
    BY <1>7, <1>a, CaptureDoes, DiscardDoes
<1>8. CASE FindExcess \/ PruneObject
    BY <1>8, <1>a, FindExcessDoes, PruneObjectDoes
<1>9. CASE PruneRow
    BY <1>9, <1>a, PruneRowDoes DEF InFlight
<1>10. CASE SafetyBackup
    BY <1>10, <1>a, SafetyBackupDoes DEF OnlyMoves, OnlyEnds
<1>11. CASE ScaleDown \/ Wipe \/ Fill \/ ScaleUp
    BY <1>11, <1>a, ApplyDoes DEF OnlyEnds
<1>12. CASE Crash
    BY <1>12, CrashDoes DEF Swept
<1>13. CASE RecoverRuns
    BY <1>13, RecoverRunsDoes DEF Swept
<1>14. CASE StalledJobReturns \/ (OnlyMoves /\ UNCHANGED at)
    BY <1>14, <1>a, StalledJobReturnsDoes DEF OnlyMoves
<1> QED BY <1>1, <1>2, <1>3, <1>4, <1>5, <1>6, <1>7, <1>8, <1>9, <1>10, <1>11, <1>12, <1>13, <1>14, StepCases

-----------------------------------------------------------------------------
(* Restores *)

\* Every step keeps Unlinked.
LEMMA UnlinkedStep ==
    ASSUME Typed, Known, Unlinked, [Next]_vars
    PROVE  Unlinked'
<1> SUFFICES ASSUME Subject = "database" PROVE Unlinked'
    BY SubjectStays DEF Unlinked
<1> USE SubjectStays
<1>0. /\ at.pc \in Dumping => at.run \in Ids /\ runs[at.run].status # "absent"
      /\ at.excess \subseteq Ids /\ \A r \in at.excess : runs[r].status # "absent"
    BY QueueRuns DEF Known, KnownHand, Typed, TypeOK, Locals
<1>1. CASE Dashboard \/ StartSweep \/ SweepStep
    BY <1>0, <1>1, AsideDoes DEF Unlinked
<1>2. CASE TakeJob
    BY <1>2, TakeJobDoes DEF Unlinked, Dumping
<1>3. CASE Load \/ Connect \/ UploadedSize \/ ResolveSource \/ ObjectExists \/ DownloadStream
    BY <1>3, MovesDo DEF OnlyMoves, OnlyEnds, Unlinked, Dumping
<1>4. CASE MarkRunning \/ MarkCompleted \/ MarkFailed
  <2>1. /\ at.pc \in Dumping \ {"load"} /\ at.excess = {} /\ at'.excess = {}
        /\ \E status \in {"running", "completed", "failed"} : SetStatus(at.run, status)
      BY <1>4, MarkRunningDoes, MarkCompletedDoes, MarkFailedDoes DEF Dumping, Stays, Typed, Placed
  <2>2. at'.pc \in Dumping => Stays /\ UNCHANGED active /\ at'.pc \notin {"object", "row"}
      BY <1>4, MarkRunningDoes, MarkCompletedDoes, MarkFailedDoes DEF Dumping
  <2> QED BY <1>0, <2>1, <2>2, StatusDoes DEF Unlinked, Stays
<1>5. CASE Capture \/ Discard
    BY <1>5, CaptureDoes, DiscardDoes DEF Unlinked, Stays, Dumping
<1>6. CASE FindExcess
  <2>1. UNCHANGED <<runs, config>> /\ at.pc = "prune"
      BY <1>6, FindExcessDoes
  <2>2. CASE at'.pc = "object"
    <3>1. at.config /\ at'.excess = Excess /\ UNCHANGED active
        BY <1>6, <2>2, FindExcessDoes
    <3>2. active.kind # "restore"
        BY <2>1, <3>1 DEF Unlinked, Dumping
    <3> QED BY <2>1, <3>1, <3>2 DEF Unlinked, Excess, Completed
  <2>3. CASE at'.pc # "object"
      BY <1>6, <2>1, <2>3, FindExcessDoes DEF Unlinked, Dumping
  <2> QED BY <2>2, <2>3
<1>7. CASE PruneObject \/ PruneRow
    BY <1>0, <1>7, PruneObjectDoes, PruneRowDoes DEF Unlinked, Stays, Dumping
<1>8. CASE SafetyBackup
    BY <1>8, SafetyBackupDoes DEF OnlyMoves, OnlyEnds, Unlinked, Dumping
<1>9. CASE ScaleDown \/ Wipe \/ Fill \/ ScaleUp
    BY <1>9, ApplyDoes DEF OnlyEnds, Unlinked, Dumping
<1>10. CASE Crash \/ RecoverRuns \/ StalledJobReturns
    BY <1>10, CrashDoes, RecoverRunsDoes, StalledJobReturnsDoes DEF Unlinked, Dumping
<1>11. CASE OnlyMoves /\ UNCHANGED at
    BY <1>11 DEF OnlyMoves, Unlinked
<1> QED BY <1>1, <1>2, <1>3, <1>4, <1>5, <1>6, <1>7, <1>8, <1>9, <1>10, <1>11, StepCases

\* What a restore is of was inserted.
LEMMA SourceKnown ==
    ASSUME Typed, Known, active.kind = "restore"
    PROVE  active.run \in Ids /\ runs[active.run].status # "absent"
    BY DEF Known, KnownJobs, Proper, Job, NoJob

\* Every step keeps Sourced: the worker looked up the object, and writes the
\* objects of other runs.
LEMMA SourcedStep ==
    ASSUME Typed, Known, Unlinked, Sourced, [Next]_vars
    PROVE  Sourced'
<1> USE SubjectStays
<1>0. /\ active.kind = "restore" => active.run \in Ids /\ runs[active.run].status # "absent"
      /\ at.pc \in Dumping => at.run \in Ids
    BY SourceKnown, QueueRuns
\* Steps that touch no object.
<1>a. ASSUME at'.pc \in Dumping => at.pc \in Dumping /\ at'.run = at.run,
             at'.pc \notin {"source", "exists"} => at.pc \notin {"source", "exists"},
             UNCHANGED <<objects, erasing>>, active' \in {active, NoJob}
      PROVE  Sourced'
    BY <1>a DEF Sourced, NoJob
<1>1. CASE Dashboard \/ StartSweep \/ SweepStep
    BY <1>0, <1>1, AsideDoes DEF Sourced
<1>2. CASE TakeJob
    BY <1>2, TakeJobDoes DEF Sourced, Dumping
<1>3. CASE Load \/ Connect \/ UploadedSize \/ ResolveSource \/ ObjectExists \/ DownloadStream
  <2>1. CASE OnlyEnds
      BY <2>1 DEF OnlyEnds, Sourced, NoJob
  <2>2. CASE at.pc = "exists" /\ ~OnlyEnds
      BY <1>3, <2>2, MovesDo DEF OnlyMoves, Sourced, Dumping
  <2>3. CASE at.pc # "exists" /\ ~OnlyEnds
      BY <1>3, <1>a, <2>3, MovesDo DEF OnlyMoves, Dumping
  <2> QED BY <2>1, <2>2, <2>3
<1>4. CASE MarkRunning \/ MarkCompleted \/ MarkFailed
    BY <1>4, <1>a, MarkRunningDoes, MarkCompletedDoes, MarkFailedDoes DEF Stays, Dumping
<1>5. CASE Capture \/ Discard
  <2>1. /\ at.pc \in Dumping /\ UNCHANGED <<active, erasing>> /\ at'.run = at.run
        /\ \A s \in Ids \ {at.run} : objects'[s] = objects[s]
      BY <1>5, CaptureDoes, DiscardDoes DEF Stays, Dumping
  <2>2. active.kind = "restore" => objects'[active.run] = objects[active.run]
      BY <1>0, <2>1 DEF Sourced
  <2> QED BY <2>1, <2>2 DEF Sourced, Dumping
<1>6. CASE FindExcess \/ PruneRow
    BY <1>6, <1>a, FindExcessDoes, PruneRowDoes DEF Dumping
<1>7. CASE PruneObject
  <2>1. at.pc = "object" /\ at'.run = at.run /\ UNCHANGED active
      BY <1>7, PruneObjectDoes DEF Stays
  <2>2. Subject = "database" => active.kind # "restore"
      BY <2>1 DEF Unlinked, Dumping
  <2> QED BY <2>1, <2>2 DEF Sourced, Dumping
<1>8. CASE SafetyBackup
  <2>1. CASE OnlyMoves \/ OnlyEnds
      BY <1>8, <1>a, <2>1, SafetyBackupDoes DEF OnlyMoves, OnlyEnds, Dumping
  <2>2. CASE ~(OnlyMoves \/ OnlyEnds)
    <3>1. at.pc = "safety" /\ runs[at'.run].status = "absent" /\ UNCHANGED <<objects, erasing, active>>
        BY <1>8, <2>2, SafetyBackupDoes
    <3> QED BY <1>0, <3>1 DEF Sourced
  <2> QED BY <2>1, <2>2
<1>9. CASE ScaleDown \/ Wipe \/ Fill \/ ScaleUp
    BY <1>9, <1>a, ApplyDoes DEF OnlyEnds, Dumping
<1>10. CASE Crash
    BY <1>10, CrashDoes DEF Sourced, NoJob
<1>11. CASE RecoverRuns \/ StalledJobReturns \/ (OnlyMoves /\ UNCHANGED at)
    BY <1>11, <1>a, RecoverRunsDoes, StalledJobReturnsDoes DEF OnlyMoves
<1> QED BY <1>1, <1>2, <1>3, <1>4, <1>5, <1>6, <1>7, <1>8, <1>9, <1>10, <1>11, StepCases

\* Until its row is completed, the run in hand is no copy: the safety run of a
\* restore is not completed, and a backup is not of a safety run.
LEMMA HandIsNoCopy ==
    ASSUME Typed, Known, InHand,
           at.pc \in {"load", "mark", "connect", "capture", "discard", "size", "complete", "fail"}
    PROVE  at.run \in Ids /\ at.run \notin Copies
<1>1. at.pc \in Dumping /\ at.run \in Ids /\ active # NoJob
    BY QueueRuns DEF Dumping, Typed, Placed
<1>2. active \in Proper
    BY <1>1 DEF Known, KnownJobs
<1>3. CASE active.kind = "backup"
    BY <1>1, <1>2, <1>3 DEF Known, KnownHand, Proper, Copies
<1>4. CASE active.kind = "restore"
    BY <1>1, <1>4 DEF InHand, Copies
<1> QED BY <1>1, <1>2, <1>3, <1>4 DEF Proper, Job

\* A copy stays one.
LEMMA CopiesStay ==
    ASSUME Typed, Known, InHand, Unlinked, Undoable, [Next]_vars,
           Subject = "database", "delete" \notin Requests
    PROVE  Copies \subseteq Copies'
<1> SUFFICES ASSUME NEW r \in Copies PROVE r \in Copies'
    OBVIOUS
<1>0. /\ r \in Ids /\ runs[r].kind = "pre_restore" /\ runs[r].status = "completed"
      /\ objects[r] = "original" /\ erasing[r] = "no"
    BY DEF Copies, Undoable
<1>a. ASSUME runs'[r].kind = runs[r].kind, runs'[r].status = runs[r].status, objects'[r] = objects[r]
      PROVE  r \in Copies'
    BY <1>0, <1>a DEF Copies
<1>1. CASE Dashboard \/ StartSweep \/ SweepStep
    BY <1>0, <1>a, <1>1, AsideDoes
<1>2. CASE TakeJob
    BY <1>2, <1>a, TakeJobDoes
<1>3. CASE Load \/ Connect \/ UploadedSize \/ ResolveSource \/ ObjectExists \/ DownloadStream
    BY <1>3, <1>a, MovesDo DEF OnlyMoves, OnlyEnds
<1>4. CASE MarkRunning \/ MarkCompleted \/ MarkFailed
  <2>1. /\ at.pc \in {"mark", "complete", "fail"} /\ at.pc \in Dumping /\ UNCHANGED objects
        /\ \E status \in {"running", "completed", "failed"} : SetStatus(at.run, status)
      BY <1>4, MarkRunningDoes, MarkCompletedDoes, MarkFailedDoes DEF Dumping
  <2>2. r # at.run
      BY <2>1, HandIsNoCopy
  <2> QED BY <1>0, <1>a, <2>1, <2>2, StatusDoes
<1>5. CASE Capture \/ Discard
  <2>1. at.pc \in {"capture", "discard"} /\ UNCHANGED runs /\ \A s \in Ids \ {at.run} : objects'[s] = objects[s]
      BY <1>5, CaptureDoes, DiscardDoes
  <2>2. r # at.run
      BY <2>1, HandIsNoCopy
  <2> QED BY <1>0, <1>a, <2>1, <2>2
<1>6. CASE FindExcess
    BY <1>6, <1>a, FindExcessDoes
<1>7. CASE PruneObject \/ PruneRow
  <2>1. Going \in at.excess
      BY <1>7, PruneObjectDoes, PruneRowDoes
  <2>2. r # Going
      BY <1>0, <2>1 DEF Unlinked
  <2> QED BY <1>0, <1>7, <1>a, <2>2, PruneObjectDoes, PruneRowDoes
<1>8. CASE SafetyBackup
    BY <1>0, <1>8, <1>a, SafetyBackupDoes DEF OnlyMoves, OnlyEnds
<1>9. CASE ScaleDown \/ Wipe \/ Fill \/ ScaleUp
    BY <1>9, <1>a, ApplyDoes DEF OnlyEnds
<1>10. CASE Crash \/ RecoverRuns \/ StalledJobReturns
    BY <1>0, <1>10, <1>a, CrashDoes, RecoverRunsDoes, StalledJobReturnsDoes
<1>11. CASE OnlyMoves /\ UNCHANGED at
    BY <1>11, <1>a DEF OnlyMoves
<1> QED BY <1>1, <1>2, <1>3, <1>4, <1>5, <1>6, <1>7, <1>8, <1>9, <1>10, <1>11, StepCases

\* Every step keeps Undoable: the safety run is completed, and holds what is
\* there, before the first byte is touched.
LEMMA UndoableStep ==
    ASSUME Typed, Known, InHand, Unlinked, Undoable, [Next]_vars
    PROVE  Undoable'
<1> SUFFICES ASSUME Subject = "database", "delete" \notin Requests PROVE Undoable'
    BY SubjectStays DEF Undoable
<1> USE SubjectStays
<1>0. Copies # {} => Copies' # {}
    BY CopiesStay
\* Steps that end the job, or write nothing that matters.
<1>a. ASSUME UNCHANGED <<erasing, data>>,
             at'.pc \notin {"download", "wipe", "fill", "prune", "size", "complete", "down", "up"}
      PROVE  Undoable'
    BY <1>0, <1>a DEF Undoable
<1>1. CASE Dashboard \/ StartSweep \/ SweepStep
  <2>1. UNCHANGED <<at, active, data>>
      BY <1>1, AsideDoes
  <2>2. \A r \in Ids : erasing'[r] = "no" /\ objects'[r] = objects[r]
      BY <1>1, AsideDoes DEF Undoable
  <2>3. at.pc \in {"size", "complete"} => at.run \in Ids
      BY HandIsNoCopy
  <2> QED BY <1>0, <2>1, <2>2, <2>3 DEF Undoable
<1>2. CASE TakeJob
    BY <1>2, <1>a, TakeJobDoes
<1>3. CASE Load \/ Connect \/ UploadedSize \/ ResolveSource \/ ObjectExists \/ DownloadStream
  <2>1. CASE OnlyEnds
      BY <1>a, <2>1 DEF OnlyEnds
  <2>2. CASE OnlyMoves /\ at'.run = at.run /\ at.pc \in {"size", "download"} /\ at'.pc \in {"complete", "fail", "wipe"}
             /\ (at.pc = "size" => at'.pc # "wipe") /\ (at.pc = "download" => at'.pc = "wipe")
      BY <1>0, <2>2 DEF OnlyMoves, Undoable
  <2>3. CASE OnlyMoves /\ at'.pc \in {"mark", "capture", "exists", "safety"}
      BY <1>a, <2>3 DEF OnlyMoves
  <2> QED BY <1>3, <2>1, <2>2, <2>3, MovesDo
<1>4. CASE MarkRunning \/ MarkFailed
    BY <1>4, <1>a, MarkRunningDoes, MarkFailedDoes
<1>5. CASE MarkCompleted
  <2>1. /\ at.pc = "complete" /\ at'.pc = "prune" /\ SetStatus(at.run, "completed")
        /\ UNCHANGED <<objects, erasing, active, data>>
      BY <1>5, MarkCompletedDoes
  <2>2. ASSUME active.kind = "restore", data = "original" PROVE Copies' # {}
    <3>1. at.run \in Ids /\ runs[at.run].status = "running" /\ runs[at.run].kind = "pre_restore"
        BY <2>1, <2>2, QueueRuns DEF InHand, Known, KnownHand, Dumping
    <3>2. runs'[at.run].status = "completed" /\ runs'[at.run].kind = "pre_restore"
        BY <2>1, <3>1, StatusDoes DEF Exists, Dumping
    <3>3. objects'[at.run] = "original"
        BY <2>1, <2>2 DEF Undoable
    <3> QED BY <3>1, <3>2, <3>3 DEF Copies
  <2> QED BY <1>0, <2>1, <2>2 DEF Undoable
<1>6. CASE Capture
  <2>1. /\ UNCHANGED <<erasing, active, data>> /\ at'.run = at.run
        /\ \/ at'.pc = "size" /\ objects'[at.run] = data
           \/ at'.pc \in {"discard", "fail"}
      BY <1>6, CaptureDoes DEF Stays
  <2> QED BY <1>0, <2>1 DEF Undoable
<1>7. CASE Discard
    BY <1>7, <1>a, DiscardDoes
<1>8. CASE FindExcess
  <2>1. UNCHANGED <<erasing, data>> /\ at.pc = "prune"
      BY <1>8, FindExcessDoes
  <2>2. CASE at'.pc = "download"
    <3>1. active.kind = "restore"
        BY <1>8, <2>2, FindExcessDoes
    <3> QED BY <1>0, <2>1, <2>2, <3>1 DEF Undoable
  <2>3. CASE at'.pc \in {"object", "idle"}
      BY <1>a, <2>1, <2>3
  <2> QED BY <1>8, <2>2, <2>3, FindExcessDoes
<1>9. CASE PruneObject
    BY <1>9, <1>a, PruneObjectDoes
<1>10. CASE PruneRow
  <2>1. active.kind # "restore"
      BY <1>10, PruneRowDoes DEF Unlinked, Dumping
  <2>2. at'.pc \in {"object", "idle"} /\ UNCHANGED <<erasing, data>>
      BY <1>10, <2>1, PruneRowDoes
  <2> QED BY <1>a, <2>2
<1>11. CASE SafetyBackup
  <2>1. at'.pc \in {"load", "idle"} /\ UNCHANGED <<erasing, data>>
      BY <1>11, SafetyBackupDoes DEF OnlyMoves, OnlyEnds
  <2> QED BY <1>a, <2>1
<1>12. CASE ScaleDown \/ Wipe \/ Fill \/ ScaleUp
  <2>1. CASE OnlyEnds
      BY <1>a, <2>1 DEF OnlyEnds
  <2>2. CASE ~OnlyEnds
    <3>1. /\ UNCHANGED erasing
          /\ \/ at.pc = "wipe" /\ at'.pc = "fill"
             \/ at.pc = "fill" /\ at'.pc = "idle"
      <4>1. at.pc \notin {"down", "up"}
          BY DEF Undoable
      <4> QED BY <1>12, <2>2, <4>1, ApplyDoes
    <3> QED BY <1>0, <3>1 DEF Undoable
  <2> QED BY <2>1, <2>2
<1>13. CASE Crash
    BY <1>13, <1>a, CrashDoes
<1>14. CASE RecoverRuns
    BY <1>14, <1>a, RecoverRunsDoes
<1>15. CASE StalledJobReturns \/ (OnlyMoves /\ UNCHANGED at)
  <2>1. UNCHANGED <<objects, erasing, data, at, active>>
      BY <1>15, StalledJobReturnsDoes DEF OnlyMoves
  <2> QED BY <1>0, <2>1 DEF Undoable
<1> QED BY <1>1, <1>2, <1>3, <1>4, <1>5, <1>6, <1>7, <1>8, <1>9, <1>10, <1>11, <1>12, <1>13, <1>14, <1>15, StepCases

-----------------------------------------------------------------------------
(* The invariant, and what it means *)

IInv ==
    /\ Typed /\ Known /\ InHand /\ Once
    /\ Whole /\ Counted /\ Linked /\ Retained
    /\ Swept /\ Down /\ Unlinked /\ Sourced /\ Undoable

\* It holds initially,
LEMMA InitIInv == Init => IInv
<1> SUFFICES ASSUME Init PROVE IInv
    OBVIOUS
<1>1. /\ \A r \in Ids : runs[r] = NoRun /\ erasing[r] = "no"
      /\ at = Idle /\ sweep = Rest /\ active = NoJob /\ stalled = NoJob /\ queue = <<>>
      /\ submitting = {} /\ data = "original"
    BY DEF Init
<1>2. at.pc = "idle" /\ at.excess = {} /\ sweep.pc = "idle"
    BY <1>1 DEF Idle, Rest
<1>3. \A r \in Ids : runs[r].status = "absent" /\ runs[r].kind = "manual" /\ runs[r].config = FALSE
    BY <1>1 DEF NoRun
<1>4. Typed
    BY InitTyped
<1>5. Known
    BY <1>1, <1>2, <1>3 DEF Known, KnownJobs, KnownAsks, KnownHand, Dumping
<1>6. InHand /\ Once /\ Whole
    BY <1>1, <1>2, <1>3 DEF InHand, Once, Waits, Whole, Dumping
<1>7. Counted /\ Linked
    BY <1>2, <1>3 DEF Counted, Linked, Dumping
<1>8. Completed = {} /\ Scheduled = {}
    BY <1>3 DEF Completed, Scheduled, InFlight
<1>9. Completed \ at.excess = {} /\ Cardinality({}) = 0
    BY <1>8, FS_EmptySet
<1>10. Retained /\ Swept
    BY <1>8, <1>9, BackupAssumption DEF Retained, Swept
<1>11. active.kind = "none"
    BY <1>1 DEF NoJob
<1>12. Down /\ Unlinked
    BY <1>1, <1>2, <1>3, <1>11 DEF Down, Unlinked, Dumping
<1>13. Sourced /\ Undoable
    BY <1>1, <1>2, <1>11 DEF Sourced, Undoable, Dumping
<1> QED BY <1>4, <1>5, <1>6, <1>7, <1>10, <1>12, <1>13 DEF IInv

\* ... every step keeps it, ...
LEMMA IInvStep == IInv /\ [Next]_vars => IInv'
<1> SUFFICES ASSUME IInv, [Next]_vars PROVE IInv'
    OBVIOUS
<1>1. Typed /\ Known /\ InHand /\ Once /\ Whole /\ Counted /\ Linked /\ Retained
      /\ Swept /\ Down /\ Unlinked /\ Sourced /\ Undoable
    BY DEF IInv
<1>2. Typed'
    BY <1>1, TypedStep
<1>3. Known' /\ InHand' /\ Once'
    BY <1>1, KnownStep, InHandStep, OnceStep
<1>4. Whole' /\ Counted' /\ Linked'
    BY <1>1, <1>2, WholeStep, CountedStep, LinkedStep
<1>5. Retained' /\ Swept' /\ Down'
    BY <1>1, <1>2, RetainedStep, SweptStep, DownStep
<1>6. Unlinked' /\ Sourced' /\ Undoable'
    BY <1>1, UnlinkedStep, SourcedStep, UndoableStep
<1> QED BY <1>2, <1>3, <1>4, <1>5, <1>6 DEF IInv

\* ... so it always holds.
LEMMA IInvAlways == Spec => []IInv
    BY InitIInv, IInvStep, PTL DEF Spec

\* A completed run that nobody deletes has a whole object whenever the worker
\* is done, until it first dies: neither a cut-off upload nor a prune that
\* removed the object and kept the row.
THEOREM KeptWhole == Spec => []KeptHasObject
<1>1. IInv => KeptHasObject
    BY DEF IInv, Whole, KeptHasObject
<1> QED BY <1>1, IInvAlways, PTL

\* Once the worker is done no more than keepLatestCount runs of the
\* configuration are completed, until it first dies.
THEOREM RetentionAlways == Spec => []RetentionRespected
<1>1. ASSUME IInv, at.pc = "idle", crashes = 0, config, Keep > 0
      PROVE  Cardinality(Completed) <= Keep
  <2>1. at.excess = {}
      BY <1>1 DEF IInv, Typed, Placed
  <2>2. Completed \ at.excess = Completed
      BY <2>1
  <2> QED BY <1>1, <2>2 DEF IInv, Retained
<1>2. IInv => RetentionRespected
    BY <1>1 DEF RetentionRespected
<1> QED BY <1>2, IInvAlways, PTL

\* At most one scheduled run is queued or running, though the sweep looks for
\* one and inserts in two steps, until the worker first dies.
THEOREM OneScheduledAlways == Spec => []OneScheduled
<1>1. ASSUME IInv, crashes = 0
      PROVE  Cardinality(Scheduled) <= 1
  <2>1. CASE Scheduled = {}
      BY <2>1, FS_EmptySet
  <2>2. ASSUME NEW r \in Scheduled
        PROVE  Cardinality(Scheduled) <= 1
    <3>1. Scheduled = {r}
        BY <1>1 DEF IInv, Swept
    <3>2. Cardinality({r}) = 1
        BY FS_Singleton
    <3> QED BY <3>1, <3>2
  <2> QED BY <2>1, <2>2
<1>2. IInv => OneScheduled
    BY <1>1 DEF OneScheduled, Scheduled
<1> QED BY <1>2, IInvAlways, PTL

\* No restore serves a volume that one left half restored, whatever crashed, was
\* redelivered or asked for in between; who else scales its service up is on
\* record.
THEOREM TornNeverServed == Spec => []TornIsNotServed
<1>1. IInv => TornIsNotServed
    BY DEF IInv, Down, TornIsNotServed
<1> QED BY <1>1, IInvAlways, PTL

\* What a restore of a database downloads is there, whatever its safety backup
\* pruned and however often it was redelivered.
THEOREM SourceAlwaysSurvives == Spec => [](Subject = "database" => SourceSurvives)
<1>1. ASSUME IInv, Subject = "database", at.pc = "download", erasing[active.run] = "no"
      PROVE  objects[active.run] # "none"
  <2>1. active.kind = "restore"
      BY <1>1 DEF IInv, Typed, Placed, Restoring
  <2> QED BY <1>1, <2>1 DEF IInv, Sourced
<1>2. IInv => (Subject = "database" => SourceSurvives)
    BY <1>1 DEF SourceSurvives
<1> QED BY <1>2, IInvAlways, PTL

\* A restore of a database can be undone as long as no operator deletes runs:
\* a completed safety backup holds what was there before the first restore.
THEOREM AlwaysReversible ==
    Spec => [](Subject = "database" /\ "delete" \notin Requests => RestoreIsReversible)
<1>1. IInv => (Subject = "database" /\ "delete" \notin Requests => RestoreIsReversible)
    BY DEF IInv, Undoable, Copies, RestoreIsReversible
<1> QED BY <1>1, IInvAlways, PTL

\* Only pruning takes a completed run nobody is deleting.
LEMMA OnlyPruned ==
    ASSUME Typed, [Next]_vars, ~PruneRow, NEW r \in Ids,
           runs[r].status = "completed", runs'[r].status = "deleted"
    PROVE  erasing[r] = "row"
<1>1. CASE Dashboard \/ StartSweep \/ SweepStep
    BY <1>1, AsideDoes
<1>2. CASE TakeJob
    BY <1>2, TakeJobDoes
<1>3. CASE Load \/ Connect \/ UploadedSize \/ ResolveSource \/ ObjectExists \/ DownloadStream
    BY <1>3, MovesDo DEF OnlyMoves, OnlyEnds
<1>4. CASE MarkRunning \/ MarkCompleted \/ MarkFailed
  <2>1. at.pc \in Dumping /\ \E status \in {"running", "completed", "failed"} : SetStatus(at.run, status)
      BY <1>4, MarkRunningDoes, MarkCompletedDoes, MarkFailedDoes DEF Dumping
  <2> QED BY <2>1, StatusDoes
<1>5. CASE Capture \/ Discard \/ FindExcess \/ PruneObject
    BY <1>5, CaptureDoes, DiscardDoes, FindExcessDoes, PruneObjectDoes
<1>6. CASE SafetyBackup
    BY <1>6, SafetyBackupDoes DEF OnlyMoves, OnlyEnds
<1>7. CASE ScaleDown \/ Wipe \/ Fill \/ ScaleUp
    BY <1>7, ApplyDoes DEF OnlyEnds
<1>8. CASE Crash \/ RecoverRuns \/ StalledJobReturns
    BY <1>8, CrashDoes, RecoverRunsDoes, StalledJobReturnsDoes
<1>9. CASE OnlyMoves /\ UNCHANGED at
    BY <1>9 DEF OnlyMoves
<1> QED BY <1>1, <1>2, <1>3, <1>4, <1>5, <1>6, <1>7, <1>8, <1>9, StepCases

\* Retention drops a completed row only for keepLatestCount newer ones, those
\* that an operator deletes at the same time counted.
THEOREM NewestAlwaysKept == Spec => NewestKept
<1> DEFINE later(r) == {s \in Ids : s > r /\ (runs[s].status = "completed" \/ erasing[s] # "no")}
<1>1. ASSUME IInv, [Next]_vars, NEW r \in Ids,
             runs[r].status = "completed", runs'[r].status = "deleted", erasing[r] # "row"
      PROVE  Cardinality(later(r)) >= Keep
  <2>1. Typed /\ Counted /\ PruneRow
      BY <1>1, OnlyPruned DEF IInv
  <2>2. r \in at.excess
      BY <1>1, <2>1, PruneRowDoes
  <2>3. Held(r) \subseteq later(r) /\ IsFiniteSet(later(r)) /\ IsFiniteSet(Held(r))
    <3>1. Held(r) \subseteq later(r) /\ later(r) \subseteq Ids
        BY DEF Held
    <3> QED BY <3>1, IdsFinite, FS_Subset
  <2>4. /\ Cardinality(Held(r)) <= Cardinality(later(r))
        /\ Cardinality(Held(r)) \in Nat /\ Cardinality(later(r)) \in Nat
      BY <2>3, FS_Subset, FS_CardinalityType
  <2> QED BY <2>1, <2>2, <2>4, BackupAssumption DEF Counted
<1>2. IInv /\ [Next]_vars =>
        [\A r \in Ids :
             runs[r].status = "completed" /\ runs'[r].status = "deleted" /\ erasing[r] # "row" =>
               Cardinality({s \in Ids : /\ s > r
                                        /\ runs[s].status = "completed" \/ erasing[s] # "no"}) >= Keep]_vars
    BY <1>1
<1> QED BY <1>2, IInvAlways, PTL DEF Spec, NewestKept
=================================================================================
