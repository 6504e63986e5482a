------------------------------ MODULE StacksProofs ------------------------------
(***************************************************************************)
(* Stacks for every set of services and compose files, and every number of  *)
(* deployments, waiting jobs and crashes: its types, who owns a deployment  *)
(* in flight, what is left of a stack that is gone, and that a stack that   *)
(* reads running runs what its current deployment built.                    *)
(***************************************************************************)
EXTENDS Stacks, JobQueueProofs

-----------------------------------------------------------------------------
(* Types *)

AnyJobs == [kind : JobKinds, arg : Ids \cup {NoId}, again : BOOLEAN]

\* A deployment and a rollback name a row.
Jobs == {job \in AnyJobs : job.kind \in {"deploy", "rollback"} => job.arg \in Ids}

StackRow == [status : RESOURCE_STATUSES \cup {"gone"}, error : BOOLEAN, current : Ids \cup {NoId}]

\* What the worker may be at in a job of each kind, and the branch.
PlaceOf ==
    [ none     |-> {"idle"},
      deploy   |-> {"deploy", "compose", "build"} \cup Shipping \cup Recording,
      rollback |-> {"rollback"} \cup Shipping \cup Recording,
      delete   |-> {"delete", "erasing", "stuck"} ]
BranchPlaces == {"idle", "looping", "reverting", "reverted", "stranded"} \cup Shipping \cup Recording

\* An actor that ships or records works on a row.
Busy == {"deploy", "compose", "build", "looping", "reverting"} \cup Shipping \cup Recording

WorkerTyped ==
    /\ JobsIn(Jobs)
    /\ process \in {"down", "recovering", "up"}
    /\ crashes \in 0..MaxCrashes
    /\ process # "up" => active = NoJob /\ act["branch"] = Idle

ActTyped ==
    /\ act \in [Actors -> Actor]
    /\ act["worker"].at \in PlaceOf[active.kind]
    /\ act["branch"].at \in BranchPlaces
    /\ \A a \in Actors :
         /\ act[a].at \in Busy => act[a].row \in Ids
         /\ act[a].at \in {"rollback", "reverted"} => act[a].source \in Ids
    /\ active.kind = "deploy" => act["worker"].source = NoId /\ act["worker"].row = active.arg
    /\ active.kind = "rollback" => act["worker"].source \in Ids
    /\ act["branch"].at \in Shipping \cup Recording => act["branch"].source \in Ids

RestTyped ==
    /\ stack \in StackRow
    /\ rows \in [Ids -> Row]
    /\ request \in Ids \cup {NoId}
    /\ deleting \in BOOLEAN
    /\ swarm \in [Services -> Service]
    /\ doubt \subseteq {"overlap", "late", "cut", "removed"}
    /\ left \subseteq Ids

Typed == WorkerTyped /\ ActTyped /\ RestTyped

-----------------------------------------------------------------------------
(* What else always holds *)

\* While a process runs, a row reads building or deploying only as long as the
\* actor that works on it has not written its outcome.
Unsettled == {"compose", "build", "accepted", "refused", "failed"} \cup Shipping

Owned ==
    process # "down" => \A d \in Ids : rows[d].status \in {"building", "deploying"} =>
        d \in left \/ \E a \in Actors : act[a].row = d /\ act[a].at \in Unsettled

\* Rows are there until the stack is gone, and then nothing is.
Present ==
    /\ ~Gone =>
         /\ \A a \in Actors : act[a].at # "idle" /\ act[a].row # NoId => rows[act[a].row].status # "absent"
         /\ stack.current # NoId => rows[stack.current].status # "absent"
         /\ request # NoId => rows[request].status # "absent"
         /\ \A job \in stalled \cup Waiting : job.kind = "deploy" => rows[job.arg].status # "absent"
    /\ Gone =>
         /\ \A d \in Ids : rows[d] = NoRow
         /\ act["worker"].at \in {"idle"} \cup JobKinds

\* Removal is complete unless a branch shipped the stack meanwhile.
TornDown ==
    Gone \/ act["worker"].at = "erasing" =>
        \/ "overlap" \in doubt
        \/ (\A s \in Services : swarm[s] = NoService) /\ act["branch"].at # "rolling"

\* The actors do not ship at once without its being on record; a deployment
\* that failed before it shipped may record that meanwhile.
Exposed == Shipping \cup {"accepted", "current", "unwatch", "refused"}
Alone == "overlap" \in doubt \/ \E a \in Actors : act[a].at \notin Exposed

\* What is shipped is the file and the images of the row.
ShipsItsRow(a) ==
    /\ act[a].keys = rows[act[a].row].keys
    /\ act[a].keys # {}
    /\ act[a].image \in {NoId, rows[act[a].row].source}
    /\ act[a].todo \subseteq act[a].keys
    /\ act[a].at \in Shipping => act[a].todo # {}
    /\ act[a].at # "rolling" => act[a].image # NoId

ShipsRow ==
    ~Gone =>
        /\ act["worker"].at = "build" => rows[act["worker"].row].keys # {}
        /\ \A a \in Actors : act[a].at \in Shipping \cup {"accepted", "current"} => ShipsItsRow(a)

\* How far it has got, service by service, when nothing went wrong that no row tells.
Shipped(a, s) == swarm[s].image = act[a].image

RollsOut(a) ==
    /\ act[a].at = "rolling" =>
         \A s \in act[a].keys \ act[a].todo : Shipped(a, s) \/ swarm[s].update = "rolled_back"
    /\ act[a].at = "verdict" /\ ~act[a].refused =>
         \A s \in act[a].keys : Shipped(a, s) \/ (s \in act[a].todo /\ swarm[s].update = "rolled_back")
    /\ act[a].at \in {"accepted", "current"} => \A s \in act[a].keys : Shipped(a, s)

RolledOut == doubt = {} /\ ~Gone => \A a \in Actors : RollsOut(a)

Claims == stack.status = "running" /\ ~stack.error /\ doubt = {}

ServesCurrent ==
    \A s \in rows[stack.current].keys : swarm[s].image = rows[stack.current].source

\* A rollout has changed services and not yet told the row, or was under way
\* when its worker died and is to be done again.
Telling == Shipping \cup (Recording \ {"unwatch"})
HalfDone ==
    \/ \E a \in Actors : act[a].at \in Telling
    \/ act["worker"].at \in {"erasing", "stuck"}
    \/ active.again /\ act["worker"].at \in {"deploy", "compose", "build", "delete"}
    \/ \E job \in stalled : job.kind \in {"deploy", "delete"}
    \/ \E job \in Waiting : job.kind \in {"deploy", "delete"} /\ job.again

RunningIsCurrent ==
    /\ stack.status = "running" => stack.current # NoId
    /\ ~Gone /\ stack.current # NoId => rows[stack.current].keys # {}
    /\ Claims => ServesCurrent \/ HalfDone

\* The rows the operator asked for build their own images.
OwnImages ==
    ~Gone =>
        /\ \A job \in stalled \cup Waiting : job.kind = "deploy" => rows[job.arg].source = job.arg
        /\ active.kind = "deploy" => rows[active.arg].source = active.arg
        /\ request # NoId => rows[request].source = request
\* No job has come back before a worker died.
FirstJobs    == {job \in Jobs : ~job.again}
NoneCameBack == crashes = 0 => JobsIn(FirstJobs) /\ stalled = {}

\* Some job of this kind has yet to write its last word on the stack.
ToCome(kind) ==
    \/ active.kind = kind /\ act["worker"].at # "unwatch"
    \/ \E job \in stalled \cup Waiting : job.kind = kind

Remembered ==
    crashes < 2 /\ ~stack.error =>
        /\ stack.status = "deploying" => ToCome("deploy") \/ request # NoId
        /\ stack.status = "deleting" => ToCome("delete") \/ deleting

IInv == Typed /\ Owned /\ Present /\ TornDown /\ Alone /\ ShipsRow /\ RolledOut
        /\ RunningIsCurrent /\ OwnImages /\ NoneCameBack /\ Remembered

-----------------------------------------------------------------------------
(* What a step does to an actor, a row and the stack *)

Places == JobKinds \cup Shipping \cup Recording \cup
          {"idle", "compose", "build", "erasing", "stuck", "looping", "reverting", "reverted", "stranded"}

Others(a) == \A b \in Actors \ {a} : act'[b] = act[b]

\* An actor stands somewhere else and holds what it held.
Moved(a, at) ==
    /\ act' \in [Actors -> Actor]
    /\ act'[a].at = at
    /\ act'[a].row = act[a].row
    /\ act'[a].source = act[a].source
    /\ act'[a].image = act[a].image
    /\ act'[a].keys = act[a].keys
    /\ act'[a].todo = act[a].todo
    /\ act'[a].refused = act[a].refused
    /\ Others(a)

LEMMA GoEffect ==
    ASSUME act \in [Actors -> Actor], NEW a \in Actors, NEW at \in Places, Go(a, at)
    PROVE  Moved(a, at)
<1>1. act[a] \in Actor /\ act' = [act EXCEPT ![a] = [act[a] EXCEPT !.at = at]]
    BY DEF Go
<1>2. [act[a] EXCEPT !.at = at] \in Actor
    BY <1>1 DEF Actor, Places
<1> QED BY <1>1, <1>2 DEF Moved, Others, Actor

LEMMA IdleIsActor == Idle \in Actor /\ Idle.at = "idle" /\ Idle.row = NoId /\ Idle.source = NoId
    BY DEF Idle, Actor

LEMMA LeaveEffect ==
    ASSUME act \in [Actors -> Actor], NEW a \in Actors, Leave(a)
    PROVE  /\ act' \in [Actors -> Actor]
           /\ act'[a] = Idle
           /\ Others(a)
           /\ IF a = "worker" THEN Finish ELSE UNCHANGED jobs
    BY IdleIsActor DEF Leave, Others

LEMMA BeginEffect ==
    ASSUME act \in [Actors -> Actor], NEW a \in Actors, NEW d \in Ids, NEW image \in Ids \cup {NoId},
           NEW keys \in {{}} \cup Files, BeginRollout(a, d, image, keys)
    PROVE  /\ act' \in [Actors -> Actor]
           /\ act'[a].at = "rolling" /\ act'[a].row = d /\ act'[a].image = image
           /\ act'[a].keys = keys /\ act'[a].todo = keys
           /\ act'[a].source = act[a].source /\ act'[a].refused = act[a].refused
           /\ Others(a)
           /\ doubt' \in {{}, {"overlap"}}
           /\ doubt' = {} => \A b \in Actors \ {a} : act[b].at \notin Shipping \cup Recording \cup {"erasing"}
<1> DEFINE new == [act[a] EXCEPT !.at = "rolling", !.row = d, !.image = image,
                                  !.keys = keys, !.todo = keys]
<1>1. act[a] \in Actor /\ act' = [act EXCEPT ![a] = new]
    BY DEF BeginRollout
<1>2. keys \in SUBSET Services
    BY StacksAssumption
<1>3. /\ new \in Actor
      /\ new.at = "rolling" /\ new.row = d /\ new.image = image /\ new.keys = keys /\ new.todo = keys
      /\ new.source = act[a].source /\ new.refused = act[a].refused
    BY <1>1, <1>2 DEF Actor, Shipping
<1> HIDE DEF new
<1> QED BY <1>1, <1>3 DEF BeginRollout, Others

LEMMA RollEffect ==
    ASSUME act \in [Actors -> Actor], NEW a \in Actors, NEW s \in Services, Roll(a, s)
    PROVE  /\ act' \in [Actors -> Actor]
           /\ act[a].at = "rolling"
           /\ \/ act[a].todo \ {s} = {} /\ act'[a].at = "verdict" /\ act'[a].todo = act[a].keys
              \/ act[a].todo \ {s} # {} /\ act'[a].at = "rolling" /\ act'[a].todo = act[a].todo \ {s}
           /\ act'[a].row = act[a].row
           /\ act'[a].source = act[a].source
           /\ act'[a].image = act[a].image
           /\ act'[a].keys = act[a].keys
           /\ act'[a].refused = act[a].refused
           /\ Others(a)
<1> DEFINE rest == act[a].todo \ {s}
           at   == IF rest = {} THEN "verdict" ELSE "rolling"
           todo == IF rest = {} THEN act[a].keys ELSE rest
           new  == [act[a] EXCEPT !.at = at, !.todo = todo]
<1>1. act[a] \in Actor /\ act[a].at = "rolling"
    BY DEF Roll
<1>2. act' = [act EXCEPT ![a] = new]
    BY <1>1 DEF Roll
<1>3. todo \in SUBSET Services
    BY <1>1, StacksAssumption DEF Actor
<1>4. /\ new \in Actor /\ new.at = at /\ new.todo = todo
      /\ new.row = act[a].row /\ new.source = act[a].source /\ new.image = act[a].image
      /\ new.keys = act[a].keys /\ new.refused = act[a].refused
    BY <1>1, <1>3 DEF Actor, Shipping
<1> HIDE DEF new
<1> QED BY <1>1, <1>2, <1>4 DEF Others

LEMMA VerdictEffect ==
    ASSUME act \in [Actors -> Actor], NEW a \in Actors, ReadVerdict(a)
    PROVE  /\ act' \in [Actors -> Actor]
           /\ act[a].at = "verdict"
           /\ \E s \in act[a].todo :
                /\ act'[a].todo = act[a].todo \ {s}
                /\ \/ act'[a].refused
                   \/ ~act'[a].refused /\ ~act[a].refused /\ swarm[s].update # "rolled_back"
           /\ \/ act'[a].todo # {} /\ act'[a].at = "verdict"
              \/ act'[a].todo = {} /\ act'[a].refused /\ act'[a].at = "refused"
              \/ act'[a].todo = {} /\ ~act'[a].refused /\ act'[a].at = "accepted"
           /\ act'[a].row = act[a].row
           /\ act'[a].source = act[a].source
           /\ act'[a].image = act[a].image
           /\ act'[a].keys = act[a].keys
           /\ Others(a)
<1>1. act[a] \in Actor /\ act[a].at = "verdict"
    BY DEF ReadVerdict
<1>2. PICK s \in act[a].todo, verdict \in {"accepted", "refused"} :
        LET rest    == act[a].todo \ {s}
            refused == act[a].refused \/ verdict = "refused" IN
        /\ verdict \in Verdicts(s)
        /\ act' = [act EXCEPT ![a].at = IF rest # {} THEN @ ELSE IF refused THEN "refused" ELSE "accepted",
                              ![a].todo = rest, ![a].refused = refused]
    BY DEF ReadVerdict
<1> DEFINE rest    == act[a].todo \ {s}
           refused == act[a].refused \/ verdict = "refused"
           at      == IF rest # {} THEN "verdict" ELSE IF refused THEN "refused" ELSE "accepted"
           new     == [act[a] EXCEPT !.at = at, !.todo = rest, !.refused = refused]
<1>3. act' = [act EXCEPT ![a] = new]
    BY <1>1, <1>2
<1>4. rest \in SUBSET Services /\ refused \in BOOLEAN
    BY <1>1 DEF Actor
<1>5. /\ new \in Actor /\ new.at = at /\ new.todo = rest /\ new.refused = refused
      /\ new.row = act[a].row /\ new.source = act[a].source /\ new.image = act[a].image
      /\ new.keys = act[a].keys
    BY <1>1, <1>4 DEF Actor, Shipping, Recording
<1>6. ~refused => ~act[a].refused /\ swarm[s].update # "rolled_back"
    BY <1>2 DEF Verdicts
<1> HIDE DEF new
<1>7. act' \in [Actors -> Actor] /\ act'[a] = new /\ Others(a)
    BY <1>3, <1>5 DEF Others
<1> HIDE DEF refused
<1>8. refused \in BOOLEAN /\ act'[a].refused = refused
    BY <1>4, <1>5, <1>7
<1> QED BY <1>1, <1>4, <1>5, <1>6, <1>7

-----------------------------------------------------------------------------
(* The jobs and the actors keep their types *)

LEMMA JobsAreJobs == Returnable(Jobs) /\ NoJob \notin Jobs /\ Jobs \subseteq AnyJobs
<1>1. NoJob \notin Jobs
    BY DEF Jobs, AnyJobs, NoJob, JobKinds
<1>2. Jobs \subseteq AnyJobs
    BY DEF Jobs
<1>3. ASSUME NEW job \in Jobs
      PROVE  [job EXCEPT !.again = TRUE] \in Jobs
  <2>1. job \in AnyJobs /\ [job EXCEPT !.again = TRUE] \in AnyJobs
    BY <1>2 DEF AnyJobs
  <2>2. /\ [job EXCEPT !.again = TRUE].kind = job.kind
        /\ [job EXCEPT !.again = TRUE].arg = job.arg
    BY <2>1 DEF AnyJobs
  <2> QED BY <2>1, <2>2 DEF Jobs
<1> QED BY <1>1, <1>2, <1>3 DEF Returnable

LEMMA KindsAreJobs ==
    /\ \A kind \in {"deploy", "rollback"}, d \in Ids : [kind |-> kind, arg |-> d, again |-> FALSE] \in Jobs
    /\ [kind |-> "delete", arg |-> NoId, again |-> FALSE] \in Jobs
    BY DEF Jobs, AnyJobs, JobKinds

\* The kind of the job in hand, and what place it allows.
LEMMA JobInHand ==
    ASSUME WorkerTyped, ActTyped
    PROVE  /\ active \in Jobs \/ (active = NoJob /\ act["worker"].at = "idle")
           /\ active.kind \in JobKinds \cup {"none"}
           /\ active.kind = "none" => active = NoJob
           /\ act["worker"].at # "idle" => active \in Jobs /\ process = "up"
           /\ act["worker"].at = "idle" => active = NoJob
           /\ act["worker"].at \in {"deploy", "compose", "build"} => active.kind = "deploy"
           /\ act["worker"].at = "rollback" => active.kind = "rollback"
           /\ act["worker"].at \in {"delete", "erasing", "stuck"} => active.kind = "delete"
           /\ act["worker"].at \in Shipping \cup Recording => active.kind \in {"deploy", "rollback"}
           /\ act["worker"].at \notin {"looping", "reverting", "reverted", "stranded"}
<1>1. active \in AnyJobs \/ active = NoJob
    BY JobsAreJobs DEF WorkerTyped, JobsIn
<1>2. active.kind \in JobKinds \cup {"none"}
    BY <1>1 DEF AnyJobs, NoJob
<1>3. active \in AnyJobs => active.kind # "none"
    BY DEF AnyJobs, JobKinds
<1>4. act["worker"].at \in PlaceOf[active.kind]
    BY DEF ActTyped
<1>5. NoJob.kind = "none"
    BY DEF NoJob
<1> QED BY <1>1, <1>2, <1>3, <1>4, <1>5 DEF PlaceOf, JobKinds, Shipping, Recording, WorkerTyped, JobsIn

\* The branch runs in a process that is up.
LEMMA BranchIsUp ==
    ASSUME WorkerTyped, act["branch"].at # "idle"
    PROVE  process = "up"
    BY IdleIsActor DEF WorkerTyped

\* An actor goes on with what it ships or records.
LEMMA GoesOnTyped ==
    ASSUME WorkerTyped, ActTyped, NEW a \in Actors, UNCHANGED <<jobs, worker>>,
           act' \in [Actors -> Actor], Others(a),
           act[a].at \in Shipping \cup Recording, act'[a].at \in Shipping \cup Recording,
           act'[a].row = act[a].row, act'[a].source = act[a].source
    PROVE  WorkerTyped' /\ ActTyped'
<1>1. act[a].at # "idle" /\ act[a].row \in Ids
    BY DEF Shipping, Recording, ActTyped, Busy
<1>2. process = "up" /\ UNCHANGED <<queue, active, stalled, process, crashes>>
    BY <1>1, JobInHand, BranchIsUp DEF Actors, jobs, worker
<1>3. WorkerTyped'
    BY <1>2 DEF WorkerTyped, JobsIn
<1>4. CASE a = "worker"
  <2>1. active.kind \in {"deploy", "rollback"} /\ act'["branch"] = act["branch"]
    BY <1>4, JobInHand DEF Others, Actors
  <2>2. act'["worker"].at \in PlaceOf[active'.kind]
    BY <1>2, <1>4, <2>1 DEF PlaceOf
  <2>3. act'["worker"].at \notin {"rollback", "reverted"}
    BY <1>4 DEF Shipping, Recording
  <2> QED BY <1>1, <1>2, <1>3, <1>4, <2>1, <2>2, <2>3 DEF ActTyped, Actors
<1>5. CASE a = "branch"
  <2>1. act'["worker"] = act["worker"]
    BY <1>5 DEF Others, Actors
  <2>2. act'["branch"].at \notin {"rollback", "reverted"}
    BY <1>5 DEF Shipping, Recording
  <2> QED BY <1>1, <1>2, <1>3, <1>5, <2>1, <2>2 DEF ActTyped, BranchPlaces, Actors
<1> QED BY <1>3, <1>4, <1>5 DEF Actors

\* An actor has done.
LEMMA LeaveTyped ==
    ASSUME WorkerTyped, ActTyped, NEW a \in Actors, UNCHANGED worker, Leave(a)
    PROVE  WorkerTyped' /\ ActTyped'
<1>0. act \in [Actors -> Actor]
    BY DEF ActTyped
<1>1. act' \in [Actors -> Actor] /\ act'[a] = Idle /\ Others(a)
    BY <1>0, LeaveEffect
<1>2. Idle.at = "idle" /\ "idle" \notin Busy \cup Shipping \cup Recording \cup {"rollback", "reverted"}
    BY IdleIsActor DEF Busy, Shipping, Recording
<1>3. CASE a = "worker"
  <2>1. JobsIn(Jobs)' /\ active' = NoJob /\ NoJob.kind = "none"
    BY <1>3, FinishKeeps DEF Leave, Finish, WorkerTyped, NoJob
  <2>2. act'["branch"] = act["branch"]
    BY <1>1, <1>3 DEF Others, Actors
  <2>3. WorkerTyped'
    BY <2>1, <2>2 DEF WorkerTyped, worker
  <2> QED BY <1>1, <1>2, <1>3, <2>1, <2>2, <2>3 DEF ActTyped, PlaceOf, Actors
<1>4. CASE a = "branch"
  <2>1. UNCHANGED <<queue, active, stalled>>
    BY <1>4 DEF Leave, jobs
  <2>2. act'["worker"] = act["worker"]
    BY <1>1, <1>4 DEF Others, Actors
  <2>3. WorkerTyped'
    BY <1>1, <1>4, <2>1 DEF WorkerTyped, JobsIn, worker
  <2> QED BY <1>1, <1>2, <1>4, <2>1, <2>2, <2>3 DEF ActTyped, BranchPlaces, Actors
<1> QED BY <1>3, <1>4 DEF Actors

\* A step that leaves the actors where they are.
LEMMA RequestTyped ==
    ASSUME WorkerTyped, ActTyped, UNCHANGED <<act, worker, active>>, JobsIn(Jobs)'
    PROVE  WorkerTyped' /\ ActTyped'
<1>1. WorkerTyped'
    BY DEF WorkerTyped, worker
<1> QED BY <1>1 DEF ActTyped

LEMMA NothingTyped ==
    ASSUME WorkerTyped, ActTyped, UNCHANGED <<act, jobs, worker>>
    PROVE  WorkerTyped' /\ ActTyped'
<1>1. JobsIn(Jobs)' /\ active' = active
    BY DEF JobsIn, jobs, WorkerTyped
<1> QED BY <1>1, RequestTyped

\* The worker goes from one place of its job to another.
LEMMA WorkerGoesTyped ==
    ASSUME WorkerTyped, ActTyped, UNCHANGED <<jobs, worker>>,
           act["worker"].at # "idle", NEW at \in PlaceOf[active.kind],
           act' \in [Actors -> Actor], Others("worker"), act'["worker"].at = at,
           act'["worker"].row = act["worker"].row, act'["worker"].source = act["worker"].source,
           at \in Busy => act["worker"].row \in Ids
    PROVE  WorkerTyped' /\ ActTyped'
<1>1. UNCHANGED <<queue, active, stalled, process, crashes>> /\ act'["branch"] = act["branch"]
    BY DEF jobs, worker, Others, Actors
<1>2. active.kind \in JobKinds /\ (at = "rollback" => active.kind = "rollback") /\ at # "reverted"
    BY JobInHand, JobsAreJobs DEF PlaceOf, Shipping, Recording, JobKinds
<1>3. WorkerTyped'
    BY <1>1 DEF WorkerTyped, JobsIn
<1> QED BY <1>1, <1>2, <1>3 DEF ActTyped, Actors

LEMMA WorkerStepTyped ==
    ASSUME WorkerTyped, ActTyped, RestTyped, StartDeploy \/ ReadCompose \/ Build \/ Teardown
    PROVE  WorkerTyped' /\ ActTyped'
<1>0. act \in [Actors -> Actor] /\ "worker" \in Actors
    BY DEF ActTyped, Actors
<1>1. CASE Leave("worker") /\ UNCHANGED worker
    BY <1>0, <1>1, LeaveTyped
<1>2. ASSUME NEW at \in PlaceOf[active.kind] \cap Places, Go("worker", at), UNCHANGED <<jobs, worker>>,
             act["worker"].at # "idle", at \in Busy => act["worker"].row \in Ids
      PROVE  WorkerTyped' /\ ActTyped'
    BY <1>0, <1>2, GoEffect, WorkerGoesTyped DEF Moved
<1>3. CASE StartDeploy
  <2>1. act["worker"].at = "deploy" /\ active.kind = "deploy" /\ act["worker"].row \in Ids
    BY <1>0, <1>3, JobInHand DEF StartDeploy, ActTyped, Busy
  <2>2. "compose" \in PlaceOf[active.kind] \cap Places
    BY <2>1 DEF PlaceOf, Places
  <2> QED BY <1>1, <1>2, <1>3, <2>1, <2>2 DEF StartDeploy
<1>4. CASE ReadCompose
  <2>1. act["worker"].at = "compose" /\ active.kind = "deploy" /\ act["worker"].row \in Ids
    BY <1>0, <1>4, JobInHand DEF ReadCompose, ActTyped, Busy
  <2>2. "build" \in PlaceOf[active.kind] \cap Places
    BY <2>1 DEF PlaceOf, Places
  <2> QED BY <1>2, <1>4, <2>1, <2>2 DEF ReadCompose
<1>5. CASE Build
  <2>1. act["worker"].at = "build" /\ active.kind = "deploy" /\ act["worker"].row \in Ids
    BY <1>0, <1>5, JobInHand DEF Build, ActTyped, Busy
  <2>2. rows[act["worker"].row].keys \in {{}} \cup Files
    BY <2>1 DEF RestTyped, Row
  <2>3. /\ act' \in [Actors -> Actor] /\ act'["worker"].at = "rolling"
        /\ act'["worker"].row = act["worker"].row /\ act'["worker"].source = act["worker"].source
        /\ Others("worker")
    BY <1>0, <1>5, <2>1, <2>2, BeginEffect DEF Build
  <2>4. "rolling" \in PlaceOf[active.kind]
    BY <2>1 DEF PlaceOf, Shipping
  <2> QED BY <1>5, <2>1, <2>3, <2>4, WorkerGoesTyped DEF Build
<1>6. CASE RemoveStack
  <2>1. act["worker"].at = "delete" /\ active.kind = "delete"
    BY <1>6, JobInHand DEF RemoveStack
  <2>2. {"erasing", "stuck"} \subseteq PlaceOf[active.kind] \cap Places /\ {"erasing", "stuck"} \cap Busy = {}
    BY <2>1 DEF PlaceOf, Places, Busy, Shipping, Recording
  <2> QED BY <1>1, <1>2, <1>6, <2>1, <2>2 DEF RemoveStack
<1>7. CASE EraseRow \/ RecordStuck
    BY <1>1, <1>7 DEF EraseRow, RecordStuck
<1>8. CASE EraseThrows
  <2>1. act["worker"].at = "erasing" /\ active.kind = "delete"
    BY <1>8, JobInHand DEF EraseThrows
  <2>2. "stuck" \in PlaceOf[active.kind] \cap Places /\ "stuck" \notin Busy
    BY <2>1 DEF PlaceOf, Places, Busy, Shipping, Recording
  <2> QED BY <1>2, <1>8, <2>1, <2>2 DEF EraseThrows
<1> QED BY <1>3, <1>4, <1>5, <1>6, <1>7, <1>8 DEF Teardown

LEMMA RedeployTyped ==
    ASSUME WorkerTyped, ActTyped, RestTyped, NEW a \in Actors, NEW d \in Ids, Redeploy(a, d)
    PROVE  WorkerTyped' /\ ActTyped'
<1>0. act \in [Actors -> Actor]
    BY DEF ActTyped
<1>1. CASE Leave(a)
    BY <1>1, LeaveTyped DEF Redeploy
<1>2. CASE ~Leave(a)
  <2> DEFINE source == act[a].source
             image  == IF rows[source].built THEN rows[source].source ELSE NoId
  <2>1. source \in Ids /\ act[a].at \in {"rollback", "reverted"}
    BY <1>0 DEF Redeploy, ActTyped
  <2>2. rows[source] \in Row
    BY <2>1 DEF RestTyped
  <2>3. rows[source].keys \in {{}} \cup Files /\ image \in Ids \cup {NoId}
    BY <2>2 DEF Row
  <2>4. BeginRollout(a, d, image, rows[source].keys) /\ UNCHANGED <<jobs, worker>>
    BY <1>2 DEF Redeploy
  <2> HIDE DEF image, source
  <2>5. /\ act' \in [Actors -> Actor] /\ act'[a].at = "rolling" /\ act'[a].row = d
        /\ act'[a].source = act[a].source /\ Others(a)
    BY <1>0, <2>3, <2>4, BeginEffect
  <2>6. process = "up" /\ UNCHANGED <<queue, active, stalled, process, crashes>>
    BY <2>1, <2>4, JobInHand, BranchIsUp DEF Actors, jobs, worker
  <2>7. WorkerTyped'
    BY <2>6 DEF WorkerTyped, JobsIn
  <2>8. CASE a = "worker"
    <3>1. active.kind = "rollback" /\ act'["branch"] = act["branch"]
        BY <2>1, <2>5, <2>8, JobInHand DEF Others, Actors
    <3> QED BY <2>5, <2>6, <2>7, <2>8, <3>1 DEF ActTyped, PlaceOf, Shipping, Actors
  <2>9. CASE a = "branch"
    <3>1. act'["worker"] = act["worker"]
        BY <2>5, <2>9 DEF Others, Actors
    <3> QED BY <2>1, <2>5, <2>6, <2>7, <2>9, <3>1 DEF ActTyped, BranchPlaces, Shipping, Actors, source
  <2> QED BY <2>7, <2>8, <2>9 DEF Actors
<1> QED BY <1>1, <1>2

LEMMA ShipTyped ==
    ASSUME WorkerTyped, ActTyped, NEW a \in Actors, Ship(a)
    PROVE  WorkerTyped' /\ ActTyped'
<1>0. act \in [Actors -> Actor]
    BY DEF ActTyped
<1>1. CASE Leave(a) /\ UNCHANGED worker
    BY <1>1, LeaveTyped
<1>2. ASSUME NEW at \in Shipping \cup Recording, Go(a, at), UNCHANGED <<jobs, worker>>,
             act[a].at \in Shipping \cup Recording
      PROVE  WorkerTyped' /\ ActTyped'
  <2>1. at \in Places
    BY DEF Places
  <2> QED BY <1>0, <1>2, <2>1, GoEffect, GoesOnTyped DEF Moved
<1>3. ASSUME NEW s \in Services, Roll(a, s)
      PROVE  WorkerTyped' /\ ActTyped'
  <2>1. /\ act' \in [Actors -> Actor] /\ Others(a) /\ act[a].at = "rolling"
        /\ act'[a].at \in {"rolling", "verdict"}
        /\ act'[a].row = act[a].row /\ act'[a].source = act[a].source
    BY <1>0, <1>3, RollEffect
  <2> QED BY <1>3, <2>1, GoesOnTyped DEF Roll, Shipping
<1>4. CASE ReadVerdict(a)
  <2>1. /\ act' \in [Actors -> Actor] /\ Others(a) /\ act[a].at = "verdict"
        /\ act'[a].at \in {"verdict", "refused", "accepted"}
        /\ act'[a].row = act[a].row /\ act'[a].source = act[a].source
    BY <1>0, <1>4, VerdictEffect
  <2> QED BY <1>4, <2>1, GoesOnTyped DEF ReadVerdict, Shipping, Recording
<1>5. CASE Throw(a)
  <2>1. CASE act[a].source # NoId
    BY <1>1, <1>5, <2>1 DEF Throw
  <2>2. CASE act[a].source = NoId /\ act[a].at \in Shipping
    BY <1>2, <1>5, <2>2 DEF Throw, Recording
  <2>3. CASE act[a].source = NoId /\ act[a].at \in {"compose", "build"}
    <3>1. a = "worker"
        BY <2>3 DEF ActTyped, BranchPlaces, Shipping, Recording, Actors
    <3>2. active.kind = "deploy" /\ "failed" \in PlaceOf[active.kind] \cap Places /\ act["worker"].row \in Ids
        BY <2>3, <3>1, JobInHand DEF PlaceOf, Recording, Places, ActTyped, Busy
    <3>3. Moved("worker", "failed") /\ UNCHANGED <<jobs, worker>>
        BY <1>0, <1>5, <2>3, <3>1, <3>2, GoEffect DEF Throw
    <3> QED BY <2>3, <3>1, <3>2, <3>3, WorkerGoesTyped DEF Moved
  <2> QED BY <1>5, <2>1, <2>2, <2>3 DEF Throw
<1>6. CASE RecordRow(a)
    BY <1>2, <1>6 DEF RecordRow, Recording
<1>7. CASE RecordStack(a)
    BY <1>1, <1>2, <1>7 DEF RecordStack, Recording
<1>8. CASE ClearSupersededWatch(a)
    BY <1>1, <1>8 DEF ClearSupersededWatch
<1> QED BY <1>3, <1>4, <1>5, <1>6, <1>7, <1>8 DEF Ship

\* What FindPrevious chooses from.
PreviousOf(d) == {e \in 1..(d - 1) : rows[e].status = "succeeded" /\ rows[e].keys # {}}

LEMMA SweepTyped ==
    ASSUME WorkerTyped, ActTyped, Sweep
    PROVE  WorkerTyped' /\ ActTyped'
<1>0. act \in [Actors -> Actor] /\ "branch" \in Actors
    BY DEF ActTyped, Actors
<1>1. CASE RecordStranded
    BY <1>0, <1>1, LeaveTyped DEF RecordStranded
<1>2. CASE ~RecordStranded
  <2> DEFINE Goes ==
        /\ act' \in [Actors -> Actor] /\ Others("branch") /\ process = "up" /\ UNCHANGED <<jobs, worker>>
        /\ act'["branch"].at \in {"looping", "reverting", "reverted", "stranded"}
        /\ act'["branch"].at \in {"looping", "reverting"} => act'["branch"].row \in Ids
        /\ act'["branch"].at = "reverted" => act'["branch"].source \in Ids
  <2>1. Goes
    <3>1. ASSUME NEW d \in Ids, StartBranch(d)
          PROVE  Goes
      <4> DEFINE new == [Idle EXCEPT !.at = "looping", !.row = d]
      <4>1. new \in Actor /\ new.at = "looping" /\ new.row = d
        BY DEF Idle, Actor
      <4>2. act' = [act EXCEPT !["branch"] = new]
        BY <3>1 DEF StartBranch
      <4> HIDE DEF new
      <4> QED BY <1>0, <3>1, <4>1, <4>2 DEF StartBranch, Others
    <3>2. CASE FindPrevious
      <4>1. PICK source \in Ids \cup {NoId} :
              act' = [act EXCEPT !["branch"] = [act["branch"] EXCEPT !.at = "reverting", !.source = source]]
        <5>1. PICK source \in IF PreviousOf(act["branch"].row) = {} THEN {NoId} ELSE PreviousOf(act["branch"].row) :
                act' = [act EXCEPT !["branch"].at = "reverting", !["branch"].source = source]
            BY <3>2 DEF FindPrevious, PreviousOf
        <5>2. act["branch"].row \in Ids
            BY <1>0, <3>2 DEF FindPrevious, ActTyped, Busy
        <5>3. PreviousOf(act["branch"].row) \subseteq Ids
            BY <5>2, StacksAssumption DEF PreviousOf, Ids
        <5> QED BY <5>1, <5>3
      <4> DEFINE new == [act["branch"] EXCEPT !.at = "reverting", !.source = source]
      <4>2. act["branch"] \in Actor /\ act["branch"].at = "looping"
        BY <1>0, <3>2 DEF FindPrevious
      <4>3. new \in Actor /\ new.at = "reverting" /\ new.row = act["branch"].row
        BY <4>2 DEF Actor
      <4>4. act["branch"].row \in Ids
        BY <1>0, <4>2 DEF ActTyped, Busy
      <4>5. process = "up"
        BY <4>2, BranchIsUp
      <4> HIDE DEF new
      <4>6. act' = [act EXCEPT !["branch"] = new]
        BY <4>1 DEF new
      <4> QED BY <1>0, <3>2, <4>3, <4>4, <4>5, <4>6 DEF FindPrevious, Others
    <3>3. CASE RecordReverted
      <4> DEFINE at == IF act["branch"].source = NoId THEN "stranded" ELSE "reverted"
      <4>1. Moved("branch", at)
        BY <1>0, <3>3, GoEffect DEF RecordReverted, Places
      <4>2. process = "up"
        BY <3>3, BranchIsUp DEF RecordReverted
      <4>3. act["branch"].source \in Ids \cup {NoId}
        BY <1>0 DEF Actor
      <4> QED BY <3>3, <4>1, <4>2, <4>3 DEF RecordReverted, Moved
    <3> QED BY <1>2, <3>1, <3>2, <3>3 DEF Sweep
  <2>2. UNCHANGED <<queue, active, stalled, process, crashes>> /\ act'["worker"] = act["worker"]
    BY <2>1 DEF jobs, worker, Others, Actors
  <2>3. WorkerTyped'
    BY <2>1, <2>2 DEF WorkerTyped, JobsIn
  <2>4. act'["branch"].at \in BranchPlaces /\ act'["branch"].at \notin Shipping \cup Recording
        /\ (act'["branch"].at \in Busy => act'["branch"].at \in {"looping", "reverting"})
    BY <2>1 DEF BranchPlaces, Shipping, Recording, Busy
  <2> QED BY <2>1, <2>2, <2>3, <2>4 DEF ActTyped, Actors
<1> QED BY <1>1, <1>2

LEMMA TakeTyped ==
    ASSUME WorkerTyped, ActTyped, TakeJob
    PROVE  /\ WorkerTyped' /\ ActTyped'
           /\ active' \in Jobs
           /\ act'["worker"].at = active'.kind
           /\ act'["worker"].row = IF active'.kind = "deploy" THEN active'.arg ELSE NoId
           /\ Others("worker")
<1>1. JobsIn(Jobs)' /\ active' \in Jobs /\ active' = Head(queue) /\ process = "up"
    BY TakeKeeps DEF TakeJob, Take, WorkerTyped
<1> DEFINE kind == active'.kind
           row  == IF kind = "deploy" THEN active'.arg ELSE NoId
           src  == IF kind = "rollback" THEN active'.arg ELSE NoId
           new  == [Idle EXCEPT !.at = kind, !.row = row, !.source = src]
<1>2. /\ active' \in AnyJobs
      /\ active'.kind \in {"deploy", "rollback"} => active'.arg \in Ids
    BY <1>1, JobsAreJobs DEF Jobs
<1>3. kind \in JobKinds /\ row \in Ids \cup {NoId} /\ src \in Ids \cup {NoId}
    BY <1>2 DEF AnyJobs
<1>4. act' = [act EXCEPT !["worker"] = new]
    BY <1>1 DEF TakeJob
<1>5. new \in Actor /\ new.at = kind /\ new.row = row /\ new.source = src
    BY <1>3 DEF Idle, Actor
<1> HIDE DEF new
<1>6. act' \in [Actors -> Actor] /\ act'["worker"] = new /\ act'["branch"] = act["branch"] /\ Others("worker")
    BY <1>4, <1>5 DEF ActTyped, Actors, Others
<1>7. WorkerTyped'
    BY <1>1 DEF WorkerTyped, TakeJob, worker
<1>8. ActTyped'
    BY <1>2, <1>3, <1>5, <1>6, <1>7 DEF ActTyped, PlaceOf, JobKinds, Actors, Busy, Shipping, Recording
<1> QED BY <1>1, <1>5, <1>6, <1>7, <1>8

LEMMA CrashTyped ==
    ASSUME WorkerTyped, ActTyped, Crash
    PROVE  WorkerTyped' /\ ActTyped' /\ active' = NoJob /\ process' = "down" /\ act' = [a \in Actors |-> Idle]
<1>1. /\ JobsIn(Jobs)' /\ active' = NoJob /\ NoJob.kind = "none" /\ process' = "down"
      /\ crashes' \in 0..MaxCrashes
    BY DieKeeps, QueueAssumption DEF Crash, Die, WorkerTyped, NoJob
<1>2. act' = [a \in Actors |-> Idle] /\ act' \in [Actors -> Actor]
    BY IdleIsActor DEF Crash
<1>3. act'["worker"] = Idle /\ act'["branch"] = Idle
    BY <1>2 DEF Actors
<1>4. WorkerTyped'
    BY <1>1, <1>3 DEF WorkerTyped
<1>5. ActTyped'
    BY <1>1, <1>2, <1>3, <1>4, IdleIsActor DEF ActTyped, PlaceOf, BranchPlaces, Actors, Busy, Shipping, Recording
<1> QED BY <1>1, <1>2, <1>4, <1>5

-----------------------------------------------------------------------------
(* The rows, the stack and the services keep their types *)

LEMMA RowFields ==
    ASSUME NEW row \in Row
    PROVE  /\ \A status \in {"queued", "building", "deploying", "succeeded",
                             "rolled_back", "failed", "reverted_by_watch"} :
                /\ [row EXCEPT !.status = status] \in Row
                /\ \A watch \in BOOLEAN : [row EXCEPT !.status = status, !.watch = watch] \in Row
                /\ \A built \in BOOLEAN : [row EXCEPT !.built = built, !.status = status] \in Row
           /\ \A watch \in BOOLEAN : [row EXCEPT !.watch = watch] \in Row
           /\ \A keys \in {{}} \cup Files : [row EXCEPT !.keys = keys] \in Row
    BY DEF Row

LEMMA NoRowIsRow ==
    /\ NoRow \in Row /\ NoRow.status = "absent" /\ NoRow.keys = {}
    /\ \A d \in Ids : [NoRow EXCEPT !.status = "queued", !.source = d] \in Row
    BY DEF NoRow, Row

\* One row is written, where it is still there.
LEMMA RowEffect ==
    ASSUME rows \in [Ids -> Row], NEW d \in Ids, NEW row \in Row, UpdateRow(d, row)
    PROVE  /\ rows' \in [Ids -> Row]
           /\ rows[d].status = "absent" => rows'[d] = rows[d]
           /\ rows[d].status # "absent" => rows'[d] = row
           /\ \A e \in Ids \ {d} : rows'[e] = rows[e]
    BY DEF UpdateRow

LEMMA PatchTypes ==
    ASSUME NEW row \in StackRow
    PROVE  /\ MarkDeploying(row) \in StackRow
           /\ MarkRunning(row) \in StackRow
           /\ MarkCrashed(row) \in StackRow
           /\ MarkDeleting(row) \in StackRow
           /\ [row EXCEPT !.error = TRUE] \in StackRow
           /\ \A d \in Ids \cup {NoId} : [row EXCEPT !.current = d] \in StackRow
    BY DEF StackRow, RESOURCE_STATUSES, MarkDeploying, MarkRunning, MarkCrashed, MarkDeleting

\* What the steps write: the only ones that write rows ...
WritesRows ==
    \/ \E d \in Ids : RequestDeploy(d)
    \/ StartDeploy \/ ReadCompose \/ Build
    \/ \E a \in Actors : (\E d \in Ids : Redeploy(a, d)) \/ RecordRow(a) \/ ClearSupersededWatch(a)
    \/ RecordReverted \/ EraseRow \/ RecoverRows

\* ... the stack, ...
WritesStack ==
    \/ \E d \in Ids : RequestDeploy(d)
    \/ RequestDelete \/ RecordStranded \/ EraseRow \/ RecordStuck \/ RecoverStack
    \/ \E a \in Actors : RecordStack(a)

\* ... the services, ...
WritesSwarm ==
    \/ RemoveStack
    \/ \E a \in Actors, s \in Services : Roll(a, s)
    \/ \E s \in Services : UpdateCompletes(s) \/ UpdateRollsBack(s)

\* ... what went wrong, ...
WritesDoubt ==
    \/ Build \/ RemoveStack \/ Crash
    \/ \E a \in Actors : Throw(a) \/ \E d \in Ids : Redeploy(a, d)
    \/ \E s \in Services : UpdateRollsBack(s)

\* ... and the jobs.
WritesJobs ==
    \/ \E d \in Ids : RequestRollback(d)
    \/ RequestEnqueue \/ DeleteEnqueue \/ TakeJob \/ Crash \/ JobReturns

LEMMA WhoWrites ==
    ASSUME [Next]_vars
    PROVE  /\ WritesRows \/ rows' = rows
           /\ WritesStack \/ stack' = stack
           /\ WritesSwarm \/ swarm' = swarm
           /\ WritesDoubt \/ doubt' = doubt
           /\ WritesJobs \/ UNCHANGED jobs \/ Finish
           /\ (\E a \in Actors : Throw(a)) \/ left' = left
           /\ (\E d \in Ids : RequestDeploy(d)) \/ RequestEnqueue \/ request' = request
           /\ RequestDelete \/ DeleteEnqueue \/ deleting' = deleting
<1> DEFINE Writes ==
        /\ WritesRows \/ rows' = rows
        /\ WritesStack \/ stack' = stack
        /\ WritesSwarm \/ swarm' = swarm
        /\ WritesDoubt \/ doubt' = doubt
        /\ WritesJobs \/ UNCHANGED jobs \/ Finish
        /\ (\E a \in Actors : Throw(a)) \/ left' = left
        /\ (\E d \in Ids : RequestDeploy(d)) \/ RequestEnqueue \/ request' = request
        /\ RequestDelete \/ DeleteEnqueue \/ deleting' = deleting
<1>1. CASE Dashboard
    BY <1>1 DEF Dashboard, RequestDeploy, RequestRollback, RequestEnqueue, RequestDelete, DeleteEnqueue,
        WritesRows, WritesStack, WritesSwarm, WritesDoubt, WritesJobs, asked
<1>2. CASE TakeJob \/ StartDeploy \/ ReadCompose \/ Build
    BY <1>2 DEF TakeJob, StartDeploy, ReadCompose, Build, Leave, asked,
        WritesRows, WritesStack, WritesSwarm, WritesDoubt, WritesJobs
<1>3. ASSUME NEW a \in Actors, Ship(a)
      PROVE  Writes
  <2>1. CASE \E s \in Services : Roll(a, s)
    BY <2>1 DEF Roll, WritesSwarm, asked
  <2>2. CASE ReadVerdict(a) \/ Throw(a)
    BY <2>2 DEF ReadVerdict, Throw, Leave, WritesDoubt, asked
  <2>3. CASE RecordRow(a) \/ RecordStack(a) \/ ClearSupersededWatch(a)
    BY <2>3 DEF RecordRow, RecordStack, ClearSupersededWatch, Leave, WritesRows, WritesStack, asked
  <2> QED BY <1>3, <2>1, <2>2, <2>3 DEF Ship
<1>4. ASSUME NEW a \in Actors, NEW d \in Ids, Redeploy(a, d)
      PROVE  Writes
    BY <1>4 DEF Redeploy, Leave, WritesRows, WritesDoubt, asked
<1>5. CASE Sweep
    BY <1>5 DEF Sweep, StartBranch, FindPrevious, RecordReverted, RecordStranded, Leave, WritesRows,
        WritesStack, asked
<1>6. CASE Teardown
    BY <1>6 DEF Teardown, RemoveStack, EraseRow, EraseThrows, RecordStuck, Leave, WritesRows, WritesStack,
        WritesSwarm, WritesDoubt, asked
<1>7. CASE Crash \/ Recovery
    BY <1>7 DEF Crash, Recovery, RecoverRows, RecoverStack, JobReturns, WritesRows, WritesStack,
        WritesDoubt, WritesJobs, asked
<1>8. CASE Swarm
    BY <1>8 DEF Swarm, UpdateCompletes, UpdateRollsBack, WritesSwarm, WritesDoubt, asked
<1>9. CASE UNCHANGED vars
    BY <1>9 DEF vars, asked
<1> QED BY <1>1, <1>2, <1>3, <1>4, <1>5, <1>6, <1>7, <1>8, <1>9 DEF Next

LEMMA RowsTyped ==
    ASSUME Typed, WritesRows
    PROVE  rows' \in [Ids -> Row]
<1>0. rows \in [Ids -> Row] /\ act \in [Actors -> Actor] /\ NoRow \in Row
    BY NoRowIsRow DEF Typed, RestTyped, ActTyped
<1>1. ASSUME NEW d \in Ids, RequestDeploy(d)
      PROVE  rows' \in [Ids -> Row]
    BY <1>0, <1>1, NoRowIsRow DEF RequestDeploy
<1>2. CASE StartDeploy \/ ReadCompose \/ Build
  <2> DEFINE d == act["worker"].row
  <2>1. d \in Ids /\ rows[d] \in Row
    BY <1>0, <1>2 DEF StartDeploy, ReadCompose, Build, Typed, ActTyped, Busy, Actors
  <2> HIDE DEF d
  <2>2. CASE StartDeploy
    BY <1>0, <2>1, <2>2, RowFields DEF StartDeploy, d
  <2>3. CASE ReadCompose
    <3>1. PICK keys \in {{}} \cup Files : UpdateRow(d, [rows[d] EXCEPT !.keys = keys])
        BY <2>1, <2>3 DEF ReadCompose, Row, d
    <3>2. [rows[d] EXCEPT !.keys = keys] \in Row
        BY <2>1, RowFields
    <3> QED BY <1>0, <2>1, <3>1, <3>2, RowEffect
  <2>4. CASE Build
    <3>1. [rows[d] EXCEPT !.built = TRUE, !.status = "deploying"] \in Row
        BY <2>1, RowFields
    <3> QED BY <1>0, <2>1, <2>4, <3>1, RowEffect DEF Build, d
  <2> QED BY <1>2, <2>2, <2>3, <2>4
<1>3. ASSUME NEW a \in Actors, NEW d \in Ids, Redeploy(a, d)
      PROVE  rows' \in [Ids -> Row]
  <2>1. act[a].source \in Ids /\ rows[act[a].source] \in Row
    BY <1>0, <1>3 DEF Redeploy, Typed, ActTyped
  <2>2. [rows[act[a].source] EXCEPT !.status = "deploying", !.watch = FALSE] \in Row
    BY <2>1, RowFields
  <2> QED BY <1>0, <1>3, <2>2 DEF Redeploy
<1>4. ASSUME NEW a \in Actors, RecordRow(a) \/ ClearSupersededWatch(a)
      PROVE  rows' \in [Ids -> Row]
  <2> DEFINE d == act[a].row
  <2>1. d \in Ids /\ rows[d] \in Row
    BY <1>0, <1>4 DEF RecordRow, ClearSupersededWatch, Typed, ActTyped, Busy, Recording
  <2>2. CASE RecordRow(a)
    <3>1. \E row \in Row : UpdateRow(d, row)
        BY <2>1, <2>2, RowFields DEF RecordRow
    <3> QED BY <1>0, <2>1, <3>1, RowEffect
  <2>3. CASE ClearSupersededWatch(a)
    BY <1>0, <2>3, RowFields DEF ClearSupersededWatch
  <2> QED BY <1>4, <2>2, <2>3
<1>5. CASE RecordReverted
  <2> DEFINE d == act["branch"].row
  <2>1. d \in Ids /\ rows[d] \in Row
    BY <1>0, <1>5 DEF RecordReverted, Typed, ActTyped, Busy, Actors
  <2>2. \E row \in Row : UpdateRow(d, row)
    BY <1>5, <2>1, RowFields DEF RecordReverted
  <2> QED BY <1>0, <2>1, <2>2, RowEffect
<1>6. CASE EraseRow
    BY <1>0, <1>6 DEF EraseRow
<1>7. CASE RecoverRows
  <2>1. \A d \in Ids : rows[d] \in Row /\ [rows[d] EXCEPT !.status = "failed"] \in Row
    BY <1>0, RowFields
  <2> QED BY <1>7, <2>1 DEF RecoverRows
<1> QED BY <1>1, <1>2, <1>3, <1>4, <1>5, <1>6, <1>7 DEF WritesRows

LEMMA StackTyped ==
    ASSUME Typed, WritesStack
    PROVE  stack' \in StackRow
<1>0. stack \in StackRow /\ act \in [Actors -> Actor]
    BY DEF Typed, RestTyped, ActTyped
<1>1. ASSUME NEW d \in Ids, RequestDeploy(d)
      PROVE  stack' \in StackRow
    BY <1>0, <1>1, PatchTypes DEF RequestDeploy, UpdateStack
<1>2. CASE RequestDelete \/ RecordStranded \/ RecordStuck \/ RecoverStack
    BY <1>0, <1>2, PatchTypes DEF RequestDelete, RecordStranded, RecordStuck, RecoverStack, UpdateStack
<1>3. CASE EraseRow
    BY <1>3 DEF EraseRow, StackRow
<1>4. ASSUME NEW a \in Actors, RecordStack(a)
      PROVE  stack' \in StackRow
  <2>1. act[a].row \in Ids \cup {NoId} /\ MarkRunning(stack) \in StackRow /\ MarkCrashed(stack) \in StackRow
    BY <1>0, PatchTypes DEF Actor
  <2>2. [MarkRunning(stack) EXCEPT !.current = act[a].row] \in StackRow
    BY <2>1, PatchTypes
  <2> QED BY <1>0, <1>4, <2>1, <2>2 DEF RecordStack, UpdateStack
<1> QED BY <1>1, <1>2, <1>3, <1>4 DEF WritesStack

LEMMA SwarmTyped ==
    ASSUME Typed, WritesSwarm
    PROVE  swarm' \in [Services -> Service]
<1>0. swarm \in [Services -> Service] /\ act \in [Actors -> Actor] /\ NoService \in Service
    BY DEF Typed, RestTyped, ActTyped, NoService, Service
<1>1. CASE RemoveStack
    BY <1>0, <1>1 DEF RemoveStack, Removes
<1>2. ASSUME NEW a \in Actors, NEW s \in Services, Roll(a, s)
      PROVE  swarm' \in [Services -> Service]
  <2>1. act[a].image \in Ids \cup {NoId} /\ swarm[s].image \in Ids \cup {NoId}
    BY <1>0 DEF Actor, Service
  <2>2. /\ [NoService EXCEPT !.image = act[a].image] \in Service
        /\ [image |-> act[a].image, previous |-> swarm[s].image, update |-> "updating"] \in Service
    BY <2>1 DEF NoService, Service
  <2> QED BY <1>0, <1>2, <2>2 DEF Roll
<1>3. ASSUME NEW s \in Services, UpdateCompletes(s) \/ UpdateRollsBack(s)
      PROVE  swarm' \in [Services -> Service]
  <2>1. swarm[s].previous \in Ids \cup {NoId}
    BY <1>0 DEF Service
  <2>2. [image |-> swarm[s].previous, previous |-> NoId, update |-> "rolled_back"] \in Service
    BY <2>1 DEF Service
  <2>3. [swarm[s] EXCEPT !.previous = NoId, !.update = "none"] \in Service
    BY <1>0 DEF Service
  <2> QED BY <1>0, <1>3, <2>2, <2>3 DEF UpdateCompletes, UpdateRollsBack
<1> QED BY <1>1, <1>2, <1>3 DEF WritesSwarm

LEMMA RestTypedStep ==
    ASSUME Typed, [Next]_vars
    PROVE  RestTyped'
<1>1. rows' \in [Ids -> Row] /\ stack' \in StackRow /\ swarm' \in [Services -> Service]
    BY RowsTyped, StackTyped, SwarmTyped, WhoWrites DEF Typed, RestTyped
<1>2. request' \in Ids \cup {NoId} /\ deleting' \in BOOLEAN
    BY WhoWrites DEF Typed, RestTyped, RequestDeploy, RequestEnqueue, RequestDelete, DeleteEnqueue
<1>3. doubt' \subseteq {"overlap", "late", "cut", "removed"}
  <2>1. CASE RemoveStack
    <3>1. PICK some \in SUBSET Services : Removes(some) \/ doubt' = doubt
        BY <2>1 DEF RemoveStack
    <3> QED BY <3>1 DEF Removes, Typed, RestTyped
  <2>2. CASE ~RemoveStack
    BY <2>2, WhoWrites DEF Typed, RestTyped, WritesDoubt, Build, Crash, Throw, Redeploy,
        UpdateRollsBack, BeginRollout
  <2> QED BY <2>1, <2>2
<1>4. left' \subseteq Ids
  <2>1. ASSUME NEW a \in Actors, Throw(a)
        PROVE  left' \subseteq Ids
    <3>1. act[a].row \in Ids
        BY <2>1 DEF Throw, Typed, ActTyped, Busy
    <3> QED BY <2>1, <3>1 DEF Throw, Typed, RestTyped
  <2> QED BY <2>1, WhoWrites DEF Typed, RestTyped
<1> QED BY <1>1, <1>2, <1>3, <1>4 DEF RestTyped

LEMMA TypedStep == Typed /\ [Next]_vars => Typed'
<1> SUFFICES ASSUME Typed, [Next]_vars PROVE WorkerTyped' /\ ActTyped'
    BY RestTypedStep DEF Typed
<1>0. WorkerTyped /\ ActTyped /\ RestTyped
    BY DEF Typed
<1>1. CASE Dashboard
  <2>0. JobsIn(Jobs)
    BY <1>0 DEF WorkerTyped
  <2>1. ASSUME NEW d \in Ids, RequestRollback(d)
        PROVE  WorkerTyped' /\ ActTyped'
    <3>1. JobsIn(Jobs)' /\ UNCHANGED <<act, worker, active>>
        BY <2>0, <2>1, KindsAreJobs, EnqueueKeeps DEF RequestRollback, Enqueue
    <3> QED BY <1>0, <3>1, RequestTyped
  <2>2. CASE RequestEnqueue
    <3>0. request \in Ids
        BY <1>0, <2>2 DEF RequestEnqueue, RestTyped
    <3>1. JobsIn(Jobs)' /\ UNCHANGED <<act, worker, active>>
        BY <2>0, <2>2, <3>0, KindsAreJobs, EnqueueKeeps DEF RequestEnqueue, Enqueue
    <3> QED BY <1>0, <3>1, RequestTyped
  <2>3. CASE DeleteEnqueue
    <3>1. JobsIn(Jobs)' /\ UNCHANGED <<act, worker, active>>
        BY <2>0, <2>3, KindsAreJobs, EnqueueKeeps DEF DeleteEnqueue, Enqueue
    <3> QED BY <1>0, <3>1, RequestTyped
  <2>4. CASE RequestDelete \/ \E d \in Ids : RequestDeploy(d)
    BY <1>0, <2>4, NothingTyped DEF RequestDelete, RequestDeploy
  <2> QED BY <1>1, <2>1, <2>2, <2>3, <2>4 DEF Dashboard
<1>2. CASE TakeJob
    BY <1>0, <1>2, TakeTyped
<1>3. CASE StartDeploy \/ ReadCompose \/ Build \/ Teardown
    BY <1>0, <1>3, WorkerStepTyped
<1>4. ASSUME NEW a \in Actors, Ship(a) \/ \E d \in Ids : Redeploy(a, d)
      PROVE  WorkerTyped' /\ ActTyped'
    BY <1>0, <1>4, ShipTyped, RedeployTyped
<1>5. CASE Sweep
    BY <1>0, <1>5, SweepTyped
<1>6. CASE Crash
    BY <1>0, <1>6, CrashTyped
<1>7. CASE Recovery
  <2>1. CASE RecoverRows \/ RecoverStack
    <3>1. UNCHANGED <<act, jobs, crashes>> /\ process' \in {"down", "recovering", "up"} /\ process # "up"
        BY <2>1 DEF RecoverRows, RecoverStack
    <3>2. JobsIn(Jobs)' /\ active' = active /\ active = NoJob /\ act["branch"] = Idle
        BY <1>0, <3>1 DEF WorkerTyped, JobsIn, jobs
    <3>3. WorkerTyped'
        BY <1>0, <3>1, <3>2 DEF WorkerTyped
    <3> QED BY <1>0, <3>1, <3>2, <3>3 DEF ActTyped
  <2>2. CASE JobReturns
    <3>1. JobsIn(Jobs)' /\ active' = active
        BY <1>0, <2>2, ComesBackKeeps, JobsAreJobs DEF JobReturns, ComesBack, WorkerTyped
    <3> QED BY <1>0, <2>2, <3>1, RequestTyped DEF JobReturns
  <2> QED BY <1>7, <2>1, <2>2 DEF Recovery
<1>8. CASE Swarm \/ UNCHANGED vars
    BY <1>0, <1>8, NothingTyped DEF Swarm, UpdateCompletes, UpdateRollsBack, vars
<1> QED BY <1>1, <1>2, <1>3, <1>4, <1>5, <1>6, <1>7, <1>8 DEF Next

LEMMA TypedIsTypeOK == Typed => TypeOK
<1> SUFFICES ASSUME Typed PROVE TypeOK
    OBVIOUS
<1>1. queue \in Seq(AnyJobs) /\ active \in AnyJobs \cup {NoJob} /\ stalled \subseteq AnyJobs
    BY JobsAreJobs DEF Typed, WorkerTyped, JobsIn
<1>2. JobsOK(JobKinds, Ids \cup {NoId})
    BY <1>1 DEF JobsOK, AnyJobs, Typed, WorkerTyped
<1>3. act["worker"].at = "idle" <=> active = NoJob
    BY JobInHand, JobsAreJobs DEF Typed
<1> QED BY <1>2, <1>3 DEF TypeOK, Typed, ActTyped, RestTyped, StackRow

LEMMA InitTyped == Init => Typed
<1> SUFFICES ASSUME Init PROVE Typed
    OBVIOUS
<1>1. act = [a \in Actors |-> Idle] /\ act["worker"] = Idle /\ act["branch"] = Idle
    BY DEF Init, Actors
<1>2. WorkerTyped
    BY <1>1, QueueAssumption DEF Init, QueueInit, JobsIn, WorkerTyped
<1>3. active.kind = "none"
    BY DEF Init, QueueInit, NoJob
<1>4. ActTyped
    BY <1>1, <1>3, IdleIsActor DEF ActTyped, PlaceOf, BranchPlaces, Busy, Shipping, Recording, Actors
<1>5. PICK keys \in Files, served \in BOOLEAN :
         /\ stack = [status |-> IF served THEN "running" ELSE "crashed",
                     error |-> ~served, current |-> IF served THEN 1 ELSE NoId]
         /\ rows = [d \in Ids |-> IF d > 1 THEN NoRow
              ELSE [status |-> IF served THEN "succeeded" ELSE "failed", keys |-> keys,
                    built |-> served, source |-> 1, watch |-> FALSE]]
         /\ swarm = [s \in Services |-> IF served /\ s \in keys
              THEN [NoService EXCEPT !.image = 1] ELSE NoService]
    BY DEF Init
<1>6. 1 \in Ids
    BY StacksAssumption DEF Ids
<1>7. stack \in StackRow
    BY <1>5, <1>6 DEF StackRow, RESOURCE_STATUSES
<1>8. [status |-> IF served THEN "succeeded" ELSE "failed", keys |-> keys,
       built |-> served, source |-> 1, watch |-> FALSE] \in Row
    BY <1>6 DEF Row
<1>9. rows \in [Ids -> Row]
    BY <1>5, <1>8, NoRowIsRow
<1>10. [NoService EXCEPT !.image = 1] \in Service /\ NoService \in Service
    BY <1>6 DEF NoService, Service
<1>11. swarm \in [Services -> Service]
    BY <1>5, <1>10
<1> QED BY <1>2, <1>4, <1>7, <1>9, <1>11 DEF Typed, RestTyped, Init

\* Every reachable state of a stack, its deployments, its services and the
\* actors is of the declared types, and the worker is idle when it has no job.
THEOREM TypeCorrect == Spec => []TypeOK
<1>1. Spec => []Typed
    BY InitTyped, TypedStep, PTL DEF Spec
<1> QED BY <1>1, TypedIsTypeOK, PTL

-----------------------------------------------------------------------------
(* The owner of a deployment in flight *)

LEMMA OwnedStep == Typed /\ Owned /\ [Next]_vars => Owned'
<1> SUFFICES ASSUME Typed, Owned, [Next]_vars, process' # "down",
                    NEW d \in Ids, rows'[d].status \in {"building", "deploying"}
             PROVE  d \in left' \/ \E a \in Actors : act'[a].row = d /\ act'[a].at \in Unsettled
    BY DEF Owned
<1>0. rows \in [Ids -> Row] /\ act \in [Actors -> Actor] /\ {"worker", "branch"} = Actors
    BY DEF Typed, RestTyped, ActTyped, Actors
<1> DEFINE Mine(a) == act[a].row = d /\ act[a].at \in Unsettled
           Goal    == d \in left' \/ \E a \in Actors : act'[a].row = d /\ act'[a].at \in Unsettled
\* A step that neither starts a row nor settles one.
<1>1. ASSUME process # "down", rows[d].status \in {"building", "deploying"}, left \subseteq left',
             \A a \in Actors : Mine(a) => act'[a].row = d /\ act'[a].at \in Unsettled
      PROVE  Goal
    BY <1>1 DEF Owned
<1>2. ASSUME NEW a \in Actors, Others(a), Mine(a) => act'[a].row = d /\ act'[a].at \in Unsettled
      PROVE  \A b \in Actors : Mine(b) => act'[b].row = d /\ act'[b].at \in Unsettled
    BY <1>2 DEF Others
\* An actor that holds no row unsettled does something else.
<1>3. ASSUME NEW a \in Actors, Others(a), act[a].at \notin Unsettled, process # "down",
             rows[d].status \in {"building", "deploying"}, left \subseteq left'
      PROVE  Goal
    BY <1>1, <1>2, <1>3
<1>4. CASE Dashboard
  <2>1. process # "down" /\ left' = left /\ act' = act /\ rows[d].status \in {"building", "deploying"}
    BY <1>0, <1>4, NoRowIsRow DEF Dashboard, RequestDeploy, RequestRollback, RequestEnqueue, RequestDelete,
        DeleteEnqueue, worker, NoRow
  <2> QED BY <1>1, <2>1
<1>5. CASE TakeJob
  <2>1. Others("worker") /\ act["worker"].at = "idle" /\ left' = left /\ rows' = rows /\ process # "down"
    BY <1>5, TakeTyped, JobInHand, JobsAreJobs DEF TakeJob, Take, Typed
  <2> QED BY <1>0, <1>3, <2>1 DEF Unsettled, Shipping
<1>6. CASE StartDeploy
  <2> DEFINE e == act["worker"].row
  <2>1. act["worker"].at = "deploy" /\ left' = left /\ process # "down" /\ e \in Ids
    BY <1>0, <1>6, JobInHand DEF StartDeploy, Typed, ActTyped, Busy
  <2>2. Others("worker")
    BY <1>0, <1>6, LeaveEffect, GoEffect DEF StartDeploy, Moved, Places
  <2>3. CASE d # e \/ rows[e].status = "absent"
    <3>1. rows[d].status \in {"building", "deploying"}
        BY <1>0, <1>6, <2>1, <2>3 DEF StartDeploy
    <3> QED BY <1>0, <1>3, <2>1, <2>2, <3>1 DEF Unsettled, Shipping
  <2>4. CASE d = e /\ rows[e].status # "absent"
    <3>1. Moved("worker", "compose")
        BY <1>0, <1>6, <2>4, GoEffect DEF StartDeploy, Places
    <3> QED BY <1>0, <2>4, <3>1 DEF Moved, Unsettled
  <2> QED BY <2>3, <2>4
<1>7. CASE ReadCompose \/ Build
  <2> DEFINE e == act["worker"].row
  <2>1. act["worker"].at \in {"compose", "build"} /\ left' = left /\ process # "down" /\ e \in Ids
    BY <1>0, <1>7, JobInHand DEF ReadCompose, Build, Typed, ActTyped, Busy
  <2>2. rows[e].keys \in {{}} \cup Files
    BY <1>0, <2>1 DEF Row
  <2>3. Others("worker") /\ act'["worker"].row = e /\ act'["worker"].at \in {"build", "rolling"}
    BY <1>0, <1>7, <2>1, <2>2, GoEffect, BeginEffect DEF ReadCompose, Build, Moved, Places
  <2>4. CASE d = e
    BY <1>0, <2>3, <2>4 DEF Unsettled, Shipping
  <2>5. CASE d # e
    <3>1. rows'[d] = rows[d]
        BY <1>0, <1>7, <2>1, <2>5 DEF ReadCompose, Build, UpdateRow
    <3> QED BY <1>0, <1>1, <1>2, <2>1, <2>3, <3>1 DEF Unsettled, Shipping
  <2> QED BY <2>4, <2>5
<1>8. ASSUME NEW a \in Actors, NEW e \in Ids, Redeploy(a, e)
      PROVE  Goal
  <2>0. act[a].at \in {"rollback", "reverted"} /\ left' = left /\ process # "down" /\ act[a].source \in Ids
    BY <1>0, <1>8, JobInHand, BranchIsUp DEF Redeploy, Typed, ActTyped
  <2>1. CASE Leave(a) /\ rows' = rows
    BY <1>0, <1>3, <2>0, <2>1, LeaveEffect DEF Unsettled, Shipping
  <2>2. CASE ~(Leave(a) /\ rows' = rows)
    <3> DEFINE src   == rows[act[a].source]
               image == IF src.built THEN src.source ELSE NoId
    <3>1. src \in Row
        BY <1>0, <2>0
    <3>2. src.keys \in {{}} \cup Files /\ image \in Ids \cup {NoId}
        BY <3>1 DEF Row
    <3>3. BeginRollout(a, e, image, src.keys) /\ \A f \in Ids \ {e} : rows'[f] = rows[f]
        BY <1>0, <1>8, <2>2 DEF Redeploy
    <3> HIDE DEF image, src
    <3>4. act'[a].at = "rolling" /\ act'[a].row = e /\ Others(a)
        BY <1>0, <3>2, <3>3, BeginEffect
    <3>5. CASE d = e
        BY <3>4, <3>5 DEF Unsettled, Shipping
    <3>6. CASE d # e
        BY <1>3, <2>0, <3>3, <3>4, <3>6 DEF Unsettled, Shipping
    <3> QED BY <3>5, <3>6
  <2> QED BY <2>1, <2>2
<1>9. ASSUME NEW a \in Actors, Ship(a)
      PROVE  Goal
  <2>0. process # "down" /\ left \subseteq left'
    <3>1. act[a].at # "idle" /\ process' = process
        BY <1>9 DEF Ship, Roll, ReadVerdict, Throw, RecordRow, RecordStack, ClearSupersededWatch, worker, Shipping
    <3> QED BY <1>9, <3>1, WhoWrites DEF Throw
  <2>1. ASSUME NEW s \in Services, Roll(a, s)
        PROVE  Goal
    <3>1. rows' = rows /\ act'[a].row = act[a].row /\ act'[a].at \in Unsettled /\ Others(a)
        BY <1>0, <2>1, RollEffect DEF Roll, Unsettled, Shipping
    <3> QED BY <1>1, <1>2, <2>0, <3>1
  <2>2. CASE ReadVerdict(a)
    <3>1. rows' = rows /\ act'[a].row = act[a].row /\ act'[a].at \in Unsettled /\ Others(a)
        BY <1>0, <2>2, VerdictEffect DEF ReadVerdict, Unsettled, Shipping
    <3> QED BY <1>1, <1>2, <2>0, <3>1
  <2>3. CASE Throw(a)
    <3>1. CASE act[a].source = NoId
      <4>1. Moved(a, "failed") /\ rows' = rows
        BY <1>0, <2>3, <3>1, GoEffect DEF Throw, Places, Recording
      <4> QED BY <1>1, <1>2, <2>0, <4>1 DEF Moved, Unsettled
    <3>2. CASE act[a].source # NoId
      <4>1. Others(a) /\ rows' = rows /\ left' = left \cup {act[a].row}
        BY <1>0, <2>3, <3>2, LeaveEffect DEF Throw
      <4>2. CASE act[a].row = d
        BY <4>1, <4>2
      <4>3. CASE act[a].row # d
        BY <1>1, <1>2, <2>0, <4>1, <4>3
      <4> QED BY <4>2, <4>3
    <3> QED BY <3>1, <3>2
  <2>4. CASE RecordRow(a)
    <3> DEFINE e == act[a].row
    <3>1. e \in Ids /\ Others(a) /\ rows[e] \in Row
        BY <1>0, <2>4, GoEffect DEF RecordRow, Typed, ActTyped, Busy, Recording, Moved, Places
    <3>2. rows'[e].status \notin {"building", "deploying"} /\ (d # e => rows'[d] = rows[d])
      <4>1. PICK row : UpdateRow(e, row) /\ row.status \in {"succeeded", "rolled_back", "failed"}
                       /\ row \in Row
        <5>1. \A status \in {"rolled_back", "failed"}, watch \in BOOLEAN :
                /\ [rows[e] EXCEPT !.status = status].status = status
                /\ [rows[e] EXCEPT !.status = "succeeded", !.watch = watch].status = "succeeded"
            BY <3>1 DEF Row
        <5> QED BY <2>4, <3>1, <5>1, RowFields DEF RecordRow
      <4> QED BY <1>0, <3>1, <4>1, RowEffect
    <3> QED BY <1>1, <1>2, <2>0, <3>1, <3>2
  <2>5. CASE RecordStack(a)
    <3>1. Others(a) /\ rows' = rows /\ act[a].at \notin Unsettled
        BY <1>0, <2>5, GoEffect, LeaveEffect DEF RecordStack, Moved, Places, Recording, Unsettled, Shipping
    <3> QED BY <1>3, <2>0, <3>1
  <2>6. CASE ClearSupersededWatch(a)
    <3>1. Others(a) /\ act[a].at \notin Unsettled
        BY <1>0, <2>6, LeaveEffect DEF ClearSupersededWatch, Unsettled, Shipping
    <3>2. rows'[d].status = rows[d].status
        BY <1>0, <2>6 DEF ClearSupersededWatch, Row
    <3> QED BY <1>3, <2>0, <3>1, <3>2
  <2> QED BY <1>9, <2>1, <2>2, <2>3, <2>4, <2>5, <2>6 DEF Ship
<1>10. CASE Sweep
  <2>1. Others("branch") /\ act["branch"].at \notin Unsettled /\ left' = left
    <3>1. CASE \E e \in Ids : StartBranch(e)
        BY <1>0, <3>1 DEF StartBranch, Others, Unsettled, Shipping, Idle
    <3>2. CASE FindPrevious
        BY <1>0, <3>2 DEF FindPrevious, Others, Unsettled, Shipping
    <3>3. CASE RecordReverted \/ RecordStranded
        BY <1>0, <3>3, GoEffect, LeaveEffect DEF RecordReverted, RecordStranded, Moved, Places, Unsettled, Shipping
    <3> QED BY <1>10, <3>1, <3>2, <3>3 DEF Sweep
  <2>2. process # "down"
    BY <1>10, BranchIsUp DEF Sweep, StartBranch, FindPrevious, RecordReverted, RecordStranded, Typed
  <2>3. rows[d].status \in {"building", "deploying"}
    <3>1. CASE RecordReverted
      <4>1. act["branch"].row \in Ids /\ rows[act["branch"].row] \in Row
        BY <1>0, <3>1 DEF RecordReverted, Typed, ActTyped, Busy
      <4> QED BY <1>0, <3>1, <4>1 DEF RecordReverted, UpdateRow, Row
    <3>2. CASE ~RecordReverted
        BY <1>10, <3>2 DEF Sweep, StartBranch, FindPrevious, RecordStranded
    <3> QED BY <3>1, <3>2
  <2> QED BY <1>0, <1>3, <2>1, <2>2, <2>3
<1>11. CASE Teardown
  <2>1. Others("worker") /\ act["worker"].at \notin Unsettled /\ left' = left /\ process # "down"
    <3>1. act["worker"].at \in {"delete", "erasing", "stuck"} /\ left' = left
        BY <1>11 DEF Teardown, RemoveStack, EraseRow, EraseThrows, RecordStuck
    <3>2. Others("worker")
        BY <1>0, <1>11, GoEffect, LeaveEffect DEF Teardown, RemoveStack, EraseRow, EraseThrows, RecordStuck, Moved, Places
    <3> QED BY <3>1, <3>2, JobInHand DEF Unsettled, Shipping, Typed
  <2>2. rows[d].status \in {"building", "deploying"}
    BY <1>0, <1>11, NoRowIsRow DEF Teardown, RemoveStack, EraseRow, EraseThrows, RecordStuck
  <2> QED BY <1>0, <1>3, <2>1, <2>2
<1>12. CASE Crash
    BY <1>12 DEF Crash, Die
<1>13. CASE RecoverRows
    BY <1>0, <1>13 DEF RecoverRows, Row
<1>14. CASE RecoverStack \/ JobReturns
  <2>1. process # "down" /\ left' = left /\ act' = act /\ rows' = rows
    BY <1>14 DEF RecoverStack, JobReturns, worker
  <2> QED BY <1>1, <2>1
<1>15. CASE Swarm \/ UNCHANGED vars
  <2>1. process # "down" /\ left' = left /\ act' = act /\ rows' = rows
    BY <1>15 DEF Swarm, UpdateCompletes, UpdateRollsBack, vars, worker
  <2> QED BY <1>1, <2>1
<1> QED BY <1>4, <1>5, <1>6, <1>7, <1>8, <1>9, <1>10, <1>11, <1>12, <1>13, <1>14, <1>15 DEF Next, Recovery

-----------------------------------------------------------------------------
(* Who moves, and what becomes of rows and jobs *)

ShipsFrom == {"compose", "build"} \cup Shipping \cup Recording

LEMMA ShipMoves ==
    ASSUME Typed, NEW a \in Actors, Ship(a)
    PROVE  /\ act[a].at \in ShipsFrom
           /\ Others(a)
           /\ act'[a] = Idle \/ (act'[a].row = act[a].row /\ act'[a].source = act[a].source)
           /\ act'[a].at \in {"idle"} \cup Shipping \cup Recording
<1>0. act \in [Actors -> Actor]
    BY DEF Typed, ActTyped
<1>1. CASE \E s \in Services : Roll(a, s)
    BY <1>0, <1>1, RollEffect DEF ShipsFrom, Shipping
<1>2. CASE ReadVerdict(a)
    BY <1>0, <1>2, VerdictEffect DEF ShipsFrom, Shipping, Recording
<1>3. CASE Throw(a)
    BY <1>0, <1>3, GoEffect, LeaveEffect, IdleIsActor DEF Throw, Moved, Places, ShipsFrom, Recording
<1>4. CASE RecordRow(a) \/ RecordStack(a) \/ ClearSupersededWatch(a)
    BY <1>0, <1>4, GoEffect, LeaveEffect, IdleIsActor DEF RecordRow, RecordStack, ClearSupersededWatch,
        Moved, Places, ShipsFrom, Recording
<1> QED BY <1>1, <1>2, <1>3, <1>4 DEF Ship

LEMMA RedeployMoves ==
    ASSUME Typed, NEW a \in Actors, NEW d \in Ids, Redeploy(a, d)
    PROVE  /\ act[a].at \in {"rollback", "reverted"} /\ act[a].source \in Ids /\ Others(a)
           /\ \/ /\ Gone \/ rows[act[a].source].keys = {}
                 /\ act'[a] = Idle /\ rows' = rows /\ doubt' = doubt
                 /\ IF a = "worker" THEN Finish ELSE UNCHANGED jobs
              \/ /\ ~Gone /\ rows[act[a].source].keys # {} /\ Inserts(d)
                 /\ rows'[d].status = "deploying"
                 /\ rows'[d].keys = rows[act[a].source].keys
                 /\ rows'[d].source = rows[act[a].source].source
                 /\ \A e \in Ids \ {d} : rows'[e] = rows[e]
                 /\ act'[a].at = "rolling" /\ act'[a].row = d /\ act'[a].source = act[a].source
                 /\ act'[a].keys = rows'[d].keys /\ act'[a].todo = act'[a].keys
                 /\ act'[a].image \in {NoId, rows'[d].source}
                 /\ doubt' \in {{}, {"overlap"}}
                 /\ doubt' = {} => \A b \in Actors \ {a} : act[b].at \notin Shipping \cup Recording \cup {"erasing"}
                 /\ UNCHANGED jobs
<1>0. act \in [Actors -> Actor] /\ rows \in [Ids -> Row]
    BY DEF Typed, ActTyped, RestTyped
<1>1. act[a].at \in {"rollback", "reverted"} /\ act[a].source \in Ids
    BY DEF Redeploy, Typed, ActTyped
<1>2. CASE Gone \/ rows[act[a].source].keys = {}
    BY <1>0, <1>1, <1>2, LeaveEffect DEF Redeploy
<1>3. CASE ~(Gone \/ rows[act[a].source].keys = {})
  <2> DEFINE src   == rows[act[a].source]
             image == IF src.built THEN src.source ELSE NoId
             new   == [src EXCEPT !.status = "deploying", !.watch = FALSE]
  <2>1. src \in Row
    BY <1>0, <1>1
  <2>2. src.keys \in {{}} \cup Files /\ image \in Ids \cup {NoId} /\ image \in {NoId, src.source}
    BY <2>1 DEF Row
  <2>3. new.status = "deploying" /\ new.keys = src.keys /\ new.source = src.source
    BY <2>1 DEF Row
  <2>4. BeginRollout(a, d, image, src.keys) /\ rows' = [rows EXCEPT ![d] = new] /\ Inserts(d) /\ UNCHANGED jobs
    BY <1>3 DEF Redeploy
  <2> HIDE DEF image, new, src
  <2>5. rows'[d] = new /\ \A e \in Ids \ {d} : rows'[e] = rows[e]
    BY <1>0, <2>4
  <2>6. act'[a].at = "rolling" /\ act'[a].row = d /\ act'[a].source = act[a].source
        /\ act'[a].keys = src.keys /\ act'[a].todo = src.keys /\ act'[a].image = image
        /\ Others(a) /\ doubt' \in {{}, {"overlap"}}
        /\ (doubt' = {} => \A b \in Actors \ {a} : act[b].at \notin Shipping \cup Recording \cup {"erasing"})
    <3>1. src.keys \in {{}} \cup Files /\ image \in Ids \cup {NoId}
        BY <2>2
    <3>2. BeginRollout(a, d, image, src.keys)
        BY <2>4
    <3> QED BY <1>0, <3>1, <3>2, BeginEffect
  <2>7. src = rows[act[a].source]
    BY DEF src
  <2>8. /\ rows'[d].status = "deploying" /\ rows'[d].keys = rows[act[a].source].keys
        /\ rows'[d].source = rows[act[a].source].source
        /\ act'[a].keys = rows'[d].keys /\ act'[a].todo = act'[a].keys
        /\ act'[a].image \in {NoId, rows'[d].source}
    BY <2>2, <2>3, <2>5, <2>6, <2>7
  <2> QED BY <1>1, <1>3, <2>4, <2>5, <2>6, <2>8
<1> QED BY <1>1, <1>2, <1>3

LEMMA SweepMoves ==
    ASSUME Typed, Sweep
    PROVE  /\ Others("branch")
           /\ act["branch"].at \in {"idle", "looping", "reverting", "stranded"}
           /\ act'["branch"].at \in {"idle", "looping", "reverting", "reverted", "stranded"}
           /\ \/ act'["branch"] = Idle
              \/ act["branch"].at # "idle" /\ act'["branch"].row = act["branch"].row
              \/ \E d \in Ids : StartBranch(d) /\ act'["branch"].row = d
           /\ UNCHANGED jobs
<1>0. act \in [Actors -> Actor] /\ "branch" \in Actors
    BY DEF Typed, ActTyped, Actors
<1>1. ASSUME NEW d \in Ids, StartBranch(d)
      PROVE  /\ Others("branch") /\ act["branch"].at = "idle" /\ act'["branch"].at = "looping"
             /\ act'["branch"].row = d /\ UNCHANGED jobs
  <2> DEFINE new == [Idle EXCEPT !.at = "looping", !.row = d]
  <2>1. new.at = "looping" /\ new.row = d /\ act' = [act EXCEPT !["branch"] = new]
    BY <1>1 DEF Idle, StartBranch
  <2> HIDE DEF new
  <2> QED BY <1>0, <1>1, <2>1, IdleIsActor DEF Others, StartBranch
<1>2. CASE FindPrevious
  <2>1. PICK source : act' = [act EXCEPT !["branch"] = [act["branch"] EXCEPT !.at = "reverting", !.source = source]]
    BY <1>0, <1>2 DEF FindPrevious
  <2> DEFINE new == [act["branch"] EXCEPT !.at = "reverting", !.source = source]
  <2>2. act["branch"] \in Actor /\ new.at = "reverting" /\ new.row = act["branch"].row
    BY <1>0 DEF Actor
  <2> HIDE DEF new
  <2>3. act' = [act EXCEPT !["branch"] = new]
    BY <2>1 DEF new
  <2> QED BY <1>0, <1>2, <2>2, <2>3 DEF FindPrevious, Others
<1>3. CASE RecordReverted \/ RecordStranded
    BY <1>0, <1>3, GoEffect, LeaveEffect, IdleIsActor DEF RecordReverted, RecordStranded, Moved, Places
<1> QED BY <1>1, <1>2, <1>3 DEF Sweep

LEMMA WorkerMoves ==
    ASSUME Typed, StartDeploy \/ ReadCompose \/ Teardown
    PROVE  /\ Others("worker")
           /\ act["worker"].at # "idle"
           /\ act'["worker"] = Idle \/ act'["worker"].row = act["worker"].row
           /\ act'["worker"].at \in {"idle", "compose", "build", "erasing", "stuck"}
<1>0. act \in [Actors -> Actor] /\ "worker" \in Actors
    BY DEF Typed, ActTyped, Actors
<1>1. CASE StartDeploy \/ ReadCompose
    BY <1>0, <1>1, GoEffect, LeaveEffect, IdleIsActor DEF StartDeploy, ReadCompose, Moved, Places
<1>2. CASE Teardown
    BY <1>0, <1>2, GoEffect, LeaveEffect, IdleIsActor DEF Teardown, RemoveStack, EraseRow, EraseThrows, RecordStuck, Moved, Places
<1> QED BY <1>1, <1>2

\* A removal takes some services away, or all of them, ...
LEMMA RemovalMoves ==
    ASSUME Typed, RemoveStack, ~Gone
    PROVE  /\ Others("worker") /\ act["worker"].at = "delete"
           /\ \E some \in SUBSET Services :
                Removes(some) /\ act'["worker"].at = IF some = Services THEN "erasing" ELSE "stuck"
<1>0. act \in [Actors -> Actor] /\ "worker" \in Actors
    BY DEF Typed, ActTyped, Actors
<1>1. PICK some \in SUBSET Services :
         Removes(some) /\ Go("worker", IF some = Services THEN "erasing" ELSE "stuck")
    BY DEF RemoveStack
<1>2. Moved("worker", IF some = Services THEN "erasing" ELSE "stuck")
    BY <1>0, <1>1, GoEffect DEF Places
<1> QED BY <1>1, <1>2 DEF Moved, RemoveStack

\* ... and when the branch may yet record that they are served, this is on record.
LEMMA RemovalIsTold ==
    ASSUME Typed, RemoveStack, ~Gone, doubt' = {}, act["branch"].at \in Shipping \cup {"accepted", "current"}
    PROVE  doubt = {} /\ swarm' = swarm
<1>1. PICK some \in SUBSET Services : Removes(some)
    BY RemovalMoves
<1>2. some = {}
    BY <1>1 DEF Removes, Shipping
<1>3. some # Services
    BY <1>2, StacksAssumption
<1>4. doubt = {}
    BY <1>1, <1>3 DEF Removes
<1>5. swarm' = [s \in Services |-> swarm[s]]
    BY <1>1, <1>2 DEF Removes
<1> QED BY <1>4, <1>5 DEF Typed, RestTyped

LEMMA BuildMoves ==
    ASSUME Typed, Build
    PROVE  /\ Others("worker") /\ act["worker"].at = "build" /\ act["worker"].row \in Ids
           /\ active.kind = "deploy" /\ active.arg = act["worker"].row
           /\ act'["worker"].at = "rolling" /\ act'["worker"].row = act["worker"].row
           /\ act'["worker"].source = act["worker"].source
           /\ act'["worker"].image = act["worker"].row
           /\ act'["worker"].keys = rows[act["worker"].row].keys
           /\ act'["worker"].todo = act'["worker"].keys
           /\ doubt' \in {{}, {"overlap"}}
           /\ doubt' = {} => act["branch"].at \notin Shipping \cup Recording
<1>0. act \in [Actors -> Actor] /\ rows \in [Ids -> Row] /\ {"worker", "branch"} = Actors
    BY DEF Typed, ActTyped, RestTyped, Actors
<1>1. act["worker"].at = "build" /\ act["worker"].row \in Ids /\ active.kind = "deploy" /\ active.arg = act["worker"].row
    BY <1>0, JobInHand DEF Build, Typed, ActTyped, Busy
<1>2. rows[act["worker"].row].keys \in {{}} \cup Files
    BY <1>0, <1>1 DEF Row
<1> QED BY <1>0, <1>1, <1>2, BeginEffect DEF Build

\* Every step moves one actor, or all when the process dies, or none.
LEMMA WhoMoves ==
    ASSUME Typed, [Next]_vars
    PROVE  \/ UNCHANGED act
           \/ Crash /\ \A a \in Actors : act'[a] = Idle
           \/ (TakeJob \/ StartDeploy \/ ReadCompose \/ Build \/ Teardown) /\ Others("worker")
           \/ Sweep /\ Others("branch")
           \/ \E a \in Actors : (Ship(a) \/ \E d \in Ids : Redeploy(a, d)) /\ Others(a)
<1>1. CASE Dashboard
    BY <1>1 DEF Dashboard, RequestDeploy, RequestRollback, RequestEnqueue, RequestDelete, DeleteEnqueue
<1>2. CASE TakeJob \/ StartDeploy \/ ReadCompose \/ Build \/ Teardown
    BY <1>2, TakeTyped, WorkerMoves, BuildMoves DEF Typed
<1>3. CASE \E a \in Actors : Ship(a) \/ \E d \in Ids : Redeploy(a, d)
    BY <1>3, ShipMoves, RedeployMoves
<1>4. CASE Sweep
    BY <1>4, SweepMoves
<1>5. CASE Crash
    BY <1>5 DEF Crash
<1>6. CASE Recovery \/ Swarm \/ UNCHANGED vars
    BY <1>6 DEF Recovery, RecoverRows, RecoverStack, JobReturns, Swarm, UpdateCompletes, UpdateRollsBack, vars
<1> QED BY <1>1, <1>2, <1>3, <1>4, <1>5, <1>6 DEF Next

\* The row an actor works on: the one before, or the one the step names.
LEMMA RowOfActor ==
    ASSUME Typed, [Next]_vars, NEW a \in Actors
    PROVE  \/ act'[a] = act[a]
           \/ act'[a] = Idle
           \/ act[a].at # "idle" /\ act'[a].row = act[a].row
           \/ a = "worker" /\ TakeJob
           \/ a = "branch" /\ \E d \in Ids : StartBranch(d) /\ act'[a].row = d
           \/ \E d \in Ids : Redeploy(a, d) /\ act'[a].row = d /\ rows'[d].status = "deploying"
<1>1. CASE UNCHANGED act \/ \A b \in Actors : act'[b] = Idle
    BY <1>1
<1>2. CASE TakeJob /\ Others("worker")
    BY <1>2 DEF Others, Actors
<1>3. CASE (StartDeploy \/ ReadCompose \/ Teardown) /\ Others("worker")
    BY <1>3, WorkerMoves DEF Others, Actors
<1>4. CASE Build /\ Others("worker")
    BY <1>4, BuildMoves DEF Others, Actors
<1>5. CASE Sweep /\ Others("branch")
    BY <1>5, SweepMoves DEF Others, Actors
<1>6. ASSUME NEW b \in Actors, Ship(b), Others(b)
      PROVE  act'[a] = act[a] \/ act'[a] = Idle \/ (act[a].at # "idle" /\ act'[a].row = act[a].row)
    BY <1>6, ShipMoves DEF Others, ShipsFrom, Shipping, Recording
<1>7. ASSUME NEW b \in Actors, NEW d \in Ids, Redeploy(b, d), Others(b)
      PROVE  \/ act'[a] = act[a] \/ act'[a] = Idle
             \/ Redeploy(a, d) /\ act'[a].row = d /\ rows'[d].status = "deploying"
    BY <1>7, RedeployMoves DEF Others
<1> QED BY <1>1, <1>2, <1>3, <1>4, <1>5, <1>6, <1>7, WhoMoves

\* A row that is there stays, with its source and its file.
LEMMA RowsKept ==
    ASSUME Typed, [Next]_vars, ~EraseRow, NEW e \in Ids, rows[e].status # "absent"
    PROVE  /\ rows'[e].status # "absent"
           /\ rows'[e].source = rows[e].source
           /\ rows[e].keys # {} => rows'[e].keys = rows[e].keys
<1>0. rows \in [Ids -> Row] /\ act \in [Actors -> Actor] /\ rows[e] \in Row
    BY DEF Typed, RestTyped, ActTyped
<1> DEFINE Kept(row) == /\ row.status # "absent"
                        /\ row.source = rows[e].source
                        /\ rows[e].keys # {} => row.keys = rows[e].keys
<1>1. Kept(rows[e])
    OBVIOUS
<1>2. ASSUME NEW d \in Ids, NEW row \in Row, UpdateRow(d, row),
             row.status # "absent", row.source = rows[d].source, rows[d].keys \in {{}, row.keys}
      PROVE  Kept(rows'[e])
  <2>1. CASE d = e
    BY <1>0, <1>2, <2>1, RowEffect
  <2>2. CASE d # e
    BY <1>0, <1>1, <1>2, <2>2, RowEffect
  <2> QED BY <2>1, <2>2
<1>3. CASE \E d \in Ids : RequestDeploy(d)
    BY <1>0, <1>1, <1>3 DEF RequestDeploy, Inserts
<1>4. CASE StartDeploy
  <2> DEFINE d   == act["worker"].row
             new == [rows[d] EXCEPT !.status = "building"]
  <2>0. d \in Ids /\ rows[d] \in Row
    BY <1>0, <1>4 DEF StartDeploy, Typed, ActTyped, Busy, Actors
  <2>1. new.status # "absent" /\ new.source = rows[d].source /\ new.keys = rows[d].keys
    BY <2>0 DEF Row
  <2>2. rows' = rows \/ rows' = [rows EXCEPT ![d] = new]
    BY <1>4 DEF StartDeploy
  <2> HIDE DEF new, d
  <2> QED BY <1>0, <1>1, <2>0, <2>1, <2>2
<1>5. CASE ReadCompose \/ Build
  <2> DEFINE d == act["worker"].row
  <2>0. d \in Ids /\ rows[d] \in Row
    BY <1>0, <1>5 DEF ReadCompose, Build, Typed, ActTyped, Busy, Actors
  <2>1. CASE ReadCompose
    <3>1. PICK keys \in {{}} \cup Files : UpdateRow(d, [rows[d] EXCEPT !.keys = keys]) /\ rows[d].keys \in {{}, keys}
        BY <2>0, <2>1 DEF ReadCompose, Row
    <3> DEFINE new == [rows[d] EXCEPT !.keys = keys]
    <3>2. new \in Row /\ new.status = rows[d].status /\ new.source = rows[d].source /\ new.keys = keys
        BY <2>0 DEF Row
    <3>3. UpdateRow(d, new)
        BY <3>1
    <3> HIDE DEF new, d
    <3>4. CASE rows[d].status = "absent"
        BY <1>0, <1>1, <2>0, <3>2, <3>3, <3>4, RowEffect
    <3> QED BY <1>2, <2>0, <3>1, <3>2, <3>3, <3>4
  <2>2. CASE Build
    <3> DEFINE new == [rows[d] EXCEPT !.built = TRUE, !.status = "deploying"]
    <3>1. new \in Row /\ new.status = "deploying" /\ new.source = rows[d].source /\ new.keys = rows[d].keys
        BY <2>0 DEF Row
    <3>2. UpdateRow(d, new)
        BY <2>2 DEF Build
    <3> HIDE DEF new, d
    <3> QED BY <1>2, <2>0, <3>1, <3>2
  <2> QED BY <1>5, <2>1, <2>2
<1>6. ASSUME NEW a \in Actors, NEW d \in Ids, Redeploy(a, d)
      PROVE  Kept(rows'[e])
  <2>1. rows' = rows \/ (d # e /\ rows'[e] = rows[e])
    BY <1>6, RedeployMoves DEF Inserts
  <2> QED BY <1>1, <2>1
<1>7. ASSUME NEW a \in Actors, RecordRow(a)
      PROVE  Kept(rows'[e])
  <2> DEFINE d == act[a].row
  <2>1. d \in Ids /\ rows[d] \in Row
    BY <1>0, <1>7 DEF RecordRow, Typed, ActTyped, Busy, Recording
  <2>2. PICK new \in Row : UpdateRow(d, new) /\ new.status # "absent" /\ new.source = rows[d].source
                           /\ new.keys = rows[d].keys
    <3> DEFINE accepted == [rows[d] EXCEPT !.status = "succeeded", !.watch = TRUE]
               refused  == [rows[d] EXCEPT !.status = "rolled_back"]
               failed   == [rows[d] EXCEPT !.status = "failed"]
    <3>1. UpdateRow(d, accepted) \/ UpdateRow(d, refused) \/ UpdateRow(d, failed)
        BY <1>7 DEF RecordRow
    <3>2. \A new \in {accepted, refused, failed} :
            new \in Row /\ new.status # "absent" /\ new.source = rows[d].source /\ new.keys = rows[d].keys
        BY <2>1 DEF Row
    <3> HIDE DEF accepted, refused, failed, d
    <3> QED BY <3>1, <3>2
  <2> QED BY <1>2, <2>1, <2>2
<1>8. ASSUME NEW a \in Actors, ClearSupersededWatch(a)
      PROVE  Kept(rows'[e])
  <2>1. rows'[e] \in {rows[e], [rows[e] EXCEPT !.watch = FALSE]}
    BY <1>8 DEF ClearSupersededWatch
  <2> QED BY <1>0, <1>1, <2>1 DEF Row
<1>9. CASE RecordReverted
  <2> DEFINE d   == act["branch"].row
             new == [rows[d] EXCEPT !.status = "reverted_by_watch", !.watch = FALSE]
  <2>1. d \in Ids /\ rows[d] \in Row
    BY <1>0, <1>9 DEF RecordReverted, Typed, ActTyped, Busy, Actors
  <2>2. UpdateRow(d, new)
    BY <1>9 DEF RecordReverted
  <2>3. new \in Row /\ new.status = "reverted_by_watch" /\ new.source = rows[d].source /\ new.keys = rows[d].keys
    BY <2>1 DEF Row
  <2> HIDE DEF new, d
  <2> QED BY <1>2, <2>1, <2>2, <2>3
<1>10. CASE RecoverRows
  <2>1. rows'[e] \in {rows[e], [rows[e] EXCEPT !.status = "failed"]}
    BY <1>10 DEF RecoverRows
  <2> QED BY <1>0, <1>1, <2>1 DEF Row
<1> QED BY <1>1, <1>3, <1>4, <1>5, <1>6, <1>7, <1>8, <1>9, <1>10, WhoWrites DEF WritesRows

\* The row of a stack goes once, and does not come back.
LEMMA GoneStays ==
    ASSUME Typed, [Next]_vars
    PROVE  /\ Gone => stack' = stack \/ EraseRow
           /\ Gone' <=> Gone \/ EraseRow
<1>0. stack \in StackRow
    BY DEF Typed, RestTyped
<1>1. CASE EraseRow
    BY <1>1 DEF EraseRow, Gone
<1>2. CASE Gone /\ ~EraseRow
    BY <1>2, WhoWrites DEF WritesStack, RequestDeploy, RequestDelete, RecordStranded, RecordStuck, RecoverStack,
        RecordStack, UpdateStack, Gone
<1>3. CASE ~Gone /\ ~EraseRow
  <2>1. /\ MarkDeploying(stack).status # "gone" /\ MarkDeleting(stack).status # "gone"
        /\ MarkCrashed(stack).status # "gone"
        /\ \A d : [MarkRunning(stack) EXCEPT !.current = d].status # "gone"
        /\ [stack EXCEPT !.error = TRUE].status = stack.status
    BY <1>0 DEF StackRow, MarkDeploying, MarkDeleting, MarkCrashed, MarkRunning
  <2> QED BY <1>3, <2>1, WhoWrites DEF WritesStack, RequestDeploy, RequestDelete, RecordStranded, RecordStuck,
        RecoverStack, RecordStack, UpdateStack, Gone
<1> QED BY <1>1, <1>2, <1>3

\* A job that waits or will come back did so before, was running, or is new.
LEMMA JobsMove ==
    ASSUME Typed, [Next]_vars, NEW job \in stalled' \cup Waiting'
    PROVE  \/ \E old \in stalled \cup Waiting : old.kind = job.kind /\ old.arg = job.arg
           \/ active # NoJob /\ active.kind = job.kind /\ active.arg = job.arg
           \/ RequestEnqueue /\ job.kind = "deploy" /\ job.arg = request
           \/ job.kind # "deploy"
<1>0. JobsIn(Jobs) /\ queue \in Seq(Jobs)
    BY DEF Typed, WorkerTyped, JobsIn
<1>1. ASSUME NEW kind, NEW arg, Enqueue(kind, arg)
      PROVE  job \in stalled \cup Waiting \/ (job.kind = kind /\ job.arg = arg)
    BY <1>0, <1>1, EnqueueWaiting DEF Enqueue
<1>2. CASE \E d \in Ids : RequestRollback(d)
    BY <1>1, <1>2 DEF RequestRollback
<1>3. CASE RequestEnqueue \/ DeleteEnqueue
    BY <1>1, <1>3 DEF RequestEnqueue, DeleteEnqueue
<1>4. CASE TakeJob
    BY <1>0, <1>4, TakeWaiting DEF TakeJob, Take
<1>5. CASE Crash
    BY <1>5 DEF Crash, Die, Waiting
<1>6. CASE JobReturns
  <2>1. PICK old \in stalled : stalled' = stalled \ {old} /\ Waiting' = Waiting \cup {[old EXCEPT !.again = TRUE]}
    BY <1>0, <1>6, ComesBackWaiting, JobsAreJobs DEF JobReturns
  <2>2. old \in AnyJobs
    BY <1>0, JobsAreJobs DEF JobsIn
  <2>3. [old EXCEPT !.again = TRUE].kind = old.kind /\ [old EXCEPT !.again = TRUE].arg = old.arg
    BY <2>2 DEF AnyJobs
  <2> QED BY <2>1, <2>3
<1>7. CASE UNCHANGED jobs \/ Finish
    BY <1>7 DEF jobs, Finish, Waiting
<1> QED BY <1>2, <1>3, <1>4, <1>5, <1>6, <1>7, WhoWrites DEF WritesJobs

\* The last word of a deployment, and the only step that names a current one.
LEMMA CurrentMoves ==
    ASSUME Typed, [Next]_vars, ~EraseRow
    PROVE  \/ stack'.current = stack.current
           \/ \E a \in Actors : /\ RecordStack(a) /\ act[a].at = "current" /\ act'[a].at = "unwatch"
                                /\ ~Gone /\ stack'.current = act[a].row /\ act[a].row \in Ids
<1>0. stack \in StackRow /\ act \in [Actors -> Actor]
    BY DEF Typed, RestTyped, ActTyped
<1>1. /\ MarkDeploying(stack).current = stack.current /\ MarkDeleting(stack).current = stack.current
      /\ MarkCrashed(stack).current = stack.current
      /\ [stack EXCEPT !.error = TRUE].current = stack.current
      /\ \A d : [MarkRunning(stack) EXCEPT !.current = d].current = d
    BY <1>0 DEF StackRow, MarkDeploying, MarkDeleting, MarkCrashed, MarkRunning
<1>2. ASSUME NEW a \in Actors, RecordStack(a)
      PROVE  \/ stack'.current = stack.current
             \/ /\ RecordStack(a) /\ act[a].at = "current" /\ act'[a].at = "unwatch"
                /\ ~Gone /\ stack'.current = act[a].row /\ act[a].row \in Ids
  <2>1. CASE act[a].at = "current"
    <3>1. act[a].row \in Ids /\ act'[a].at = "unwatch"
        BY <1>0, <1>2, <2>1, GoEffect DEF RecordStack, Typed, ActTyped, Busy, Recording, Moved, Places
    <3> QED BY <1>1, <1>2, <2>1, <3>1 DEF RecordStack, UpdateStack
  <2>2. CASE act[a].at # "current"
    BY <1>1, <1>2, <2>2 DEF RecordStack, UpdateStack
  <2> QED BY <2>1, <2>2
<1> QED BY <1>1, <1>2, WhoWrites DEF WritesStack, RequestDeploy, RequestDelete, RecordStranded, RecordStuck,
        RecoverStack, UpdateStack

-----------------------------------------------------------------------------
(* What is there, and what is left when the stack is gone *)

LEMMA PresentStep == Typed /\ Present /\ [Next]_vars => Present'
<1> SUFFICES ASSUME Typed, Present, [Next]_vars PROVE Present'
    OBVIOUS
<1>0. rows \in [Ids -> Row] /\ act \in [Actors -> Actor] /\ JobsIn(Jobs) /\ Typed' /\ "worker" \in Actors
    BY TypedStep DEF Typed, RestTyped, ActTyped, WorkerTyped, Actors
<1>1. ASSUME ~Gone'
      PROVE  /\ \A a \in Actors : act'[a].at # "idle" /\ act'[a].row # NoId => rows'[act'[a].row].status # "absent"
             /\ stack'.current # NoId => rows'[stack'.current].status # "absent"
             /\ request' # NoId => rows'[request'].status # "absent"
             /\ \A job \in stalled' \cup Waiting' : job.kind = "deploy" => rows'[job.arg].status # "absent"
  <2>0. ~Gone /\ ~EraseRow
    BY <1>1, GoneStays
  <2>1. /\ \A a \in Actors : act[a].at # "idle" /\ act[a].row # NoId => rows[act[a].row].status # "absent"
        /\ stack.current # NoId => rows[stack.current].status # "absent"
        /\ request # NoId => rows[request].status # "absent"
        /\ \A job \in stalled \cup Waiting : job.kind = "deploy" => rows[job.arg].status # "absent"
    BY <2>0 DEF Present
  <2>2. \A e \in Ids : rows[e].status # "absent" => rows'[e].status # "absent"
    BY <2>0, RowsKept
  <2>3. ASSUME NEW a \in Actors, act'[a].at # "idle", act'[a].row # NoId
        PROVE  rows'[act'[a].row].status # "absent"
    <3>1. act'[a].row \in Ids
        BY <1>0, <2>3 DEF Typed, ActTyped, Actor
    <3>2. CASE act'[a] = act[a] \/ (act[a].at # "idle" /\ act'[a].row = act[a].row)
        BY <2>1, <2>2, <2>3, <3>1, <3>2
    <3>3. CASE a = "worker" /\ TakeJob
      <4>1. active'.kind = "deploy" /\ act'[a].row = active'.arg
        BY <2>3, <3>3, TakeTyped DEF Typed
      <4>2. active' \in Waiting
        BY <1>0, <3>3, TakeWaiting DEF TakeJob, JobsIn
      <4> QED BY <2>1, <2>2, <3>1, <4>1, <4>2
    <3>4. CASE \E d \in Ids : StartBranch(d) /\ act'[a].row = d
        BY <3>4 DEF StartBranch
    <3>5. CASE \E d \in Ids : act'[a].row = d /\ rows'[d].status = "deploying"
        BY <3>5
    <3> QED BY <2>3, <3>2, <3>3, <3>4, <3>5, RowOfActor, IdleIsActor
  <2>4. ASSUME stack'.current # NoId
        PROVE  rows'[stack'.current].status # "absent"
    <3>1. stack'.current \in Ids
        BY <1>0, <2>4 DEF Typed, RestTyped, StackRow
    <3>2. rows[stack'.current].status # "absent"
        BY <2>0, <2>1, <2>4, <3>1, CurrentMoves DEF Ids, NoId
    <3> QED BY <2>2, <3>1, <3>2
  <2>5. ASSUME request' # NoId
        PROVE  rows'[request'].status # "absent"
    <3>1. CASE \E d \in Ids : RequestDeploy(d)
        BY <1>0, <3>1 DEF RequestDeploy, NoRow
    <3>2. CASE request' = request
      <4>1. request \in Ids
        BY <2>5, <3>2 DEF Typed, RestTyped
      <4> QED BY <2>1, <2>2, <2>5, <3>2, <4>1
    <3> QED BY <2>5, <3>1, <3>2, WhoWrites DEF RequestEnqueue
  <2>6. ASSUME NEW job \in stalled' \cup Waiting', job.kind = "deploy"
        PROVE  rows'[job.arg].status # "absent"
    <3>0. job \in Jobs
        BY <1>0 DEF Typed, WorkerTyped, JobsIn, Waiting
    <3>1. job.arg \in Ids
        BY <2>6, <3>0 DEF Jobs
    <3>2. CASE active # NoJob /\ active.kind = "deploy" /\ active.arg = job.arg
      <4>1. act["worker"].row = job.arg /\ act["worker"].at # "idle"
        BY <3>2, JobInHand DEF Typed, ActTyped
      <4> QED BY <1>0, <2>1, <2>2, <3>1, <4>1 DEF Ids, NoId
    <3>3. CASE RequestEnqueue /\ job.arg = request
        BY <2>1, <2>2, <3>1, <3>3 DEF RequestEnqueue
    <3> QED BY <2>1, <2>2, <2>6, <3>1, <3>2, <3>3, JobsMove
  <2> QED BY <2>3, <2>4, <2>5, <2>6
<1>2. ASSUME Gone'
      PROVE  (\A d \in Ids : rows'[d] = NoRow) /\ act'["worker"].at \in {"idle"} \cup JobKinds
  <2>1. CASE EraseRow
    BY <1>0, <2>1, LeaveEffect, IdleIsActor DEF EraseRow
  <2>2. CASE ~EraseRow
    <3>0. Gone /\ (\A d \in Ids : rows[d] = NoRow) /\ act["worker"].at \in {"idle"} \cup JobKinds
        BY <1>2, <2>2, GoneStays DEF Present
    <3>1. \A d \in Ids : rows'[d] = NoRow
      <4>1. ASSUME NEW d \in Ids, NEW row, UpdateRow(d, row)
            PROVE  rows' = rows
        BY <3>0, <4>1, NoRowIsRow DEF UpdateRow
      <4>2. CASE StartDeploy
        <5>1. act["worker"].row \in Ids
            BY <1>0, <4>2 DEF StartDeploy, Typed, ActTyped, Busy
        <5> QED BY <3>0, <4>2, <5>1, NoRowIsRow DEF StartDeploy
      <4>3. CASE ReadCompose \/ Build
        BY <3>0, <4>3 DEF ReadCompose, Build, JobKinds
      <4>4. ASSUME NEW a \in Actors, NEW d \in Ids, Redeploy(a, d)
            PROVE  rows' = rows
        BY <3>0, <4>4, RedeployMoves
      <4>5. ASSUME NEW a \in Actors, RecordRow(a)
            PROVE  rows' = rows
        <5>1. act[a].row \in Ids
            BY <1>0, <4>5 DEF RecordRow, Typed, ActTyped, Busy, Recording
        <5> QED BY <4>1, <4>5, <5>1 DEF RecordRow
      <4>6. CASE RecordReverted
        <5>1. act["branch"].row \in Ids
            BY <1>0, <4>6 DEF RecordReverted, Typed, ActTyped, Busy, Actors
        <5> QED BY <3>0, <4>6, <5>1, NoRowIsRow DEF RecordReverted, UpdateRow
      <4>7. ASSUME NEW a \in Actors, ClearSupersededWatch(a), NEW d \in Ids
            PROVE  rows'[d] = NoRow
        <5>1. rows'[d] \in {NoRow, [NoRow EXCEPT !.watch = FALSE]}
            BY <3>0, <4>7 DEF ClearSupersededWatch
        <5> QED BY <5>1 DEF NoRow
      <4>8. ASSUME RecoverRows, NEW d \in Ids
            PROVE  rows'[d] = NoRow
        BY <3>0, <4>8, NoRowIsRow DEF RecoverRows
      <4>9. ~\E d \in Ids : RequestDeploy(d)
        BY <3>0 DEF RequestDeploy
      <4> QED BY <2>2, <3>0, <4>2, <4>3, <4>4, <4>5, <4>6, <4>7, <4>8, <4>9, WhoWrites DEF WritesRows
    <3>2. act'["worker"].at \in {"idle"} \cup JobKinds
      <4>1. CASE act'["worker"] \in {act["worker"], Idle}
        BY <3>0, <4>1, IdleIsActor
      <4>2. CASE TakeJob
        BY <4>2, TakeTyped, JobsAreJobs DEF Typed, AnyJobs
      <4>3. CASE StartDeploy
        <5>1. act["worker"].row \in Ids
            BY <1>0, <4>3 DEF StartDeploy, Typed, ActTyped, Busy
        <5> QED BY <1>0, <3>0, <4>3, <5>1, NoRowIsRow, LeaveEffect, IdleIsActor DEF StartDeploy
      <4>4. CASE RemoveStack
        BY <1>0, <3>0, <4>4, LeaveEffect, IdleIsActor DEF RemoveStack
      <4>5. CASE ReadCompose \/ Build \/ EraseThrows \/ RecordStuck \/ Ship("worker")
        <5>1. act["worker"].at \in ShipsFrom \cup {"erasing", "stuck"}
            BY <1>0, <4>5, ShipMoves DEF ReadCompose, Build, EraseThrows, RecordStuck, ShipsFrom
        <5> QED BY <3>0, <5>1 DEF ShipsFrom, Shipping, Recording, JobKinds
      <4>6. CASE \E d \in Ids : Redeploy("worker", d)
        BY <1>0, <3>0, <4>6, RedeployMoves, IdleIsActor
      <4>7. ASSUME NEW a \in Actors \ {"worker"}, Others(a)
            PROVE  act'["worker"] = act["worker"]
        BY <1>0, <4>7 DEF Others
      <4> QED BY <1>0, <2>2, <4>1, <4>2, <4>3, <4>4, <4>5, <4>6, <4>7, WhoMoves DEF Actors, Teardown
    <3> QED BY <3>1, <3>2
  <2> QED BY <2>1, <2>2
<1> QED BY <1>1, <1>2 DEF Present, Gone

LEMMA TornDownStep == Typed /\ Present /\ TornDown /\ [Next]_vars => TornDown'
<1> SUFFICES ASSUME Typed, Present, TornDown, [Next]_vars, Gone' \/ act'["worker"].at = "erasing",
                    "overlap" \notin doubt'
             PROVE  (\A s \in Services : swarm'[s] = NoService) /\ act'["branch"].at # "rolling"
    BY DEF TornDown, Gone
<1>0. act \in [Actors -> Actor] /\ {"worker", "branch"} = Actors
    BY DEF Typed, ActTyped, Actors
<1>1. CASE RemoveStack /\ ~Gone
  <2>1. ~Gone'
    BY <1>1, GoneStays DEF RemoveStack, EraseRow
  <2>2. PICK some \in SUBSET Services :
           Removes(some) /\ act'["worker"].at = IF some = Services THEN "erasing" ELSE "stuck"
    BY <1>1, RemovalMoves
  <2>3. some = Services
    BY <2>1, <2>2
  <2>4. (\A s \in Services : swarm'[s] = NoService) /\ act["branch"].at # "rolling"
    BY <2>2, <2>3, StacksAssumption DEF Removes
  <2>5. act'["branch"] = act["branch"]
    BY <1>0, <1>1, RemovalMoves DEF Others
  <2> QED BY <2>4, <2>5
<1>2. CASE ~(RemoveStack /\ ~Gone)
\* It was torn down before.
  <2>1. Gone \/ act["worker"].at = "erasing"
    <3>1. CASE Gone'
        BY <3>1, GoneStays DEF EraseRow
    <3>2. CASE ~Gone'
      <4>1. act'["worker"].at = "erasing" /\ ~Gone /\ ~EraseRow
        BY <3>2, GoneStays
      <4>2. ~(TakeJob \/ StartDeploy \/ ReadCompose \/ Build \/ EraseThrows \/ RecordStuck)
        BY <1>0, <4>1, TakeTyped, BuildMoves, GoEffect, LeaveEffect, IdleIsActor, JobsAreJobs
        DEF StartDeploy, ReadCompose, EraseThrows, RecordStuck, Moved, Places, Typed, AnyJobs, JobKinds
      <4>3. ~Ship("worker") /\ ~\E d \in Ids : Redeploy("worker", d)
        BY <1>0, <4>1, ShipMoves, RedeployMoves, IdleIsActor DEF Shipping, Recording
      <4>4. act'["worker"] = act["worker"]
        BY <1>0, <1>2, <4>1, <4>2, <4>3, WhoMoves, IdleIsActor DEF Others, Teardown
      <4> QED BY <4>1, <4>4
    <3> QED BY <3>1, <3>2
\* What went wrong is not forgotten.
  <2>2. ASSUME "overlap" \in doubt
        PROVE  FALSE
    <3>1. CASE Build
        BY <2>1, <3>1, BuildMoves DEF Present, JobKinds
    <3>2. CASE RemoveStack \/ Crash \/ (\E a \in Actors : Throw(a)) \/ (\E s \in Services : UpdateRollsBack(s))
        BY <1>2, <2>2, <3>2 DEF RemoveStack, Crash, Throw, UpdateRollsBack
    <3>3. ASSUME NEW a \in Actors, NEW d \in Ids, Redeploy(a, d)
          PROVE  FALSE
      <4>1. CASE Gone
        BY <2>2, <3>3, <4>1, RedeployMoves
      <4>2. CASE ~Gone /\ act["worker"].at = "erasing"
        BY <1>0, <2>2, <3>3, <4>2, RedeployMoves
      <4> QED BY <2>1, <4>1, <4>2
    <3> QED BY <2>2, <3>1, <3>2, <3>3, WhoWrites DEF WritesDoubt
  <2>3. (\A s \in Services : swarm[s] = NoService) /\ act["branch"].at # "rolling"
    BY <2>1, <2>2 DEF TornDown
  <2>4. act["worker"].at # "rolling"
    BY <2>1 DEF Present, JobKinds
  <2>5. \A s \in Services : swarm'[s] = NoService
    <3>1. ~\E a \in Actors, s \in Services : Roll(a, s)
        BY <1>0, <2>3, <2>4 DEF Roll
    <3>2. ~\E s \in Services : UpdateCompletes(s) \/ UpdateRollsBack(s)
      <4>1. \A s \in Services : swarm[s].update = "none"
        BY <2>3 DEF NoService
      <4> QED BY <4>1 DEF UpdateCompletes, UpdateRollsBack
    <3>3. CASE RemoveStack
        BY <1>2, <2>3, <3>3 DEF RemoveStack
    <3> QED BY <2>3, <3>1, <3>2, <3>3, WhoWrites DEF WritesSwarm
  <2>6. act'["branch"].at # "rolling"
    <3>1. ASSUME NEW d \in Ids, Redeploy("branch", d), act'["branch"].at = "rolling"
          PROVE  FALSE
      <4>1. ~Gone /\ doubt' = {}
        BY <1>0, <3>1, RedeployMoves, IdleIsActor
      <4> QED BY <1>0, <2>1, <3>1, <4>1, RedeployMoves, IdleIsActor
    <3>2. CASE Ship("branch")
      <4>1. act["branch"].at \in ShipsFrom /\ act["branch"].at # "rolling"
        BY <1>0, <2>3, <3>2, ShipMoves
      <4>2. ~\E s \in Services : Roll("branch", s)
        BY <4>1 DEF Roll
      <4>3. CASE ReadVerdict("branch")
        BY <1>0, <4>3, VerdictEffect
      <4>4. CASE Throw("branch") \/ RecordRow("branch") \/ RecordStack("branch") \/ ClearSupersededWatch("branch")
        BY <1>0, <4>4, GoEffect, LeaveEffect, IdleIsActor DEF Throw, RecordRow, RecordStack,
            ClearSupersededWatch, Moved, Places, Recording
      <4> QED BY <3>2, <4>2, <4>3, <4>4 DEF Ship
    <3>3. CASE Sweep
        BY <3>3, SweepMoves
    <3>4. ASSUME Others("worker")
          PROVE  act'["branch"] = act["branch"]
        BY <1>0, <3>4 DEF Others
    <3> QED BY <1>0, <2>3, <3>1, <3>2, <3>3, <3>4, WhoMoves, IdleIsActor
  <2> QED BY <2>5, <2>6
<1> QED BY <1>1, <1>2

-----------------------------------------------------------------------------
(* Who ships, and what *)

\* An actor comes to the outcome of a rollout only from a rollout.
LEMMA ExposedMoves ==
    ASSUME Typed, [Next]_vars, NEW a \in Actors, act'[a].at \in Exposed
    PROVE  \/ act[a].at \in Exposed
           \/ a = "worker" /\ Build
           \/ \E d \in Ids : Redeploy(a, d)
<1>0. act \in [Actors -> Actor] /\ {"worker", "branch"} = Actors /\ "idle" \notin Exposed
    BY DEF Typed, ActTyped, Actors, Exposed, Shipping
<1>1. CASE act'[a] \in {act[a], Idle}
    BY <1>0, <1>1, IdleIsActor
<1>2. CASE (TakeJob \/ StartDeploy \/ ReadCompose \/ Teardown) /\ Others("worker")
  <2>1. a # "worker"
    BY <1>2, TakeTyped, WorkerMoves, JobsAreJobs DEF Typed, AnyJobs, JobKinds, Exposed, Shipping
  <2> QED BY <1>1, <1>2, <2>1 DEF Others
<1>3. CASE Sweep /\ Others("branch")
  <2>1. a # "branch"
    BY <1>3, SweepMoves DEF Exposed, Shipping
  <2> QED BY <1>1, <1>3, <2>1 DEF Others
<1>4. CASE Ship(a)
  <2>1. CASE (\E s \in Services : Roll(a, s)) \/ ReadVerdict(a)
    BY <1>0, <2>1 DEF Roll, ReadVerdict, Exposed, Shipping
  <2>2. CASE Throw(a)
    BY <1>0, <2>2, GoEffect, LeaveEffect, IdleIsActor DEF Throw, Moved, Places, Recording, Exposed, Shipping
  <2>3. CASE RecordRow(a) \/ RecordStack(a) \/ ClearSupersededWatch(a)
    BY <1>0, <2>3, GoEffect, LeaveEffect, IdleIsActor DEF RecordRow, RecordStack, ClearSupersededWatch,
        Moved, Places, Recording, Exposed, Shipping
  <2> QED BY <1>4, <2>1, <2>2, <2>3 DEF Ship
<1>5. ASSUME NEW b \in Actors, b # a, Others(b)
      PROVE  act'[a] = act[a]
    BY <1>5 DEF Others
<1>6. CASE Build /\ Others("worker")
    BY <1>0, <1>1, <1>5, <1>6
<1>7. ASSUME NEW b \in Actors, Ship(b) \/ \E d \in Ids : Redeploy(b, d), Others(b)
      PROVE  act[a].at \in Exposed \/ (a = "worker" /\ Build) \/ \E d \in Ids : Redeploy(a, d)
  <2>1. CASE b = a
    BY <1>4, <1>7, <2>1
  <2>2. CASE b # a
    BY <1>1, <1>5, <1>7, <2>2
  <2> QED BY <2>1, <2>2
<1>8. CASE UNCHANGED act \/ \A b \in Actors : act'[b] = Idle
    BY <1>1, <1>8
<1> QED BY <1>2, <1>3, <1>6, <1>7, <1>8, WhoMoves

\* What went wrong is forgotten only when something new is rolled out or all is removed.
LEMMA DoubtGrows ==
    ASSUME Typed, [Next]_vars
    PROVE  \/ doubt \subseteq doubt'
           \/ Build
           \/ \E a \in Actors, d \in Ids : Redeploy(a, d) /\ act'[a].at = "rolling"
           \/ RemoveStack
<1>1. ASSUME NEW a \in Actors, NEW d \in Ids, Redeploy(a, d)
      PROVE  doubt' = doubt \/ act'[a].at = "rolling"
    BY <1>1, RedeployMoves
<1> QED BY <1>1, WhoWrites DEF WritesDoubt, Crash, Throw, UpdateRollsBack

LEMMA AloneStep == Typed /\ Alone /\ [Next]_vars => Alone'
<1> SUFFICES ASSUME Typed, Alone, [Next]_vars, "overlap" \notin doubt',
                    \A a \in Actors : act'[a].at \in Exposed
             PROVE  FALSE
    BY DEF Alone
<1>0. act \in [Actors -> Actor] /\ {"worker", "branch"} = Actors /\ Exposed \subseteq Shipping \cup Recording
    BY DEF Typed, ActTyped, Actors, Exposed, Recording
<1>1. CASE Build
  <2>1. doubt' = {} /\ act["branch"].at \notin Shipping \cup Recording /\ act'["branch"] = act["branch"]
    BY <1>0, <1>1, BuildMoves DEF Others
  <2> QED BY <1>0, <2>1
<1>2. ASSUME NEW a \in Actors, NEW d \in Ids, Redeploy(a, d)
      PROVE  FALSE
  <2>1. act'[a].at # "idle" /\ act'[a] # Idle
    BY IdleIsActor DEF Exposed, Shipping
  <2>2. doubt' = {} /\ Others(a) /\ \A b \in Actors \ {a} : act[b].at \notin Shipping \cup Recording
    BY <1>2, <2>1, RedeployMoves
  <2> QED BY <1>0, <2>2 DEF Others
<1>3. CASE RemoveStack
  <2>1. act'["worker"].at \in {"idle", "compose", "build", "erasing", "stuck"}
    BY <1>3, WorkerMoves DEF Teardown
  <2> QED BY <1>0, <2>1 DEF Exposed, Shipping
<1>4. CASE ~Build /\ ~RemoveStack /\ ~\E a \in Actors, d \in Ids : Redeploy(a, d)
  <2>1. \A a \in Actors : act[a].at \in Exposed
    BY <1>4, ExposedMoves
  <2>2. "overlap" \notin doubt
    BY <1>4, DoubtGrows
  <2> QED BY <2>1, <2>2 DEF Alone
<1> QED BY <1>1, <1>2, <1>3, <1>4

LEMMA ShipsRowStep == Typed /\ Present /\ OwnImages /\ ShipsRow /\ [Next]_vars => ShipsRow'
<1> SUFFICES ASSUME Typed, Present, OwnImages, ShipsRow, [Next]_vars, ~Gone'
             PROVE  /\ act'["worker"].at = "build" => rows'[act'["worker"].row].keys # {}
                    /\ \A a \in Actors : act'[a].at \in Shipping \cup {"accepted", "current"} => ShipsItsRow(a)'
    BY DEF ShipsRow, Gone
<1>0. /\ act \in [Actors -> Actor] /\ {"worker", "branch"} = Actors /\ rows \in [Ids -> Row]
      /\ ~Gone /\ ~EraseRow
    BY GoneStays DEF Typed, ActTyped, RestTyped, Actors
<1>1. \A e \in Ids : rows[e].status # "absent" =>
        rows'[e].source = rows[e].source /\ (rows[e].keys # {} => rows'[e].keys = rows[e].keys)
    BY <1>0, RowsKept
<1>2. ASSUME NEW a \in Actors, act[a].at \in Busy
      PROVE  act[a].row \in Ids /\ rows[act[a].row].status # "absent"
  <2>1. act[a].row \in Ids /\ act[a].at # "idle"
    BY <1>2 DEF Typed, ActTyped, Busy, Shipping, Recording
  <2> QED BY <1>0, <2>1 DEF Present, Ids, NoId
\* What it shipped before it still ships.
<1>3. ASSUME NEW a \in Actors, act[a].at \in Shipping \cup {"accepted", "current"}
      PROVE  /\ act[a].keys = rows'[act[a].row].keys
             /\ act[a].keys # {}
             /\ act[a].image \in {NoId, rows'[act[a].row].source}
             /\ act[a].todo \subseteq act[a].keys
             /\ act[a].at \in Shipping => act[a].todo # {}
             /\ act[a].at # "rolling" => act[a].image # NoId
  <2>1. act[a].row \in Ids /\ rows[act[a].row].status # "absent"
    BY <1>2, <1>3 DEF Busy, Recording
  <2>2. ShipsItsRow(a)
    BY <1>0, <1>3 DEF ShipsRow
  <2> QED BY <1>1, <2>1, <2>2 DEF ShipsItsRow
<1>4. ASSUME act'["worker"].at = "build"
      PROVE  rows'[act'["worker"].row].keys # {}
  <2>1. CASE act'["worker"] = act["worker"]
    BY <1>0, <1>1, <1>2, <1>4, <2>1 DEF ShipsRow, Busy
  <2>2. CASE ReadCompose
    <3> DEFINE d == act["worker"].row
    <3>1. d \in Ids /\ rows[d].status # "absent" /\ rows[d] \in Row
        BY <1>0, <1>2, <2>2 DEF ReadCompose, Busy
    <3>2. PICK keys \in IF rows[d].keys = {} THEN Files ELSE {rows[d].keys} : UpdateRow(d, [rows[d] EXCEPT !.keys = keys])
        BY <2>2 DEF ReadCompose
    <3>3. keys # {} /\ keys \in {{}} \cup Files
        BY <3>1, <3>2, StacksAssumption DEF Row
    <3> DEFINE new == [rows[d] EXCEPT !.keys = keys]
    <3>4. new \in Row /\ new.keys = keys /\ UpdateRow(d, new)
        BY <3>1, <3>2, <3>3 DEF Row
    <3>5. act'["worker"].row = d
        BY <1>0, <2>2, GoEffect DEF ReadCompose, Moved, Places
    <3> HIDE DEF new
    <3>6. rows'[d].keys = keys
        BY <1>0, <3>1, <3>4, RowEffect
    <3> QED BY <3>3, <3>5, <3>6
  <2>3. ~(TakeJob \/ StartDeploy \/ Build \/ Teardown \/ Ship("worker") \/ \E d \in Ids : Redeploy("worker", d))
    <3>1. ~TakeJob
        BY <1>4, TakeTyped, JobsAreJobs DEF Typed, AnyJobs, JobKinds
    <3>2. ~(StartDeploy \/ Build \/ Teardown)
        BY <1>0, <1>4, GoEffect, LeaveEffect, BuildMoves, IdleIsActor DEF StartDeploy, Teardown, RemoveStack,
            EraseRow, EraseThrows, RecordStuck, Moved, Places
    <3>3. ~Ship("worker") /\ ~\E d \in Ids : Redeploy("worker", d)
        BY <1>0, <1>4, ShipMoves, RedeployMoves, IdleIsActor DEF Shipping, Recording
    <3> QED BY <3>1, <3>2, <3>3
  <2> QED BY <1>0, <1>4, <2>1, <2>2, <2>3, WhoMoves, IdleIsActor DEF Others
<1>5. ASSUME NEW a \in Actors, act'[a].at \in Shipping \cup {"accepted", "current"}
      PROVE  ShipsItsRow(a)'
  <2>0. act'[a].at \in Exposed
    BY <1>5 DEF Exposed
  <2>1. CASE act'[a] = act[a]
    BY <1>3, <1>5, <2>1 DEF ShipsItsRow
  <2>2. CASE a = "worker" /\ Build
    <3> DEFINE d == act["worker"].row
    <3>1. /\ d \in Ids /\ rows[d].status # "absent" /\ rows[d].keys # {} /\ rows[d].source = d
      <4>1. act["worker"].at = "build" /\ active.kind = "deploy" /\ active.arg = d
        BY <2>2, BuildMoves
      <4> QED BY <1>0, <1>2, <4>1 DEF ShipsRow, OwnImages, Busy
    <3>2. /\ act'["worker"].at = "rolling" /\ act'["worker"].row = d /\ act'["worker"].image = d
          /\ act'["worker"].keys = rows[d].keys /\ act'["worker"].todo = rows[d].keys
        BY <2>2, BuildMoves
    <3>3. rows'[d].keys = rows[d].keys /\ rows'[d].source = d
        BY <1>1, <3>1
    <3> QED BY <2>2, <3>1, <3>2, <3>3 DEF ShipsItsRow
  <2>3. ASSUME NEW d \in Ids, Redeploy(a, d)
        PROVE  ShipsItsRow(a)'
    <3>1. act'[a] # Idle
        BY <1>5, IdleIsActor DEF Shipping
    <3>2. /\ rows[act[a].source].keys # {} /\ rows'[d].keys = rows[act[a].source].keys
          /\ act'[a].at = "rolling" /\ act'[a].row = d
          /\ act'[a].keys = rows'[d].keys /\ act'[a].todo = act'[a].keys
          /\ act'[a].image \in {NoId, rows'[d].source}
        BY <2>3, <3>1, RedeployMoves
    <3> QED BY <3>2 DEF ShipsItsRow
  <2>4. ASSUME NEW s \in Services, Roll(a, s)
        PROVE  ShipsItsRow(a)'
    <3>1. act[a].image # NoId /\ act[a].at = "rolling" /\ s \in act[a].todo
        BY <2>4 DEF Roll
    <3>2. /\ \/ act'[a].at = "verdict" /\ act'[a].todo = act[a].keys
             \/ act'[a].at = "rolling" /\ act'[a].todo # {} /\ act'[a].todo \subseteq act[a].todo
          /\ act'[a].row = act[a].row /\ act'[a].image = act[a].image /\ act'[a].keys = act[a].keys
        BY <1>0, <2>4, RollEffect
    <3> QED BY <1>3, <3>1, <3>2 DEF ShipsItsRow, Shipping
  <2>5. CASE ReadVerdict(a)
    <3>1. /\ act[a].at = "verdict" /\ act'[a].todo \subseteq act[a].todo
          /\ act'[a].at = "verdict" => act'[a].todo # {}
          /\ act'[a].at # "rolling"
          /\ act'[a].row = act[a].row /\ act'[a].image = act[a].image /\ act'[a].keys = act[a].keys
        BY <1>0, <2>5, VerdictEffect
    <3> QED BY <1>3, <3>1 DEF ShipsItsRow, Shipping
  <2>6. CASE RecordRow(a)
    <3>1. Moved(a, "current") /\ act[a].at = "accepted"
        BY <1>0, <1>5, <2>6, GoEffect DEF RecordRow, Moved, Places, Recording, Shipping
    <3> QED BY <1>3, <3>1 DEF ShipsItsRow, Shipping, Moved
  <2>7. ~(Throw(a) \/ RecordStack(a) \/ ClearSupersededWatch(a))
    BY <1>0, <1>5, GoEffect, LeaveEffect, IdleIsActor DEF Throw, RecordStack, ClearSupersededWatch,
        Moved, Places, Recording, Shipping
  <2>8. ~(a = "worker" /\ (TakeJob \/ StartDeploy \/ ReadCompose \/ Teardown)) /\ ~(a = "branch" /\ Sweep)
    BY <1>5, TakeTyped, WorkerMoves, SweepMoves, JobsAreJobs DEF Typed, AnyJobs, JobKinds, Shipping
  <2>9. ASSUME NEW b \in Actors, b # a, Others(b)
        PROVE  act'[a] = act[a]
    BY <2>9 DEF Others
  <2>10. act'[a] # Idle
    BY <1>5, IdleIsActor DEF Shipping
  <2> QED BY <1>0, <2>1, <2>2, <2>3, <2>4, <2>5, <2>6, <2>7, <2>8, <2>9, <2>10, WhoMoves DEF Ship
<1> QED BY <1>4, <1>5

LEMMA OwnImagesStep == Typed /\ Present /\ OwnImages /\ [Next]_vars => OwnImages'
<1> SUFFICES ASSUME Typed, Present, OwnImages, [Next]_vars, ~Gone'
             PROVE  /\ \A job \in stalled' \cup Waiting' : job.kind = "deploy" => rows'[job.arg].source = job.arg
                    /\ active'.kind = "deploy" => rows'[active'.arg].source = active'.arg
                    /\ request' # NoId => rows'[request'].source = request'
    BY DEF OwnImages, Gone
<1>0. ~Gone /\ ~EraseRow /\ Typed' /\ JobsIn(Jobs) /\ rows \in [Ids -> Row]
    BY GoneStays, TypedStep DEF Typed, WorkerTyped, RestTyped
<1>1. \A e \in Ids : rows[e].status # "absent" => rows'[e].source = rows[e].source
    BY <1>0, RowsKept
\* A row its job names, and that is its own source, stays so.
<1>2. \A job \in stalled \cup Waiting : job.kind = "deploy" /\ job.arg \in Ids => rows'[job.arg].source = job.arg
    BY <1>0, <1>1 DEF Present, OwnImages
<1>3. active.kind = "deploy" => rows'[active.arg].source = active.arg
  <2> SUFFICES ASSUME active.kind = "deploy" PROVE rows'[active.arg].source = active.arg
    OBVIOUS
  <2>1. act["worker"].row = active.arg /\ act["worker"].at # "idle"
    BY JobInHand, JobsAreJobs DEF Typed, ActTyped, NoJob
  <2>2. active.arg \in Ids
    BY JobInHand, <2>1 DEF Typed, Jobs
  <2>3. rows[active.arg].status # "absent"
    BY <1>0, <2>1, <2>2 DEF Present, Ids, NoId, Actors
  <2> QED BY <1>0, <1>1, <2>2, <2>3 DEF OwnImages
<1>4. request # NoId => rows'[request].source = request
    BY <1>0, <1>1 DEF Present, OwnImages, Typed, RestTyped
<1>5. ASSUME NEW job \in stalled' \cup Waiting', job.kind = "deploy"
      PROVE  rows'[job.arg].source = job.arg
  <2>1. job \in Jobs
    BY <1>0 DEF Typed, WorkerTyped, JobsIn, Waiting
  <2>2. job.arg \in Ids
    BY <1>5, <2>1 DEF Jobs
  <2> QED BY <1>2, <1>3, <1>4, <1>5, <2>2, JobsMove DEF RequestEnqueue
<1>6. ASSUME active'.kind = "deploy"
      PROVE  rows'[active'.arg].source = active'.arg
  <2>1. CASE TakeJob
    <3>1. active' \in Waiting /\ active' \in Jobs
        BY <1>0, <2>1, TakeWaiting, TakeTyped DEF TakeJob, JobsIn, Typed
    <3>2. active'.arg \in Ids
        BY <1>6, <3>1 DEF Jobs
    <3> QED BY <1>2, <1>6, <3>1, <3>2
  <2>2. CASE active' = active
    BY <1>3, <1>6, <2>2
  <2>3. active' # NoJob
    BY <1>6 DEF NoJob
  <2> QED BY <2>1, <2>2, <2>3, WhoWrites DEF WritesJobs, RequestRollback, RequestEnqueue, DeleteEnqueue, Enqueue,
        Crash, Die, JobReturns, ComesBack, Finish, jobs
<1>7. ASSUME request' # NoId
      PROVE  rows'[request'].source = request'
  <2>1. ASSUME NEW d \in Ids, RequestDeploy(d)
        PROVE  rows'[d].source = d /\ request' = d
    BY <1>0, <2>1 DEF RequestDeploy, NoRow
  <2> QED BY <1>4, <1>7, <2>1, WhoWrites DEF RequestEnqueue
<1> QED BY <1>5, <1>6, <1>7

-----------------------------------------------------------------------------
(* The jobs go on *)

LEMMA QueueKeeps ==
    ASSUME Typed, [Next]_vars
    PROVE  /\ \A job \in stalled : job \in stalled' \/ [job EXCEPT !.again = TRUE] \in Waiting'
           /\ \A job \in Waiting : job \in Waiting' \/ (TakeJob /\ active' = job)
<1>0. JobsIn(Jobs) /\ queue \in Seq(Jobs)
    BY DEF Typed, WorkerTyped, JobsIn
<1>1. CASE UNCHANGED jobs \/ Finish
    BY <1>1 DEF jobs, Finish, Waiting
<1>2. ASSUME NEW kind, NEW arg, Enqueue(kind, arg)
      PROVE  stalled' = stalled /\ Waiting \subseteq Waiting'
    BY <1>0, <1>2, EnqueueWaiting DEF Enqueue
<1>3. CASE (\E d \in Ids : RequestRollback(d)) \/ RequestEnqueue \/ DeleteEnqueue
    BY <1>2, <1>3 DEF RequestRollback, RequestEnqueue, DeleteEnqueue
<1>4. CASE TakeJob
    BY <1>0, <1>4, TakeWaiting DEF TakeJob, Take
<1>5. CASE Crash
    BY <1>5 DEF Crash, Die, Waiting
<1>6. CASE JobReturns
    BY <1>0, <1>6, ComesBackWaiting, JobsAreJobs DEF JobReturns
<1> QED BY <1>1, <1>3, <1>4, <1>5, <1>6, WhoWrites DEF WritesJobs

\* How a job ends, while the stack has its row.
LEMMA JobEnds ==
    ASSUME Typed, Present, [Next]_vars, ~Gone', active # NoJob, ~Crash
    PROVE  \/ active' = active
           \/ active.kind = "rollback"
           \/ act["worker"].at = "unwatch"
           \/ act["worker"].at = "crashed" /\ RecordStack("worker")
           \/ RecordStuck
<1>0. ~Gone /\ ~EraseRow /\ act \in [Actors -> Actor] /\ {"worker", "branch"} = Actors
    BY GoneStays DEF Typed, ActTyped, Actors
<1>1. CASE Dashboard \/ Sweep \/ Recovery \/ Swarm \/ UNCHANGED vars
    BY <1>1 DEF Dashboard, RequestDeploy, RequestRollback, RequestEnqueue, RequestDelete, DeleteEnqueue,
        Enqueue, Sweep, StartBranch, FindPrevious, RecordReverted, RecordStranded, Leave, Recovery,
        RecoverRows, RecoverStack, JobReturns, ComesBack, Swarm, UpdateCompletes, UpdateRollsBack, vars, jobs
<1>2. ~TakeJob
    BY DEF TakeJob, Take
<1>3. CASE StartDeploy
  <2>1. act["worker"].at = "deploy" /\ act["worker"].row \in Ids
    BY <1>0, <1>3 DEF StartDeploy, Typed, ActTyped, Busy
  <2>2. rows[act["worker"].row].status # "absent"
    BY <1>0, <2>1 DEF Present, Ids, NoId
  <2> QED BY <1>3, <2>2 DEF StartDeploy, jobs
<1>4. CASE ReadCompose \/ Build
    BY <1>4 DEF ReadCompose, Build, jobs
<1>5. CASE Teardown
    BY <1>0, <1>5 DEF Teardown, RemoveStack, EraseThrows, jobs
<1>6. ASSUME NEW d \in Ids, Redeploy("worker", d)
      PROVE  active.kind = "rollback"
    BY <1>0, <1>6, RedeployMoves, JobInHand DEF Typed
<1>7. CASE Ship("worker")
  <2>1. CASE (\E s \in Services : Roll("worker", s)) \/ ReadVerdict("worker") \/ RecordRow("worker")
    BY <2>1 DEF Roll, ReadVerdict, RecordRow, jobs
  <2>2. CASE Throw("worker")
    <3>1. act["worker"].at \in ShipsFrom /\ active.kind \in {"deploy", "rollback"}
        BY <1>0, <1>7, ShipMoves, JobInHand DEF Typed, ShipsFrom
    <3>2. CASE act["worker"].source = NoId
        BY <2>2, <3>2 DEF Throw, jobs
    <3>3. CASE act["worker"].source # NoId
        BY <3>1, <3>3 DEF Typed, ActTyped
    <3> QED BY <3>2, <3>3
  <2>3. CASE RecordStack("worker")
    BY <2>3 DEF RecordStack, jobs
  <2>4. CASE ClearSupersededWatch("worker")
    BY <2>4 DEF ClearSupersededWatch
  <2> QED BY <1>7, <2>1, <2>2, <2>3, <2>4 DEF Ship
<1>8. ASSUME Ship("branch") \/ \E d \in Ids : Redeploy("branch", d)
      PROVE  active' = active
  <2>1. CASE Ship("branch")
    BY <2>1 DEF Ship, Roll, ReadVerdict, Throw, RecordRow, RecordStack, ClearSupersededWatch, Leave, jobs
  <2>2. CASE \E d \in Ids : Redeploy("branch", d)
    BY <2>2 DEF Redeploy, Leave, jobs
  <2> QED BY <1>8, <2>1, <2>2
<1> QED BY <1>0, <1>1, <1>2, <1>3, <1>4, <1>5, <1>6, <1>7, <1>8 DEF Next

LEMMA CrashesCount == Typed /\ [Next]_vars => crashes' = crashes \/ (Crash /\ crashes' = crashes + 1)
<1> SUFFICES ASSUME Typed, [Next]_vars, ~Crash PROVE crashes' = crashes
    BY DEF Crash, Die
<1>1. CASE Dashboard \/ TakeJob \/ StartDeploy \/ ReadCompose \/ Build \/ Sweep \/ Teardown
    BY <1>1 DEF Dashboard, RequestDeploy, RequestRollback, RequestEnqueue, RequestDelete, DeleteEnqueue,
        TakeJob, StartDeploy, ReadCompose, Build, Sweep, StartBranch, FindPrevious, RecordReverted,
        RecordStranded, Teardown, RemoveStack, EraseRow, EraseThrows, RecordStuck, worker
<1>2. CASE \E a \in Actors : Ship(a) \/ \E d \in Ids : Redeploy(a, d)
    BY <1>2 DEF Ship, Roll, ReadVerdict, Throw, RecordRow, RecordStack, ClearSupersededWatch, Redeploy, worker
<1>3. CASE Recovery \/ Swarm \/ UNCHANGED vars
    BY <1>3 DEF Recovery, RecoverRows, RecoverStack, JobReturns, Swarm, UpdateCompletes, UpdateRollsBack, vars, worker
<1> QED BY <1>1, <1>2, <1>3 DEF Next

LEMMA NoneCameBackStep == Typed /\ NoneCameBack /\ [Next]_vars => NoneCameBack'
<1> SUFFICES ASSUME Typed, NoneCameBack, [Next]_vars, crashes' = 0
             PROVE  JobsIn(FirstJobs)' /\ stalled' = {}
    BY DEF NoneCameBack
<1>1. ~Crash
    BY DEF Crash, Die, Typed, WorkerTyped
<1>2. JobsIn(FirstJobs) /\ stalled = {}
    BY <1>1, CrashesCount DEF NoneCameBack
<1>3. Typed'
    BY TypedStep
<1>4. CASE UNCHANGED jobs \/ Finish
    BY <1>2, <1>4 DEF JobsIn, FirstJobs, jobs, Finish
<1>5. ASSUME NEW kind, NEW arg, Enqueue(kind, arg)
      PROVE  JobsIn(FirstJobs)' /\ stalled' = {}
  <2>0. queue \in Seq(Jobs)
    BY DEF Typed, WorkerTyped, JobsIn
  <2> DEFINE new == [kind |-> kind, arg |-> arg, again |-> FALSE]
  <2>1. new \in Waiting'
    BY <1>5, <2>0, EnqueueWaiting
  <2>2. queue' \in Seq(Jobs)
    BY <1>3 DEF Typed, WorkerTyped, JobsIn
  <2> HIDE DEF new
  <2>3. new \in Jobs
    BY <2>1, <2>2 DEF Waiting
  <2>4. new \in FirstJobs
    BY <2>3 DEF new, FirstJobs
  <2> QED BY <1>2, <1>5, <2>4, EnqueueKeeps DEF Enqueue, new
<1>6. CASE (\E d \in Ids : RequestRollback(d)) \/ RequestEnqueue \/ DeleteEnqueue
    BY <1>5, <1>6 DEF RequestRollback, RequestEnqueue, DeleteEnqueue
<1>7. CASE TakeJob
    BY <1>2, <1>7, TakeKeeps DEF TakeJob, Take
<1>8. CASE JobReturns
    BY <1>2, <1>8 DEF JobReturns, ComesBack
<1> QED BY <1>1, <1>4, <1>6, <1>7, <1>8, WhoWrites DEF WritesJobs

\* What the status of the stack means, when a step leaves it as it is.
LEMMA StatusMoves ==
    ASSUME Typed, [Next]_vars, ~Gone'
    PROVE  /\ stack'.status = "deploying" /\ ~stack'.error =>
                (\E d \in Ids : RequestDeploy(d)) \/ (stack.status = "deploying" /\ ~stack.error)
           /\ stack'.status = "deleting" /\ ~stack'.error =>
                RequestDelete \/ (stack.status = "deleting" /\ ~stack.error)
           /\ stack'.status = "running" =>
                \/ stack.status = "running" /\ (~stack'.error => ~stack.error)
                \/ \E a \in Actors : RecordStack(a) /\ act[a].at = "current"
           /\ \A a \in Actors : RecordStack(a) =>
                \/ act[a].at = "current" /\ stack'.status = "running" /\ stack'.current = act[a].row
                \/ act[a].at = "crashed" /\ stack'.status = "crashed"
           /\ RecordStuck => stack'.error
<1>0. stack \in StackRow /\ ~Gone /\ ~EraseRow
    BY GoneStays DEF Typed, RestTyped
<1>1. /\ MarkDeploying(stack).status = "deploying"
      /\ MarkDeleting(stack).status = "deleting"
      /\ MarkCrashed(stack).status = "crashed"
      /\ \A d : LET row == [MarkRunning(stack) EXCEPT !.current = d] IN row.status = "running" /\ row.current = d
      /\ [stack EXCEPT !.error = TRUE].status = stack.status
      /\ [stack EXCEPT !.error = TRUE].error
    BY <1>0 DEF StackRow, MarkDeploying, MarkDeleting, MarkCrashed, MarkRunning
<1>2. ASSUME NEW a \in Actors, RecordStack(a)
      PROVE  \/ act[a].at = "current" /\ stack'.status = "running" /\ stack'.current = act[a].row
             \/ act[a].at = "crashed" /\ stack'.status = "crashed"
    BY <1>0, <1>1, <1>2 DEF RecordStack, UpdateStack
<1>3. ASSUME RecordStuck
      PROVE  stack'.error /\ stack'.status = stack.status
    BY <1>0, <1>1, <1>3 DEF RecordStuck, UpdateStack
<1>4. CASE RequestDelete \/ RecordStranded \/ RecoverStack \/ \E d \in Ids : RequestDeploy(d)
  <2>1. \/ (\E d \in Ids : RequestDeploy(d)) /\ stack'.status = "deploying"
        \/ RequestDelete /\ stack'.status = "deleting"
        \/ stack'.status = "crashed"
        \/ stack' = stack
    BY <1>0, <1>1, <1>4 DEF RequestDeploy, RequestDelete, RecordStranded, RecoverStack, UpdateStack
  <2> QED BY <1>2, <1>3, <2>1
<1> QED BY <1>0, <1>2, <1>3, <1>4, WhoWrites DEF WritesStack

LEMMA RememberedStep == Typed /\ Present /\ NoneCameBack /\ Remembered /\ [Next]_vars => Remembered'
<1> SUFFICES ASSUME Typed, Present, NoneCameBack, Remembered, [Next]_vars, crashes' < 2, ~stack'.error
             PROVE  /\ stack'.status = "deploying" => ToCome("deploy")' \/ request' # NoId
                    /\ stack'.status = "deleting" => ToCome("delete")' \/ deleting'
    BY DEF Remembered
<1>0. crashes \in Nat /\ JobsIn(Jobs) /\ act \in [Actors -> Actor] /\ queue \in Seq(Jobs) /\ "worker" \in Actors
    BY QueueAssumption DEF Typed, WorkerTyped, JobsIn, ActTyped, Actors
<1>1. crashes < 2 /\ (Crash => crashes = 0)
    BY <1>0, CrashesCount DEF Crash, Die
<1>2. ASSUME NEW kind \in {"deploy", "delete"}, ToCome(kind), ~Gone',
             stack'.status \in {"deploying", "deleting"}
      PROVE  ToCome(kind)'
  <2>1. ASSUME NEW job \in stalled \cup Waiting, job.kind = kind
        PROVE  ToCome(kind)'
    <3>0. job \in AnyJobs
        BY <1>0, JobsAreJobs DEF JobsIn, Waiting
    <3>1. CASE TakeJob /\ active' = job
        BY <1>2, <2>1, <3>1, TakeTyped DEF ToCome, Typed
    <3>2. CASE job \in stalled' \cup Waiting'
        BY <2>1, <3>2 DEF ToCome
    <3>3. CASE [job EXCEPT !.again = TRUE] \in Waiting'
      <4>1. [job EXCEPT !.again = TRUE].kind = kind
        BY <2>1, <3>0 DEF AnyJobs
      <4> QED BY <3>3, <4>1 DEF ToCome
    <3> QED BY <3>1, <3>2, <3>3, QueueKeeps
  <2>2. ASSUME active.kind = kind, act["worker"].at # "unwatch"
        PROVE  ToCome(kind)'
    <3>0. active # NoJob /\ active \in Jobs
        BY <1>2, <2>2, JobInHand DEF NoJob, Typed
    <3>1. CASE Crash
      <4>1. active \in FirstJobs
        BY <1>1, <3>0, <3>1 DEF NoneCameBack, JobsIn
      <4>2. active \in stalled'
        BY <3>0, <3>1, <4>1 DEF Crash, Die, FirstJobs
      <4> QED BY <2>2, <4>2 DEF ToCome
    <3>2. CASE ~Crash
      <4>1. ~RecordStack("worker") /\ ~RecordStuck
        BY <1>0, <1>2, StatusMoves
      <4>2. active' = active
        BY <1>2, <2>2, <3>0, <3>2, <4>1, JobEnds
      <4>3. act'["worker"].at # "unwatch"
        <5>1. CASE act'["worker"] \in {act["worker"], Idle}
            BY <2>2, <5>1, IdleIsActor
        <5>2. CASE Ship("worker")
          <6>1. CASE (\E s \in Services : Roll("worker", s)) \/ ReadVerdict("worker")
            BY <1>0, <6>1, RollEffect, VerdictEffect
          <6>2. CASE Throw("worker") \/ RecordRow("worker") \/ ClearSupersededWatch("worker")
            BY <1>0, <6>2, GoEffect, LeaveEffect, IdleIsActor DEF Throw, RecordRow, ClearSupersededWatch,
                Moved, Places, Recording
          <6> QED BY <4>1, <5>2, <6>1, <6>2 DEF Ship
        <5>3. CASE \E d \in Ids : Redeploy("worker", d)
            BY <1>0, <5>3, RedeployMoves, IdleIsActor
        <5>4. CASE TakeJob \/ StartDeploy \/ ReadCompose \/ Build \/ Teardown
            BY <5>4, TakeTyped, WorkerMoves, BuildMoves, JobsAreJobs DEF Typed, AnyJobs, JobKinds
        <5>5. ASSUME NEW b \in Actors, b # "worker", Others(b)
              PROVE  act'["worker"] = act["worker"]
            BY <1>0, <5>5 DEF Others
        <5> QED BY <1>0, <3>2, <5>1, <5>2, <5>3, <5>4, <5>5, WhoMoves DEF Actors
      <4> QED BY <2>2, <4>2, <4>3 DEF ToCome
    <3> QED BY <3>1, <3>2
  <2> QED BY <1>2, <2>1, <2>2 DEF ToCome
<1>3. ASSUME stack'.status = "deploying"
      PROVE  ToCome("deploy")' \/ request' # NoId
  <2>0. ~Gone'
    BY <1>3 DEF Gone
  <2>1. CASE \E d \in Ids : RequestDeploy(d)
    BY <2>1 DEF RequestDeploy, Ids, NoId
  <2>2. CASE RequestEnqueue
    <3>1. [kind |-> "deploy", arg |-> request, again |-> FALSE] \in Waiting'
        BY <1>0, <2>2, EnqueueWaiting DEF RequestEnqueue
    <3> QED BY <3>1 DEF ToCome
  <2>3. CASE request' = request
    <3>1. ToCome("deploy") \/ request # NoId \/ \E d \in Ids : RequestDeploy(d)
        BY <1>1, <1>3, <2>0, StatusMoves DEF Remembered
    <3> QED BY <1>2, <1>3, <2>0, <2>1, <2>3, <3>1
  <2> QED BY <2>1, <2>2, <2>3, WhoWrites
<1>4. ASSUME stack'.status = "deleting"
      PROVE  ToCome("delete")' \/ deleting'
  <2>0. ~Gone'
    BY <1>4 DEF Gone
  <2>1. CASE RequestDelete
    BY <2>1 DEF RequestDelete
  <2>2. CASE DeleteEnqueue
    <3>1. [kind |-> "delete", arg |-> NoId, again |-> FALSE] \in Waiting'
        BY <1>0, <2>2, EnqueueWaiting DEF DeleteEnqueue
    <3> QED BY <3>1 DEF ToCome
  <2>3. CASE deleting' = deleting
    <3>1. ToCome("delete") \/ deleting \/ RequestDelete
        BY <1>1, <1>4, <2>0, StatusMoves DEF Remembered
    <3> QED BY <1>2, <1>4, <2>0, <2>1, <2>3, <3>1
  <2> QED BY <2>1, <2>2, <2>3, WhoWrites
<1> QED BY <1>3, <1>4

-----------------------------------------------------------------------------
(* How far a rollout has come *)

LEMMA RolledOutStep == Typed /\ Present /\ Alone /\ ShipsRow /\ RolledOut /\ [Next]_vars => RolledOut'
<1> SUFFICES ASSUME Typed, Present, Alone, ShipsRow, RolledOut, [Next]_vars,
                    doubt' = {}, ~Gone',
                    NEW a \in Actors, act'[a].at \in Shipping \cup {"accepted", "current"}
             PROVE  RollsOut(a)'
    BY DEF RolledOut, RollsOut, Gone, Shipping
<1>0. /\ act \in [Actors -> Actor] /\ {"worker", "branch"} = Actors /\ swarm \in [Services -> Service]
      /\ ~Gone /\ ~EraseRow /\ act'[a].at \in Exposed /\ act'[a] # Idle
    BY GoneStays, IdleIsActor DEF Typed, ActTyped, RestTyped, Actors, Exposed, Shipping
\* It begins.
<1>1. CASE a = "worker" /\ Build
    BY <1>1, BuildMoves DEF RollsOut
<1>2. CASE \E d \in Ids : Redeploy(a, d)
    BY <1>0, <1>2, RedeployMoves DEF RollsOut
\* It goes on, and the other actor ships nothing.
<1>3. CASE ~(a = "worker" /\ Build) /\ ~\E d \in Ids : Redeploy(a, d)
  <2>1. act[a].at \in Exposed /\ act[a].at \in Shipping \cup Recording
    BY <1>0, <1>3, ExposedMoves DEF Exposed, Recording
  <2>2. ASSUME RemoveStack
        PROVE  doubt = {} /\ swarm' = swarm
    <3>1. a = "branch" /\ act["branch"] = act'["branch"]
        BY <1>0, <2>1, <2>2, RemovalMoves DEF Exposed, Shipping, Others
    <3> QED BY <1>0, <2>2, <3>1, RemovalIsTold
  <2>3. doubt = {}
    <3>1. ~Build
        BY <1>0, <1>3, <2>1, BuildMoves
    <3>2. ASSUME NEW b \in Actors, NEW d \in Ids, Redeploy(b, d), act'[b].at = "rolling"
          PROVE  FALSE
        BY <1>3, <2>1, <3>2, RedeployMoves, IdleIsActor
    <3> QED BY <2>2, <3>1, <3>2, DoubtGrows
  <2>4. RollsOut(a) /\ \A b \in Actors \ {a} : act[b].at \notin Exposed
    BY <1>0, <2>1, <2>3 DEF RolledOut, Alone
  <2>5. act[a].at \in Shipping \cup {"accepted", "current"} => act[a].todo \subseteq act[a].keys /\ act[a].keys \subseteq Services
        /\ (act[a].at \in Shipping => act[a].todo # {})
    <3>1. act[a].keys \in {{}} \cup Files
        BY <1>0 DEF Actor
    <3> QED BY <1>0, <3>1, StacksAssumption DEF ShipsRow, ShipsItsRow
  <2>6. CASE act'[a] = act[a] /\ swarm' = swarm
    BY <2>4, <2>6 DEF RollsOut, Shipped
  <2>7. ASSUME NEW s \in Services, Roll(a, s)
        PROVE  RollsOut(a)'
    <3>1. /\ act[a].at = "rolling" /\ act'[a].image = act[a].image /\ act'[a].keys = act[a].keys
          /\ \/ act'[a].at = "verdict" /\ act'[a].todo = act[a].keys /\ act[a].todo \ {s} = {}
             \/ act'[a].at = "rolling" /\ act'[a].todo = act[a].todo \ {s}
        BY <1>0, <2>7, RollEffect
    <3>2. swarm'[s].image = act[a].image
        BY <1>0, <2>7 DEF Roll, NoService
    <3>3. \A t \in Services \ {s} : swarm'[t] = swarm[t]
        BY <1>0, <2>7 DEF Roll
    <3>4. \A t \in act[a].keys \ act[a].todo : Shipped(a, t) \/ swarm[t].update = "rolled_back"
        BY <2>4, <3>1 DEF RollsOut
    <3>5. \A t \in act[a].keys \ (act[a].todo \ {s}) : swarm'[t].image = act[a].image \/ swarm'[t].update = "rolled_back"
        BY <2>5, <3>1, <3>2, <3>3, <3>4 DEF Shipped, Shipping
    <3> QED BY <3>1, <3>5 DEF RollsOut, Shipped
  <2>8. CASE ReadVerdict(a)
    <3>1. swarm' = swarm /\ act[a].at = "verdict"
        BY <2>8 DEF ReadVerdict
    <3>2. PICK s \in act[a].todo :
          /\ act'[a].todo = act[a].todo \ {s}
          /\ ~act'[a].refused => ~act[a].refused /\ swarm[s].update # "rolled_back"
          /\ \/ act'[a].todo # {} /\ act'[a].at = "verdict"
             \/ act'[a].todo = {} /\ act'[a].at = "refused"
             \/ act'[a].todo = {} /\ ~act'[a].refused /\ act'[a].at = "accepted"
          /\ act'[a].image = act[a].image /\ act'[a].keys = act[a].keys
        BY <1>0, <2>8, VerdictEffect
    <3>3. ~act'[a].refused => \A t \in act[a].keys :
            swarm[t].image = act[a].image \/ (t \in act[a].todo \ {s} /\ swarm[t].update = "rolled_back")
        BY <2>4, <3>1, <3>2 DEF RollsOut, Shipped
    <3> QED BY <3>1, <3>2, <3>3 DEF RollsOut, Shipped
  <2>9. CASE RecordRow(a)
    <3>1. Moved(a, "current") /\ act[a].at = "accepted" /\ swarm' = swarm
        BY <1>0, <2>9, GoEffect DEF RecordRow, Moved, Places, Recording, Shipping
    <3> QED BY <2>4, <3>1 DEF RollsOut, Shipped, Moved
  <2>10. ASSUME NEW s \in Services, UpdateCompletes(s)
         PROVE  RollsOut(a)'
    <3>1. act' = act /\ swarm[s].update = "updating" /\ swarm'[s].image = swarm[s].image
          /\ \A t \in Services \ {s} : swarm'[t] = swarm[t]
        BY <1>0, <2>10 DEF UpdateCompletes, Service
    <3>2. \A t \in act[a].keys : Shipped(a, t) => swarm'[t].image = act[a].image
        BY <1>0, <2>5, <3>1 DEF Shipped
    <3>3. \A t \in act[a].keys : swarm[t].update = "rolled_back" => swarm'[t].update = "rolled_back"
        BY <1>0, <2>5, <3>1
    <3> QED BY <2>4, <3>1, <3>2, <3>3 DEF RollsOut, Shipped
  <2>11. ASSUME NEW s \in Services, UpdateRollsBack(s)
         PROVE  RollsOut(a)'
    <3>1. act' = act /\ swarm'[s].update = "rolled_back" /\ \A t \in Services \ {s} : swarm'[t] = swarm[t]
        BY <1>0, <2>11 DEF UpdateRollsBack
    <3>2. \E b \in Actors : act[b].at = "rolling" \/ (act[b].at = "verdict" /\ s \in act[b].todo)
        BY <2>11 DEF UpdateRollsBack
    <3>3. act[a].at = "rolling" \/ (act[a].at = "verdict" /\ s \in act[a].todo)
        BY <2>4, <3>2 DEF Exposed, Shipping
    <3> QED BY <2>4, <2>5, <3>1, <3>3 DEF RollsOut, Shipped, Shipping
  <2>12. act'[a] = act[a] \/ ReadVerdict(a) \/ RecordRow(a) \/ \E s \in Services : Roll(a, s)
    <3>1. ~(Throw(a) \/ RecordStack(a) \/ ClearSupersededWatch(a))
        BY <1>0, GoEffect, LeaveEffect, IdleIsActor DEF Throw, RecordStack, ClearSupersededWatch,
            Moved, Places, Recording, Shipping
    <3>2. ~(a = "worker" /\ (TakeJob \/ StartDeploy \/ ReadCompose \/ Teardown)) /\ ~(a = "branch" /\ Sweep)
        BY TakeTyped, WorkerMoves, SweepMoves, JobsAreJobs DEF Typed, AnyJobs, JobKinds, Shipping
    <3>3. ASSUME NEW b \in Actors, b # a, Others(b)
          PROVE  act'[a] = act[a]
        BY <3>3 DEF Others
    <3> QED BY <1>0, <1>3, <3>1, <3>2, <3>3, WhoMoves DEF Ship
  <2>13. \/ swarm' = swarm
         \/ (\E s \in Services : Roll(a, s))
         \/ \E s \in Services : UpdateCompletes(s) \/ UpdateRollsBack(s)
    <3>1. ~RemoveStack \/ swarm' = swarm
        BY <2>2
    <3>2. ASSUME NEW b \in Actors, NEW s \in Services, Roll(b, s)
          PROVE  b = a
        BY <2>4, <3>2 DEF Roll, Exposed, Shipping
    <3> QED BY <3>1, <3>2, WhoWrites DEF WritesSwarm
  <2>14. ReadVerdict(a) \/ RecordRow(a) => swarm' = swarm
    BY DEF ReadVerdict, RecordRow
  <2> QED BY <2>6, <2>7, <2>8, <2>9, <2>10, <2>11, <2>12, <2>13
<1> QED BY <1>1, <1>2, <1>3

-----------------------------------------------------------------------------
(* A stack that reads running *)

\* The worker in a job that is to be done again, or in one that a crash brings back.
LEMMA CrashHalfDone ==
    ASSUME Typed, Crash, HalfDone, doubt' = {}
    PROVE  HalfDone'
<1>0. act \in [Actors -> Actor] /\ {"worker", "branch"} = Actors
    BY DEF Typed, ActTyped, Actors
<1>1. ~active.again /\ \A a \in Actors : act[a].source # NoId => act[a].at \notin Shipping \cup Recording
    BY DEF Crash
<1>2. stalled \subseteq stalled' /\ Waiting' = Waiting /\ (active # NoJob => active \in stalled')
    BY <1>1 DEF Crash, Die, Waiting
<1>3. ASSUME NEW a \in Actors, act[a].at \in Telling
      PROVE  active # NoJob /\ active.kind = "deploy"
  <2>1. act[a].at \in Shipping \cup Recording /\ act[a].source = NoId
    BY <1>1, <1>3 DEF Telling
  <2>2. a = "worker"
    BY <1>0, <2>1 DEF Typed, ActTyped, Ids, NoId
  <2>3. active.kind # "rollback"
    BY <2>1, <2>2 DEF Typed, ActTyped, Ids, NoId
  <2> QED BY <2>1, <2>2, <2>3, JobInHand DEF Typed, NoJob
<1>4. ASSUME act["worker"].at \in {"erasing", "stuck"}
      PROVE  active # NoJob /\ active.kind = "delete"
    BY <1>4, JobInHand DEF Typed, NoJob
<1>5. \/ \E job \in stalled' : job.kind \in {"deploy", "delete"}
      \/ \E job \in Waiting' : job.kind \in {"deploy", "delete"} /\ job.again
    BY <1>1, <1>2, <1>3, <1>4 DEF HalfDone
<1> QED BY <1>5 DEF HalfDone

\* What is half done stays so until it is told, while the stack claims to run.
LEMMA StillHalfDone ==
    ASSUME Typed, Present, [Next]_vars, HalfDone, doubt' = {}, ~Gone', stack'.status = "running", ~stack'.error,
           ~\E a \in Actors : RecordStack(a) /\ act[a].at = "current"
    PROVE  HalfDone'
<1>0. act \in [Actors -> Actor] /\ {"worker", "branch"} = Actors /\ ~Gone /\ ~EraseRow
    BY GoneStays DEF Typed, ActTyped, Actors
<1>1. CASE Crash
    BY <1>1, CrashHalfDone
<1>2. ASSUME NEW a \in Actors, act[a].at \in Telling, ~Crash
      PROVE  HalfDone'
  <2>0. act[a].at \in Shipping \cup Recording
    BY <1>2 DEF Telling
  <2>1. CASE act'[a] = act[a]
    BY <1>2, <2>1 DEF HalfDone
  <2>2. CASE (\E s \in Services : Roll(a, s)) \/ ReadVerdict(a)
    <3>1. act'[a].at \in Telling
        BY <1>0, <2>2, RollEffect, VerdictEffect DEF Telling, Shipping, Recording
    <3> QED BY <3>1 DEF HalfDone
  <2>3. CASE Throw(a)
    <3>1. act'[a].at = "failed"
        BY <1>0, <2>3, GoEffect DEF Throw, Moved, Places, Recording
    <3> QED BY <3>1 DEF HalfDone, Telling, Recording
  <2>4. CASE RecordRow(a)
    <3>1. act'[a].at \in {"current", "crashed"}
        BY <1>0, <2>4, GoEffect DEF RecordRow, Moved, Places, Recording
    <3> QED BY <3>1 DEF HalfDone, Telling, Recording
  <2>5. ~RecordStack(a) /\ ~ClearSupersededWatch(a)
    BY <1>2, StatusMoves DEF ClearSupersededWatch, Telling, Shipping, Recording
  <2>6. ~\E d \in Ids : Redeploy(a, d)
    BY <2>0, RedeployMoves DEF Shipping, Recording
  <2>7. a = "worker" => ~(TakeJob \/ StartDeploy \/ ReadCompose \/ Build \/ Teardown)
    BY <2>0, JobInHand, JobsAreJobs DEF TakeJob, Take, StartDeploy, ReadCompose, Build, Teardown, RemoveStack, EraseRow,
        EraseThrows, RecordStuck, Shipping, Recording, Typed
  <2>8. a = "branch" => ~Sweep
    BY <2>0, SweepMoves DEF Shipping, Recording
  <2>9. ASSUME NEW b \in Actors, b # a, Others(b)
        PROVE  act'[a] = act[a]
    BY <2>9 DEF Others
  <2> QED BY <1>0, <1>2, <2>1, <2>2, <2>3, <2>4, <2>5, <2>6, <2>7, <2>8, <2>9, WhoMoves DEF Ship
<1>3. ASSUME act["worker"].at \in {"erasing", "stuck"}, ~Crash
      PROVE  HalfDone'
  <2>1. ~RecordStuck
    BY StatusMoves
  <2>2. ~(TakeJob \/ StartDeploy \/ ReadCompose \/ Build \/ RemoveStack)
    BY <1>3, JobInHand, JobsAreJobs DEF TakeJob, Take, StartDeploy, ReadCompose, Build, RemoveStack, Typed
  <2>3. ~Ship("worker") /\ ~\E d \in Ids : Redeploy("worker", d)
    BY <1>0, <1>3, ShipMoves, RedeployMoves DEF ShipsFrom, Shipping, Recording
  <2>4. Others("branch") => act'["worker"] = act["worker"]
    BY <1>0 DEF Others
  <2>5. CASE EraseThrows
    <3>1. act'["worker"].at = "stuck"
        BY <1>0, <2>5, GoEffect DEF EraseThrows, Moved, Places
    <3> QED BY <3>1 DEF HalfDone
  <2>6. CASE ~EraseThrows
    <3>1. act'["worker"] = act["worker"]
        BY <1>0, <1>3, <2>1, <2>2, <2>3, <2>4, <2>6, WhoMoves DEF Teardown
    <3> QED BY <1>3, <3>1 DEF HalfDone
  <2> QED BY <2>5, <2>6
<1>4. ASSUME active.again, act["worker"].at \in {"deploy", "compose", "build", "delete"}, ~Crash
      PROVE  HalfDone'
  <2>0. active \in Jobs /\ active # NoJob
    BY <1>4, JobInHand, JobsAreJobs DEF Typed
  <2>1. ~RecordStuck /\ act["worker"].at \notin {"unwatch", "crashed"} /\ active.kind # "rollback"
    BY <1>4, JobInHand, StatusMoves DEF Typed
  <2>2. active' = active
    BY <1>4, <2>0, <2>1, JobEnds
  <2>3. CASE act'["worker"] = act["worker"]
    BY <1>4, <2>2, <2>3 DEF HalfDone
  <2>4. CASE StartDeploy
    <3>1. act'["worker"].at \in {"compose", "idle"}
        BY <1>0, <2>4, GoEffect, LeaveEffect, IdleIsActor DEF StartDeploy, Moved, Places
    <3>2. ~Leave("worker")
        BY <2>0, <2>2 DEF Leave, Finish
    <3>3. act'["worker"].at = "compose"
        BY <1>0, <2>4, <3>2, GoEffect DEF StartDeploy, Moved, Places
    <3> QED BY <1>4, <2>2, <3>3 DEF HalfDone
  <2>5. CASE ReadCompose
    <3>1. act'["worker"].at = "build"
        BY <1>0, <2>5, GoEffect DEF ReadCompose, Moved, Places
    <3> QED BY <1>4, <2>2, <3>1 DEF HalfDone
  <2>6. CASE Build
    <3>1. act'["worker"].at \in Telling
        BY <2>6, BuildMoves DEF Telling, Shipping
    <3> QED BY <1>0, <3>1 DEF HalfDone
  <2>7. CASE Throw("worker")
    <3>1. active.kind = "deploy"
        BY <1>4, <2>7, JobInHand DEF Throw, Shipping, Typed
    <3>2. act["worker"].source = NoId
        BY <3>1 DEF Typed, ActTyped
    <3>3. act'["worker"].at = "failed"
        BY <1>0, <2>7, <3>2, GoEffect DEF Throw, Moved, Places, Recording
    <3>4. act'["worker"].at \in Telling
        BY <3>3 DEF Telling, Recording
    <3> QED BY <1>0, <3>4 DEF HalfDone
  <2>8. CASE RemoveStack
    <3>1. act'["worker"].at \in {"erasing", "stuck"}
        BY <1>0, <2>8, GoEffect DEF RemoveStack, Moved, Places
    <3> QED BY <3>1 DEF HalfDone
  <2>9. ~TakeJob /\ ~EraseRow /\ ~EraseThrows /\ ~RecordStuck
    BY <1>0, <1>4, <2>0, <2>1 DEF TakeJob, Take, EraseThrows
  <2>10. ~\E d \in Ids : Redeploy("worker", d)
    BY <1>0, <1>4, RedeployMoves
  <2>11. Ship("worker") => Throw("worker")
    BY <1>4 DEF Ship, Roll, ReadVerdict, RecordRow, RecordStack, ClearSupersededWatch
  <2>12. Others("branch") => act'["worker"] = act["worker"]
    BY <1>0 DEF Others
  <2> QED BY <1>0, <1>4, <2>3, <2>4, <2>5, <2>6, <2>7, <2>8, <2>9, <2>10, <2>11, <2>12, WhoMoves DEF Teardown
<1>5. ASSUME NEW job \in stalled, job.kind \in {"deploy", "delete"}
      PROVE  HalfDone'
  <2>1. job \in AnyJobs
    BY JobsAreJobs DEF Typed, WorkerTyped, JobsIn
  <2>2. [job EXCEPT !.again = TRUE].kind = job.kind /\ [job EXCEPT !.again = TRUE].again
    BY <2>1 DEF AnyJobs
  <2> QED BY <1>5, <2>2, QueueKeeps DEF HalfDone
<1>6. ASSUME NEW job \in Waiting, job.kind \in {"deploy", "delete"}, job.again
      PROVE  HalfDone'
  <2>1. CASE job \in Waiting'
    BY <1>6, <2>1 DEF HalfDone
  <2>2. CASE TakeJob /\ active' = job
    BY <1>6, <2>2, TakeTyped DEF HalfDone, Typed
  <2> QED BY <2>1, <2>2, QueueKeeps
<1> QED BY <1>1, <1>2, <1>3, <1>4, <1>5, <1>6 DEF HalfDone

LEMMA RunningIsCurrentStep ==
    Typed /\ Present /\ ShipsRow /\ RolledOut /\ RunningIsCurrent /\ [Next]_vars => RunningIsCurrent'
<1> SUFFICES ASSUME Typed, Present, ShipsRow, RolledOut, RunningIsCurrent, [Next]_vars PROVE RunningIsCurrent'
    OBVIOUS
<1>0. /\ act \in [Actors -> Actor] /\ {"worker", "branch"} = Actors /\ rows \in [Ids -> Row]
      /\ swarm \in [Services -> Service] /\ stack \in StackRow
    BY DEF Typed, ActTyped, RestTyped, Actors
<1>1. ~Gone' => ~Gone /\ ~EraseRow /\ \A e \in Ids : rows[e].status # "absent" =>
        rows'[e].source = rows[e].source /\ (rows[e].keys # {} => rows'[e].keys = rows[e].keys)
    BY GoneStays, RowsKept
\* The current row, and the row that becomes it.
<1>2. ASSUME NEW a \in Actors, RecordStack(a), act[a].at = "current", ~Gone'
      PROVE  /\ act[a].row \in Ids /\ act[a].row # NoId /\ stack'.current = act[a].row
             /\ rows' = rows /\ swarm' = swarm /\ doubt' = doubt
             /\ rows[act[a].row].keys = act[a].keys /\ act[a].keys # {}
             /\ act[a].image = rows[act[a].row].source
  <2>1. act[a].row \in Ids
    BY <1>2 DEF Typed, ActTyped, Busy, Recording
  <2>2. ShipsItsRow(a)
    BY <1>1, <1>2 DEF ShipsRow
  <2> QED BY <1>2, <2>1, <2>2, StatusMoves DEF RecordStack, ShipsItsRow, Ids, NoId
<1>3. ~Gone' /\ stack'.current = stack.current /\ stack.current # NoId =>
        /\ rows'[stack.current].keys = rows[stack.current].keys
        /\ rows[stack.current].keys # {}
        /\ rows'[stack.current].source = rows[stack.current].source
  <2>1. stack.current \in Ids \cup {NoId}
    BY <1>0 DEF StackRow
  <2> QED BY <1>1, <2>1 DEF RunningIsCurrent, Present
<1>4. ASSUME stack'.status = "running"
      PROVE  stack'.current # NoId /\ ~Gone'
  <2>1. ~Gone'
    BY <1>4 DEF Gone
  <2> QED BY <1>1, <1>2, <1>4, <2>1, StatusMoves, CurrentMoves DEF RunningIsCurrent
<1>5. ASSUME ~Gone', stack'.current # NoId
      PROVE  rows'[stack'.current].keys # {}
    BY <1>1, <1>2, <1>3, <1>5, CurrentMoves
<1>6. ASSUME Claims'
      PROVE  ServesCurrent' \/ HalfDone'
  <2>0. ~Gone' /\ ~Gone /\ ~EraseRow /\ doubt' = {} /\ stack'.status = "running" /\ ~stack'.error
    BY <1>1, <1>6 DEF Claims, Gone
  <2>1. ASSUME NEW a \in Actors, RecordStack(a), act[a].at = "current"
        PROVE  ServesCurrent' \/ HalfDone'
    <3>1. CASE act["worker"].at = "erasing"
      <4>1. a = "branch" /\ Others(a)
        BY <1>0, <2>1, <3>1, GoEffect DEF RecordStack, Moved, Places, Recording
      <4>2. act'["worker"] = act["worker"]
        BY <1>0, <4>1 DEF Others
      <4> QED BY <3>1, <4>2 DEF HalfDone
    <3>2. CASE act["worker"].at # "erasing"
      <4>1. RollsOut(a)
        BY <1>2, <2>0, <2>1, <3>2 DEF RolledOut
      <4>2. \A s \in act[a].keys : swarm[s].image = act[a].image
        BY <2>1, <4>1 DEF RollsOut, Shipped
      <4>3. \A s \in rows'[stack'.current].keys : swarm'[s].image = rows'[stack'.current].source
        BY <1>2, <2>0, <2>1, <4>2
      <4> QED BY <4>3 DEF ServesCurrent
    <3> QED BY <3>1, <3>2
  <2>2. CASE ~\E a \in Actors : RecordStack(a) /\ act[a].at = "current"
    <3>1. stack.status = "running" /\ ~stack.error /\ stack'.current = stack.current /\ stack.current # NoId
        BY <2>0, <2>2, StatusMoves, CurrentMoves DEF RunningIsCurrent
    <3>2. CASE doubt # {}
      <4>1. CASE Build
        BY <1>0, <4>1, BuildMoves DEF HalfDone, Telling, Shipping
      <4>2. ASSUME NEW a \in Actors, NEW d \in Ids, Redeploy(a, d), act'[a].at = "rolling"
            PROVE  HalfDone'
        BY <4>2 DEF HalfDone, Telling, Shipping
      <4>3. CASE RemoveStack
        <5>1. act'["worker"].at \in {"erasing", "stuck"}
            BY <1>0, <2>0, <4>3, GoEffect DEF RemoveStack, Moved, Places
        <5> QED BY <5>1 DEF HalfDone
      <4> QED BY <2>0, <3>2, <4>1, <4>2, <4>3, DoubtGrows
    <3>3. CASE doubt = {} /\ HalfDone
        BY <2>0, <2>2, <3>3, StillHalfDone
    <3>4. CASE doubt = {} /\ ServesCurrent
      <4>1. ASSUME \A s \in rows[stack.current].keys : swarm'[s].image = swarm[s].image
            PROVE  ServesCurrent'
        BY <1>3, <2>0, <3>1, <3>4, <4>1 DEF ServesCurrent
      <4>2. rows[stack.current].keys \subseteq Services
        <5>1. stack.current \in Ids
            BY <1>0, <3>1 DEF StackRow
        <5>2. rows[stack.current].keys \in {{}} \cup Files
            BY <1>0, <5>1 DEF Row
        <5> QED BY <5>2, StacksAssumption
      <4>3. ASSUME NEW a \in Actors, NEW s \in Services, Roll(a, s)
            PROVE  HalfDone'
        <5>1. act'[a].at \in Telling
            BY <1>0, <4>3, RollEffect DEF Telling, Shipping
        <5> QED BY <5>1 DEF HalfDone
      <4>4. CASE RemoveStack
        <5>1. act'["worker"].at \in {"erasing", "stuck"}
            BY <1>0, <2>0, <4>4, GoEffect DEF RemoveStack, Moved, Places
        <5> QED BY <5>1 DEF HalfDone
      <4>5. ASSUME NEW s \in Services, UpdateCompletes(s)
            PROVE  \A t \in Services : swarm'[t].image = swarm[t].image
        BY <1>0, <4>5 DEF UpdateCompletes, Service
      <4>6. ASSUME NEW s \in Services, UpdateRollsBack(s)
            PROVE  HalfDone'
        <5>1. act' = act /\ \E a \in Actors : act[a].at \in Telling
            BY <2>0, <4>6 DEF UpdateRollsBack, Telling, Shipping
        <5> QED BY <5>1 DEF HalfDone
      <4>7. CASE swarm' = swarm
        BY <4>1, <4>7
      <4> QED BY <4>1, <4>2, <4>3, <4>4, <4>5, <4>6, <4>7, WhoWrites DEF WritesSwarm
    <3> QED BY <3>1, <3>2, <3>3, <3>4 DEF RunningIsCurrent, Claims
  <2> QED BY <2>1, <2>2
<1> QED BY <1>4, <1>5, <1>6 DEF RunningIsCurrent, Gone

-----------------------------------------------------------------------------
(* The theorems *)

LEMMA InitIInv == Init => IInv
<1> SUFFICES ASSUME Init PROVE IInv
    OBVIOUS
<1>0. Typed /\ 1 \in Ids /\ NoId \notin Ids
    BY InitTyped, StacksAssumption DEF Ids, NoId
<1>1. PICK keys \in Files, served \in BOOLEAN :
         /\ stack = [status |-> IF served THEN "running" ELSE "crashed",
                     error |-> ~served, current |-> IF served THEN 1 ELSE NoId]
         /\ rows = [d \in Ids |-> IF d > 1 THEN NoRow
              ELSE [status |-> IF served THEN "succeeded" ELSE "failed", keys |-> keys,
                    built |-> served, source |-> 1, watch |-> FALSE]]
         /\ swarm = [s \in Services |-> IF served /\ s \in keys
              THEN [NoService EXCEPT !.image = 1] ELSE NoService]
    BY DEF Init
<1>2. /\ \A a \in Actors : act[a] = Idle
      /\ queue = <<>> /\ Waiting = {} /\ stalled = {} /\ active = NoJob /\ process = "up"
      /\ request = NoId /\ ~deleting /\ "worker" \in Actors /\ "branch" \in Actors
    BY DEF Init, QueueInit, Waiting, Actors
<1>3. ~Gone /\ stack.status \in {"running", "crashed"} /\ (stack.status = "running" => served /\ stack.current = 1)
      /\ stack.current \in {1, NoId} /\ active.kind = "none"
    BY <1>1, <1>2 DEF Gone, NoJob
<1>4. keys # {} /\ keys \subseteq Services
    BY StacksAssumption
<1>5. rows[1].status # "absent" /\ rows[1].keys = keys /\ rows[1].source = 1
    BY <1>0, <1>1
<1>6. \A d \in Ids : rows[d].status \notin {"building", "deploying"}
    BY <1>1 DEF NoRow
<1>7. Idle.at = "idle" /\ Idle.row = NoId
    BY IdleIsActor
<1>8. served => \A s \in keys : swarm[s].image = 1
    BY <1>1, <1>4 DEF NoService
<1>9. Owned
    BY <1>6 DEF Owned
<1>10. Present /\ OwnImages
    BY <1>0, <1>2, <1>3, <1>5, <1>7 DEF Present, OwnImages
<1>11. TornDown /\ Alone
    BY <1>2, <1>3, <1>7 DEF TornDown, Alone, Exposed, Shipping
<1>12. ShipsRow /\ RolledOut
    BY <1>2, <1>7 DEF ShipsRow, RolledOut, RollsOut, Shipping
<1>13. RunningIsCurrent
    BY <1>0, <1>2, <1>3, <1>4, <1>5, <1>8 DEF RunningIsCurrent, Claims, ServesCurrent
<1>14. NoneCameBack /\ Remembered
    BY <1>2, <1>3 DEF NoneCameBack, JobsIn, Remembered
<1> QED BY <1>0, <1>9, <1>10, <1>11, <1>12, <1>13, <1>14 DEF IInv

LEMMA IInvAlways == Spec => []IInv
<1>1. IInv /\ [Next]_vars => IInv'
    BY TypedStep, OwnedStep, PresentStep, TornDownStep, AloneStep, ShipsRowStep, RolledOutStep,
        RunningIsCurrentStep, OwnImagesStep, NoneCameBackStep, RememberedStep DEF IInv
<1> QED BY <1>1, InitIInv, PTL DEF Spec

\* A deployment reads building or deploying only while an actor works on it,
\* until the worker starts again, or because a redeploy threw and left it.
THEOREM OwnerAlways == Spec => []InFlightHasOwner
<1>1. IInv => InFlightHasOwner
    BY DEF IInv, Owned, InFlightHasOwner, Unsettled, Shipping
<1> QED BY <1>1, IInvAlways, PTL

\* When the row of a stack is gone no service of it is in the cluster, and none
\* comes back, unless a branch shipped the stack while it was removed.
THEOREM GoneForGood == Spec => []GoneLeavesNothing
<1>1. IInv => GoneLeavesNothing
    BY DEF IInv, TornDown, GoneLeavesNothing, NoService
<1> QED BY <1>1, IInvAlways, PTL

\* A stack at rest that reads running runs, service by service, what its
\* current deployment built, however many services, deployments, rollbacks,
\* reverts and crashes came before: unless two actors shipped at once, Swarm
\* gave a service up after its verdict, a redeploy was cut off, or a teardown
\* that did not finish removed services whose rollout was being recorded.
THEOREM RunningServed == Spec => []ServedIsCurrent
<1>1. ASSUME IInv, Still, stack.status = "running", ~stack.error, doubt = {}
      PROVE  \A s \in rows[stack.current].keys : swarm[s].image = rows[stack.current].source
  <2>1. Typed /\ RunningIsCurrent /\ Claims
    BY <1>1 DEF IInv, Claims
  <2>2. Waiting = {} /\ stalled = {} /\ active = NoJob
    BY <1>1 DEF Still, Quiet, Waiting
  <2>3. \A a \in Actors : act[a].at = "idle"
    BY <1>1, <2>1, <2>2, JobInHand, JobsAreJobs, IdleIsActor DEF Still, Typed, Actors
  <2>4. ~HalfDone
    BY <2>2, <2>3 DEF HalfDone, Telling, Shipping, Recording, Actors
  <2> QED BY <2>1, <2>4 DEF RunningIsCurrent, ServesCurrent
<1>2. IInv => ServedIsCurrent
    BY <1>1 DEF ServedIsCurrent
<1> QED BY <1>2, IInvAlways, PTL

\* The stack never reads deploying or deleting with nobody left to end it,
\* wherever the worker died, once: after a second death of the same job
\* BullMQ gives it up and no row tells.
THEOREM NoneForgotten == Spec => []NothingForgotten
<1>1. ASSUME IInv, Quiet, crashes < 2, request = NoId, ~deleting
      PROVE  stack.status \notin {"deploying", "deleting"} \/ stack.error
  <2>1. Waiting = {} /\ stalled = {} /\ active.kind = "none"
    BY <1>1 DEF Quiet, Waiting, NoJob
  <2> QED BY <1>1, <2>1 DEF IInv, Remembered, ToCome
<1>2. IInv => NothingForgotten
    BY <1>1 DEF NothingForgotten
<1> QED BY <1>2, IInvAlways, PTL
================================================================================
