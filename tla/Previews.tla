------------------------------ MODULE Previews ------------------------------
(***************************************************************************)
(* Preview environments: a service of its own per open pull request.  The  *)
(* forge announces what happens to a pull request, the dashboard handles    *)
(* every delivery in a request of its own, beside the others, and for every *)
(* target of the delivery at once (Promise.all); the deploy worker ships    *)
(* and tears down what they queue.  A preview is a row of `services', so    *)
(* what tears services down or counts them sees it too.                     *)
(*                                                                          *)
(* A delivery comes by one of two routes.  The hook of a service has that   *)
(* service as its target; the hook of a git provider has every service of   *)
(* the repository, and a preview copies its parent's repository.            *)
(*                                                                          *)
(* How a job is redelivered and how a deployment ends are ServiceDeploy's;  *)
(* here a deployment ships or fails.                                        *)
(***************************************************************************)
EXTENDS Integers, Sequences, FiniteSets, Lifecycle, JobQueue

CONSTANTS
    PREVIEW_LIMIT,   \* previews there may be, in all projects (5 in the code)
    PullRequests,    \* pull requests of the repository
    NoRequest,       \* prNumber of a service that previews none
    MaxServices,     \* bound: previews ever created
    MaxEvents,       \* bound: what the forge and the operator do
    Instances        \* what to check side by side, see Instance

\* An instance: by which hook deliveries come, what else happens (the operator
\* deletes a service, or deploys, starts and stops a preview; a step throws), and the
\* bound on events.
Instance == [route : {"service", "provider"}, requests : SUBSET {"delete", "operate", "throw"},
             events : 0..MaxEvents]

ASSUME PreviewsAssumption ==
    /\ PREVIEW_LIMIT \in Nat
    /\ NoRequest \notin PullRequests
    /\ MaxServices \in Nat \ {0}
    /\ MaxEvents \in Nat
    /\ Instances \subseteq Instance

Production == 0                        \* the service that is previewed
Previews   == 1..MaxServices
Services   == {Production} \cup Previews
NoService  == -1

VARIABLES
    instance,     \* one of Instances
    services,     \* the rows of `services', ids in the order of createdAt
    environment,  \* the project has its environment called preview
    pull,         \* the pull requests, as the forge has them
    sent,         \* deliveries that are on their way
    events,       \* how much the forge and the operator have done
    branches,     \* what the dashboard does: one record per delivery and target
    place,        \* where the worker stands in its job
    served,       \* what Swarm runs of each preview
    refused,      \* history: pull requests the limit left without a preview of Production
    doubt         \* history: what set previews and pull requests apart

forge == <<pull, sent, events>>
vars  == <<instance, services, environment, forge, branches, jobs, worker, place, served, refused, doubt>>

-----------------------------------------------------------------------------
(* Types *)

Row == [ status : {"absent", "gone"} \cup RESOURCE_STATUSES,
         error  : BOOLEAN,
         of     : Services \cup {NoService},        \* previewOfServiceId
         pr     : PullRequests \cup {NoRequest},    \* prNumber
         domain : BOOLEAN,                          \* it has a URL
         env    : BOOLEAN ]                         \* the variables were copied

NoRow   == [status |-> "absent", error |-> FALSE, of |-> NoService, pr |-> NoRequest,
            domain |-> FALSE, env |-> FALSE]
Erased  == [NoRow EXCEPT !.status = "gone"]

Delivery == [n : 1..MaxEvents, pr : PullRequests, closed : BOOLEAN]

Places   == { "parent", "existing", "count",                       \* ensurePreview
              "environment", "environments", "insert", "domain", "env",
              "queue", "mark", "enqueue",                          \* queueServiceDeploy
              "closed", "deleting", "removing" }                   \* destroyPreview

\* The steps that know the pull request; the others know the service.
Asking == { "parent", "existing", "count", "environment", "environments", "insert", "closed" }

Branch == [ n       : 1..MaxEvents,                    \* the event it answers
            pr      : PullRequests \cup {NoRequest},
            target  : Services,
            service : Services \cup {NoService},           \* the preview it is about
            pc      : Places ]

JobKinds == {"deploy", "delete", "lifecycle"}
Job      == [kind : JobKinds, arg : Services, again : BOOLEAN]

TypeOK ==
    /\ instance \in Instances
    /\ services \in [Services -> Row]
    /\ environment \in BOOLEAN
    /\ pull \in [PullRequests -> {"none", "open", "closed"}]
    /\ sent \subseteq Delivery
    /\ events \in 0..MaxEvents
    /\ branches \subseteq Branch
    /\ \A b \in branches : IF b.pc \in Asking THEN b.pr \in PullRequests ELSE b.service \in Services
    /\ queue \in Seq(Job)
    /\ active \in Job \cup {NoJob}
    /\ place \in {"idle", "deploy", "record", "failed", "delete", "erase", "lifecycle"}
    /\ place # "idle" => active \in Job
    /\ served \in [Services -> {"no", "partial", "whole"}]
    /\ refused \subseteq PullRequests
    /\ doubt \subseteq {"order", "overlap", "revived", "late", "thrown", "operator", "stuck", "nested"}

-----------------------------------------------------------------------------
(* Helpers *)

Exists(i) == services[i].status \notin {"absent", "gone"}

\* UPDATE ... WHERE id = i: no row, no effect.
Update(i, row) ==
    services' = IF Exists(i) THEN [services EXCEPT ![i] = row] ELSE services

PreviewsOf(target, pr) ==
    {i \in Previews : Exists(i) /\ services[i].of = target /\ services[i].pr = pr}

\* What counts against the limit, whichever service it is a preview of.
Live == {i \in Previews : Exists(i) /\ services[i].status # "deleting"}

\* ON DELETE CASCADE: the row, its previews, and theirs.
Under(i) ==
    LET under[j \in Previews] ==
          \/ services[j].of = i
          \/ services[j].of \in Previews /\ services[j].of < j /\ under[services[j].of]
    IN  {j \in Previews : under[j]}

\* A branch returns, or moves on.
Leave(b)         == branches' = branches \ {b}
Go(b, pc)        == branches' = (branches \ {b}) \cup {[b EXCEPT !.pc = pc]}
GoWith(b, pc, i) == branches' = (branches \ {b}) \cup {[b EXCEPT !.pc = pc, !.service = i]}

\* The pull request a branch handles for Production.
Asked(b) == {p \in PullRequests : p = b.pr /\ b.target = Production}

Note(cause) == doubt' = doubt \cup {cause}

\* A statement is refused by the database: the branch throws, the others of
\* the delivery go on.
Rejected(b) ==
    /\ Leave(b)
    /\ Note("thrown")
    /\ UNCHANGED <<services, environment>>

-----------------------------------------------------------------------------
(* The forge *)

Announce(p, closed) ==
    /\ events < instance.events
    /\ events' = events + 1
    /\ sent' = sent \cup {[n |-> events + 1, pr |-> p, closed |-> closed]}
    /\ UNCHANGED <<instance, services, environment, branches, jobs, worker, place, served, refused, doubt>>

\* opened or reopened
Open(p) ==
    /\ pull[p] # "open"
    /\ pull' = [pull EXCEPT ![p] = "open"]
    /\ Announce(p, FALSE)

\* synchronize
Push(p) ==
    /\ pull[p] = "open"
    /\ UNCHANGED pull
    /\ Announce(p, FALSE)

\* closed or merged
Close(p) ==
    /\ pull[p] = "open"
    /\ pull' = [pull EXCEPT ![p] = "closed"]
    /\ Announce(p, TRUE)

-----------------------------------------------------------------------------
(* The dashboard *)

\* handleWebhook: a branch for each target there is at that moment.  In doubt
\* are deliveries of one pull request that do not come one after the other.
Receive(d) ==
    /\ d \in sent
    /\ sent' = sent \ {d}
    /\ LET targets == {i \in Services : Exists(i) /\ (instance.route = "provider" \/ i = Production)}
       IN  branches' = branches \cup
             {[n |-> d.n, pr |-> d.pr, target |-> i, service |-> NoService,
               pc |-> IF d.closed THEN "closed" ELSE "parent"] : i \in targets}
    /\ IF (\E e \in sent : e.pr = d.pr /\ e.n < d.n) \/ (\E b \in branches : b.pr = d.pr)
       THEN Note("order") ELSE UNCHANGED doubt
    /\ UNCHANGED <<instance, services, environment, pull, events, jobs, worker, place, served, refused>>

\* It was marked deleting, whatever it reads by now.
GoingOut(i) ==
    \/ services[i].status = "deleting"
    \/ Pending("delete", i)
    \/ \E b \in branches : b.pc = "removing" /\ b.service = i

rest == <<instance, forge, worker, place, served>>

\* ensurePreview: a parent without a domain has no previews, ...
LookAtParent(b) ==
    /\ b.pc = "parent"
    /\ IF Exists(b.target) /\ services[b.target].domain THEN Go(b, "existing") ELSE Leave(b)
    /\ UNCHANGED <<services, environment, refused, doubt, jobs, rest>>

\* Mutant: whatever preview the parent has.
LookForAny(b) ==
    /\ b.pc = "existing"
    /\ LET found == {i \in Previews : Exists(i) /\ services[i].of = b.target} IN
       \/ found = {} /\ Go(b, "count") /\ UNCHANGED doubt
       \/ \E i \in found :
            /\ GoWith(b, "queue", i)
            /\ IF GoingOut(i) THEN Note("revived") ELSE UNCHANGED doubt
    /\ UNCHANGED <<services, environment, refused, jobs, rest>>

\* ... a pull request that has one gets a deployment of it, ...
LookForExisting(b) ==
    /\ b.pc = "existing"
    /\ LET found == PreviewsOf(b.target, b.pr) IN
       \/ found = {} /\ Go(b, "count") /\ UNCHANGED doubt
       \/ \E i \in found :
            /\ GoWith(b, "queue", i)
            /\ IF GoingOut(i) THEN Note("revived") ELSE UNCHANGED doubt
    /\ UNCHANGED <<services, environment, refused, jobs, rest>>

Counted == {b \in branches : b.pc \in {"environment", "environments", "insert"}}

\* Mutant: the limit is one of each parent.
CountOfParent(b) ==
    /\ b.pc = "count"
    /\ \/ /\ Cardinality({i \in Live : services[i].of = b.target}) >= PREVIEW_LIMIT
          /\ Leave(b)
          /\ refused' = refused \cup Asked(b)
          /\ UNCHANGED doubt
       \/ /\ Cardinality({i \in Live : services[i].of = b.target}) < PREVIEW_LIMIT
          /\ Go(b, "environment")
          /\ IF Counted = {} THEN UNCHANGED doubt ELSE Note("overlap")
          /\ UNCHANGED refused
    /\ UNCHANGED <<services, environment, jobs, rest>>

\* ... and the others one of their own, up to the limit.  In doubt is a count
\* that misses a preview another branch is about to insert.
Count(b) ==
    /\ b.pc = "count"
    /\ \/ /\ Cardinality(Live) >= PREVIEW_LIMIT
          /\ Leave(b)
          /\ refused' = refused \cup Asked(b)
          /\ UNCHANGED doubt
       \/ /\ Cardinality(Live) < PREVIEW_LIMIT
          /\ Go(b, "environment")
          /\ IF Counted = {} THEN UNCHANGED doubt ELSE Note("overlap")
          /\ UNCHANGED refused
    /\ UNCHANGED <<services, environment, jobs, rest>>

\* previewEnvironment: found, or inserted, and (project, name) is unique.
LookForEnvironment(b) ==
    /\ b.pc = "environment"
    /\ Go(b, IF environment THEN "insert" ELSE "environments")
    /\ UNCHANGED <<services, environment, refused, doubt, jobs, rest>>

InsertEnvironment(b) ==
    /\ b.pc = "environments"
    /\ \/ environment /\ Rejected(b)
       \/ /\ ~environment
          /\ environment' = TRUE
          /\ Go(b, "insert")
          /\ UNCHANGED <<services, doubt>>
    /\ UNCHANGED <<refused, jobs, rest>>

\* createPreview: the row, which (parent, number) makes unique, ...
Insert(b) ==
    /\ b.pc = "insert"
    /\ \/ (~Exists(b.target) \/ PreviewsOf(b.target, b.pr) # {}) /\ Rejected(b) /\ UNCHANGED refused
       \/ /\ Exists(b.target) /\ PreviewsOf(b.target, b.pr) = {}
          /\ \E i \in Previews :
               /\ services[i].status = "absent"
               /\ \A j \in Previews : j < i => services[j].status # "absent"
               /\ services' = [services EXCEPT ![i] =
                    [NoRow EXCEPT !.status = "created", !.of = b.target, !.pr = b.pr]]
               /\ GoWith(b, "domain", i)
          /\ refused' = refused \ Asked(b)
          /\ IF b.target = Production THEN UNCHANGED doubt ELSE Note("nested")
          /\ UNCHANGED environment
    /\ UNCHANGED <<jobs, rest>>

\* ... its domain, ...
InsertDomain(b) ==
    /\ b.pc = "domain"
    /\ \/ ~Exists(b.service) /\ Rejected(b)
       \/ /\ Exists(b.service)
          /\ services' = [services EXCEPT ![b.service].domain = TRUE]
          /\ Go(b, "env")
          /\ UNCHANGED <<environment, doubt>>
    /\ UNCHANGED <<refused, jobs, rest>>

\* ... and the parent's variables, in one transaction.
CopyEnvVars(b) ==
    /\ b.pc = "env"
    /\ \/ ~Exists(b.service) /\ Rejected(b)
       \/ /\ Exists(b.service)
          /\ services' = [services EXCEPT ![b.service].env = TRUE]
          /\ Go(b, "queue")
          /\ UNCHANGED <<environment, doubt>>
    /\ UNCHANGED <<refused, jobs, rest>>

\* queueServiceDeploy: the service is looked up and a deployment inserted, ...
QueueDeploy(b) ==
    /\ b.pc = "queue"
    /\ \/ ~Exists(b.service) /\ Rejected(b)
       \/ Exists(b.service) /\ Go(b, "mark") /\ UNCHANGED <<services, environment, doubt>>
    /\ UNCHANGED <<refused, jobs, rest>>

\* ... the service marked, although it may be on its way out, ...
MarkPreview(b) ==
    /\ b.pc = "mark"
    /\ Update(b.service, MarkDeploying(services[b.service]))
    /\ Go(b, "enqueue")
    /\ IF GoingOut(b.service) THEN Note("revived") ELSE UNCHANGED doubt
    /\ UNCHANGED <<environment, refused, jobs, rest>>

\* ... and the job enqueued.
EnqueueDeploy(b) ==
    /\ b.pc = "enqueue"
    /\ Enqueue("deploy", b.service)
    /\ Leave(b)
    /\ UNCHANGED <<services, environment, refused, doubt, rest>>

\* destroyPreview: looked up, ...
LookForClosed(b) ==
    /\ b.pc = "closed"
    /\ LET found == PreviewsOf(b.target, b.pr) IN
       \/ found = {} /\ Leave(b)
       \/ \E i \in found : GoWith(b, "deleting", i)
    /\ refused' = refused \ Asked(b)
    /\ UNCHANGED <<services, environment, doubt, jobs, rest>>

\* ... marked, ...
MarkDeleted(b) ==
    /\ b.pc = "deleting"
    /\ Update(b.service, MarkDeleting(services[b.service]))
    /\ Go(b, "removing")
    /\ UNCHANGED <<environment, refused, doubt, jobs, rest>>

\* ... and the job enqueued.
EnqueueDelete(b) ==
    /\ b.pc = "removing"
    /\ Enqueue("delete", b.service)
    /\ Leave(b)
    /\ UNCHANGED <<services, environment, refused, doubt, rest>>

\* deleteService, by which the operator removes a preview or the service it is
\* a preview of: the last two steps above.
RequestDelete(i) ==
    /\ "delete" \in instance.requests
    /\ Exists(i)
    /\ events < instance.events
    /\ events' = events + 1
    /\ branches' = branches \cup
         {[n |-> events + 1, pr |-> NoRequest, target |-> i, service |-> i, pc |-> "deleting"]}
    /\ Note("operator")
    /\ UNCHANGED <<services, environment, pull, sent, refused, jobs, instance, worker, place, served>>

\* The operator asks for a deployment of a preview, queueServiceDeploy, ...
RequestDeploy(i) ==
    /\ "operate" \in instance.requests
    /\ Exists(i)
    /\ events < instance.events
    /\ events' = events + 1
    /\ branches' = branches \cup
         {[n |-> events + 1, pr |-> NoRequest, target |-> i, service |-> i, pc |-> "queue"]}
    /\ Note("operator")
    /\ UNCHANGED <<services, environment, pull, sent, refused, jobs, instance, worker, place, served>>

\* ... or for a start, stop or restart, triggerLifecycle, whatever its row reads.
RequestLifecycle(i) ==
    /\ "operate" \in instance.requests
    /\ Exists(i)
    /\ events < instance.events
    /\ events' = events + 1
    /\ Enqueue("lifecycle", i)
    /\ Note("operator")
    /\ UNCHANGED <<services, environment, pull, sent, branches, refused, instance, worker, place, served>>

\* Postgres or Redis refuses a step, or the dashboard stops: nobody repeats
\* the delivery.
Throw(b) ==
    /\ "throw" \in instance.requests
    /\ Leave(b)
    /\ Note("thrown")
    /\ UNCHANGED <<services, environment, refused, jobs, rest>>

Handle(b) ==
    \/ LookAtParent(b) \/ LookForExisting(b) \/ Count(b)
    \/ LookForEnvironment(b) \/ InsertEnvironment(b) \/ Insert(b) \/ InsertDomain(b) \/ CopyEnvVars(b)
    \/ QueueDeploy(b) \/ MarkPreview(b) \/ EnqueueDeploy(b)
    \/ LookForClosed(b) \/ MarkDeleted(b) \/ EnqueueDelete(b)
    \/ Throw(b)

-----------------------------------------------------------------------------
(* The deploy worker *)

idle == <<instance, environment, forge, branches, worker, refused>>

TakeJob ==
    /\ Take
    /\ place' = Head(queue).kind
    /\ UNCHANGED <<services, served, doubt, idle>>

\* runDeploy: the row is gone and it throws, the build fails, or Swarm has it
\* with the domain and the variables the row has now.
Deploy ==
    /\ place = "deploy"
    /\ \/ ~Exists(active.arg) /\ Finish /\ place' = "idle" /\ UNCHANGED served
       \/ Exists(active.arg) /\ place' = "failed" /\ UNCHANGED <<served, jobs>>
       \/ /\ Exists(active.arg)
          /\ served' = [served EXCEPT ![active.arg] =
               IF services[active.arg].domain /\ services[active.arg].env
               THEN "whole" ELSE "partial"]
          /\ place' = "record"
          /\ UNCHANGED jobs
    /\ UNCHANGED <<services, doubt, idle>>

\* What came of it, whatever the row reads by now.
Record ==
    /\ place \in {"record", "failed"}
    /\ Update(active.arg, IF place = "record" THEN MarkRunning(services[active.arg])
                                              ELSE MarkCrashed(services[active.arg]))
    /\ IF services[active.arg].status = "deleting" THEN Note("late") ELSE UNCHANGED doubt
    /\ Finish
    /\ place' = "idle"
    /\ UNCHANGED <<served, idle>>

\* applyLifecycleAction: a start or a stop of what Swarm has is written over any
\* status; a restart, a service Swarm does not have, a throw leave the row.
ApplyLifecycle ==
    /\ place = "lifecycle"
    /\ \/ UNCHANGED <<services, doubt>>
       \/ /\ served[active.arg] # "no"
          /\ \E row \in {MarkRunning(services[active.arg]), MarkStopped(services[active.arg])} :
               Update(active.arg, row)
          /\ IF services[active.arg].status = "deleting" THEN Note("late") ELSE UNCHANGED doubt
    /\ Finish
    /\ place' = "idle"
    /\ UNCHANGED <<served, idle>>

\* runServiceTeardown: the Swarm service, ...
RemoveService ==
    /\ place = "delete"
    /\ \/ ~Exists(active.arg) /\ Finish /\ place' = "idle" /\ UNCHANGED served
       \/ /\ Exists(active.arg)
          /\ served' = [served EXCEPT ![active.arg] = "no"]
          /\ place' = "erase"
          /\ UNCHANGED jobs
    /\ UNCHANGED <<services, doubt, idle>>

\* ... then the row, with the rows of its previews.
EraseRow ==
    /\ place = "erase"
    /\ services' = [i \in Services |->
         IF i = active.arg \/ (i \in Under(active.arg) /\ Exists(i)) THEN Erased ELSE services[i]]
    /\ Finish
    /\ place' = "idle"
    /\ UNCHANGED <<served, doubt, idle>>

\* Either throws, with what it was to remove removed or not; the row says so.
TeardownThrows ==
    /\ place \in {"delete", "erase"}
    /\ Update(active.arg, MarkStuck(services[active.arg]))
    /\ UNCHANGED served \/ served' = [served EXCEPT ![active.arg] = "no"]
    /\ Note("stuck")
    /\ Finish
    /\ place' = "idle"
    /\ UNCHANGED idle

Work == TakeJob \/ Deploy \/ Record \/ ApplyLifecycle \/ RemoveService \/ EraseRow \/ TeardownThrows

-----------------------------------------------------------------------------
Init ==
    /\ instance \in Instances
    /\ services = [i \in Services |->
         IF i = Production THEN [NoRow EXCEPT !.status = "running", !.domain = TRUE, !.env = TRUE]
                           ELSE NoRow]
    /\ environment = FALSE
    /\ pull = [p \in PullRequests |-> "none"]
    /\ sent = {}
    /\ events = 0
    /\ branches = {}
    /\ QueueInit
    /\ place = "idle"
    /\ served = [i \in Services |-> IF i = Production THEN "whole" ELSE "no"]
    /\ refused = {}
    /\ doubt = {}

Next ==
    \/ \E p \in PullRequests : Open(p) \/ Push(p) \/ Close(p)
    \/ \E d \in sent : Receive(d)
    \/ \E b \in branches : Handle(b)
    \/ \E i \in Services : RequestDelete(i)
    \/ \E i \in Previews : RequestDeploy(i) \/ RequestLifecycle(i)
    \/ Work

Spec == Init /\ [][Next]_vars

-----------------------------------------------------------------------------
(* Properties *)

\* Never more previews than PREVIEW_LIMIT, over all services they belong to:
\* unless two branches counted before either inserted, or a preview that was
\* being deleted, and so not counted, was marked deploying by a delivery or the
\* operator, or running or stopped by a job that ended late.
CapHolds == doubt \cap {"overlap", "revived", "late"} = {} => Cardinality(Live) <= PREVIEW_LIMIT

\* Once all deliveries are handled and all jobs done, the previews are those
\* of the open pull requests, but for the ones the limit refused; each was
\* shipped with its domain and variables, or its deployment failed, and Swarm
\* runs none without a row: however the deliveries of several pull requests
\* and their jobs interleaved.  In doubt are deliveries of one pull request
\* that overlapped or overtook each other, one that came while its preview was
\* being deleted, a step that threw, the operator, and previews of previews.
Still == sent = {} /\ branches = {} /\ Quiet

PreviewsFollowRequests ==
    Still /\ doubt \subseteq {"overlap", "late"} =>
        /\ \A i \in Previews :
             Exists(i) => pull[services[i].pr] = "open" /\ services[i].pr \notin refused
        /\ \A p \in PullRequests : pull[p] = "open" =>
             \/ p \in refused
             \/ \E i \in PreviewsOf(Production, p) :
                  served[i] = "whole" \/ services[i].status = "crashed"
        /\ \A i \in Previews : served[i] # "no" => Exists(i)

-----------------------------------------------------------------------------
(* What the repository says and the code does not do *)

\* "synchronize -> same preview redeployed, not a second one"
\* (apps/dashboard/src/verify-webhook.ts:517): a pull request of the repository
\* has one preview of the service, also when all its deliveries come one after
\* the other.
OnePreview ==
    doubt \subseteq {"nested"} =>
    \A p \in PullRequests : Cardinality({i \in Previews : Exists(i) /\ services[i].pr = p}) <= 1
=============================================================================
