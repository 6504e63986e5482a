---------------------------- MODULE ImageRetention ----------------------------
(***************************************************************************)
(* The images of one service: what its history offers for a redeploy, what  *)
(* the registry and the hosts still hold, and the two cleaners between      *)
(* them.  The hourly one (sweepRegistry) deletes manifests of the embedded  *)
(* registry beyond the newest KEEP_PER_SERVICE; the daily one (pruneDocker) *)
(* prunes the hosts and marks the rows whose image is on none of them.      *)
(*                                                                          *)
(* Both are jobs of the deploy queue, so no build runs beside them.  The    *)
(* branch of the watch sweep that ships an earlier image does.              *)
(*                                                                          *)
(* A tag carries the time it was made, so that no two builds share one; a    *)
(* redeploy copies the tag of an earlier row.  Two tags may stand for one    *)
(* digest: a build that finds every layer in the cache yields the same image *)
(* again.                                                                    *)
(***************************************************************************)
EXTENDS Integers, Sequences, FiniteSets, JobQueue

CONSTANTS
    Hosts,           \* servers, all of them connected
    Instances,       \* what to check side by side, see Instance
    KEEP_PER_SERVICE,
    MaxDeployments,  \* bound: rows of `deployments'
    MaxTags          \* bound: images resolved

JobKinds == {"deploy", "rollback", "stop", "prune-registry", "prune-docker"}

\* The registry of the installation, one the team brought along, or none: then
\* an image stays on the host that built it.
HomeKinds == {"embedded", "external", "host"}

\* An instance: the servers, where images may live, the jobs that are asked
\* for, and the bounds on rows and crashes.
Instance == [hosts : SUBSET Hosts, homes : SUBSET HomeKinds, requests : SUBSET JobKinds,
             rows : 0..MaxDeployments, crashes : 0..MaxCrashes]

ASSUME ImageAssumption ==
    /\ Instances \subseteq Instance
    /\ KEEP_PER_SERVICE \in Nat \ {0}
    /\ MaxDeployments \in Nat \ {0}
    /\ MaxTags \in Nat \ {0}

Ids    == 1..MaxDeployments
Tags   == 1..MaxTags
NoId   == 0
NoTag  == 0
Actors == {"worker", "branch"}

VARIABLES
    instance,   \* one of Instances
    rows,       \* the rows of `deployments', ids in the order of createdAt
    current,    \* currentDeploymentId of the service
    image,      \* image[t]: where tag t belongs, and what was built under it
    manifests,  \* tags the registries answer for
    on,         \* on[h]: tags of the images on host h
    served,     \* the tag of the Swarm service, and whether it has replicas
    act,        \* where each actor stands
    doubt       \* history: what no row tells

held  == <<image, manifests, on>>
steps == <<rows, current, held, served, jobs, worker, act, doubt>>
vars  == <<instance, steps>>

Requests == instance.requests

-----------------------------------------------------------------------------
(* Types *)

Row == [ status : {"absent", "queued", "building", "deploying", "succeeded",
                   "rolled_back", "failed", "reverted_by_watch"},
         tag    : Tags \cup {NoTag},   \* imageTag
         purged : BOOLEAN ]            \* imagePurged

NoRow   == [status |-> "absent", tag |-> NoTag, purged |-> FALSE]
NoImage == [home |-> "none", digest |-> NoTag]

Places == {"idle", "deploy", "source", "build", "push", "rollback", "rollout",
           "accepted", "current", "refused", "failed", "stop",
           "prune-registry", "rows", "manifests", "mark",
           "prune-docker", "survey", "looping"}

Actor == [ at      : Places,
           row     : Ids \cup {NoId},
           tag     : Tags \cup {NoTag}, \* the image it ships, or deletes
           pointer : Ids \cup {NoId},  \* the currentDeploymentId it read
           ids     : SUBSET Ids,       \* the rows of the tags that are to go
           todo    : SUBSET Tags,      \* tags to delete
           hosts   : SUBSET Hosts,     \* hosts to survey
           present : SUBSET Tags,      \* tags it saw on the others
           fully   : BOOLEAN ]         \* every host has answered so far
Idle  == [at |-> "idle", row |-> NoId, tag |-> NoTag, pointer |-> NoId, ids |-> {},
          todo |-> {}, hosts |-> {}, present |-> {}, fully |-> TRUE]

TypeOK ==
    /\ instance \in Instances
    /\ rows \in [Ids -> Row]
    /\ current \in Ids \cup {NoId}
    /\ image \in [Tags -> [home : HomeKinds, digest : Tags \cup {NoTag}] \cup {NoImage}]
    /\ manifests \subseteq Tags
    /\ on \in [Hosts -> SUBSET Tags]
    /\ served \in [tag : Tags \cup {NoTag}, up : BOOLEAN]
    /\ JobsOK(JobKinds, Ids \cup Tags \cup {NoId})
    /\ act \in [Actors -> Actor]
    /\ (act["worker"].at = "idle") = (active = NoJob)
    /\ doubt \subseteq {"shared", "raced", "cut", "missing", "rebuilt", "moved"}

-----------------------------------------------------------------------------
(* Helpers *)

Go(a, at) == act' = [act EXCEPT ![a].at = at]

Leave(a) ==
    /\ act' = [act EXCEPT ![a] = Idle]
    /\ IF a = "worker" THEN Finish ELSE UNCHANGED jobs

Inserts(d) ==
    /\ d <= instance.rows
    /\ rows[d].status = "absent"
    /\ \A e \in 1..(d - 1) : rows[e].status # "absent"

\* A host can start a container from this tag.
Available(tag) == tag \in manifests \/ \E h \in Hosts : tag \in on[h]

\* The history, newest row first, as the sweep goes through it: a tag comes
\* where its newest row does, and rows that are marked are left out.
Offers(t) == {d \in Ids : rows[d].tag = t /\ ~rows[d].purged}
Listed    == {t \in Tags : image[t].home = "embedded" /\ Offers(t) # {}}
Newer(t)  == {u \in Listed : \E d \in Offers(u) : \A e \in Offers(t) : d > e}

\* The worker is between its first look at a service and its last mark.
Sweeping == act["worker"].at \in {"rows", "manifests", "mark"}

-----------------------------------------------------------------------------
(* The dashboard and the schedules *)

\* queueServiceDeploy, up to the job.
RequestDeploy(d) ==
    /\ "deploy" \in Requests
    /\ Inserts(d)
    /\ rows' = [rows EXCEPT ![d].status = "queued"]
    /\ Enqueue("deploy", d)
    /\ UNCHANGED <<current, held, served, worker, act, doubt>>

\* triggerRollback asks for an image, not whether it is marked.
RequestRollback(d) ==
    /\ "rollback" \in Requests
    /\ rows[d].tag # NoTag
    /\ Enqueue("rollback", rows[d].tag)
    /\ UNCHANGED <<rows, current, held, served, worker, act, doubt>>

\* The schedules, and triggerLifecycle.
RequestJob(kind) ==
    /\ kind \in Requests \cap {"stop", "prune-registry", "prune-docker"}
    /\ Enqueue(kind, NoId)
    /\ UNCHANGED <<rows, current, held, served, worker, act, doubt>>

TakeJob ==
    /\ Take
    /\ act' = [act EXCEPT !["worker"] =
         [Idle EXCEPT !.at  = Head(queue).kind,
                      !.row = IF Head(queue).kind = "deploy" THEN Head(queue).arg ELSE NoId,
                      !.tag = IF Head(queue).kind = "rollback" THEN Head(queue).arg ELSE NoTag]]
    /\ UNCHANGED <<rows, current, held, served, worker, doubt>>

\* A stop, as far as images are concerned.
Stop ==
    /\ act["worker"].at = "stop"
    /\ \/ served' = [served EXCEPT !.up = FALSE]
       \/ UNCHANGED served
    /\ Leave("worker")
    /\ UNCHANGED <<rows, current, held, worker, doubt>>

-----------------------------------------------------------------------------
(* runDeploy *)

StartDeploy ==
    LET d == act["worker"].row IN
    /\ act["worker"].at = "deploy"
    /\ rows' = [rows EXCEPT ![d].status = "building"]
    /\ Go("worker", "source")
    /\ UNCHANGED <<current, held, served, jobs, worker, doubt>>

\* The tag is made, and onImageResolved stores it before anything is built.  A
\* job that came back makes a new one, and leaves the mark of the row as it is.
ResolveImage ==
    LET d == act["worker"].row
        unused == {t \in Tags : image[t] = NoImage} IN
    /\ act["worker"].at = "source"
    /\ \E t \in unused, home \in instance.homes :
         /\ \A u \in unused : t <= u
         /\ rows' = [rows EXCEPT ![d].status = "deploying", ![d].tag = t]
         /\ act' = [act EXCEPT !["worker"].at = "build", !["worker"].tag = t]
         /\ image' = [image EXCEPT ![t].home = home]
    /\ doubt' = IF rows[d].purged THEN doubt \cup {"rebuilt"} ELSE doubt
    /\ UNCHANGED <<current, manifests, on, served, jobs, worker>>

\* The image is on the host that built it, and may be an old one under a new
\* name, in the same repository.
Build ==
    LET t == act["worker"].tag IN
    /\ act["worker"].at = "build"
    /\ \E digest \in {t} \cup ({image[u].digest : u \in {v \in Tags : image[v].home = image[t].home}} \ {NoTag}) :
         image' = [image EXCEPT ![t].digest = digest]
    /\ \E h \in instance.hosts : on' = [on EXCEPT ![h] = @ \cup {t}]
    /\ Go("worker", IF image[t].home = "host" THEN "rollout" ELSE "push")
    /\ UNCHANGED <<rows, current, manifests, served, jobs, worker, doubt>>

\* pushImage, and removeLocal.
Push ==
    LET t == act["worker"].tag IN
    /\ act["worker"].at = "push"
    /\ manifests' = manifests \cup {t}
    /\ on' = [h \in Hosts |-> on[h] \ {t}]
    /\ Go("worker", "rollout")
    /\ UNCHANGED <<rows, current, image, served, jobs, worker, doubt>>

-----------------------------------------------------------------------------
(* redeployImage, for a rollback or a revert *)

\* The tag of a branch is that of the last deployment that succeeded before;
\* nothing looks whether it is marked, or whether the image is there.
Redeploy(a, d) ==
    /\ act[a].at = "rollback"
    /\ Inserts(d)
    /\ rows' = [rows EXCEPT ![d] = [status |-> "deploying", tag |-> act[a].tag, purged |-> FALSE]]
    /\ act' = [act EXCEPT ![a].at = "rollout", ![a].row = d]
    /\ doubt' = doubt
         \cup (IF image[act[a].tag].home = "embedded" /\ act[a].tag \notin manifests
               THEN {"missing"} ELSE {})
         \cup (IF Sweeping THEN {"raced"} ELSE {})
    /\ UNCHANGED <<current, held, served, jobs, worker>>

\* Swarm's part: the update converges where the image is to be had, and a host
\* keeps what it pulled.  The verdict may be read before that is known, but
\* not for a service that is only created.
Rollout(a) ==
    LET tag == act[a].tag IN
    /\ act[a].at = "rollout"
    /\ \/ /\ Available(tag)
          /\ served' = [tag |-> tag, up |-> TRUE]
          /\ \/ tag \notin manifests /\ UNCHANGED on
             \/ tag \in manifests /\ \E h \in instance.hosts : on' = [on EXCEPT ![h] = @ \cup {tag}]
          /\ Go(a, "accepted")
       \/ UNCHANGED <<served, on>> /\ Go(a, "refused")
       \/ UNCHANGED <<served, on>> /\ served.tag # NoTag /\ Go(a, "accepted")
    /\ UNCHANGED <<rows, current, image, manifests, jobs, worker, doubt>>

\* Whatever throws in runDeploy is recorded; in redeployImage the row stays.
Throw(a) ==
    /\ act[a].at \in {"source", "build", "push", "rollout"}
    /\ IF a = "worker" /\ active.kind = "deploy"
       THEN Go(a, "failed") /\ UNCHANGED jobs
       ELSE Leave(a)
    /\ UNCHANGED <<rows, current, held, served, worker, doubt>>

\* recordAcceptedService, recordRefusedService, recordFailedService: the row, ...
RecordRow(a) ==
    LET d == act[a].row IN
    /\ \/ act[a].at = "accepted" /\ rows' = [rows EXCEPT ![d].status = "succeeded"]
          /\ Go(a, "current") /\ UNCHANGED jobs
       \/ act[a].at = "refused" /\ rows' = [rows EXCEPT ![d].status = "rolled_back"] /\ Leave(a)
       \/ act[a].at = "failed" /\ rows' = [rows EXCEPT ![d].status = "failed"] /\ Leave(a)
    /\ UNCHANGED <<current, held, served, worker, doubt>>

\* ... and the pointer.
RecordCurrent(a) ==
    /\ act[a].at = "current"
    /\ current' = act[a].row
    /\ Leave(a)
    /\ doubt' = IF Sweeping THEN doubt \cup {"moved"} ELSE doubt
    /\ UNCHANGED <<rows, held, served, worker>>

-----------------------------------------------------------------------------
(* The branch of the watch sweep that ships an earlier image *)

StartBranch(d) ==
    /\ process = "up"
    /\ act["branch"] = Idle
    /\ rows[d].status = "succeeded"
    /\ \E e \in 1..(d - 1) :
         /\ rows[e].status = "succeeded"
         /\ \A f \in (e + 1)..(d - 1) : rows[f].status # "succeeded"
         /\ act' = [act EXCEPT !["branch"] =
              [Idle EXCEPT !.at = "looping", !.row = d, !.tag = rows[e].tag]]
    /\ UNCHANGED <<rows, current, held, served, jobs, worker, doubt>>

RecordReverted ==
    /\ act["branch"].at = "looping"
    /\ rows' = [rows EXCEPT ![act["branch"].row].status = "reverted_by_watch"]
    /\ Go("branch", "rollback")
    /\ UNCHANGED <<current, held, served, jobs, worker, doubt>>

-----------------------------------------------------------------------------
(* sweepRegistry *)

\* The services are read, ...
ReadServices ==
    /\ act["worker"].at = "prune-registry"
    /\ act' = [act EXCEPT !["worker"].at = "rows", !["worker"].pointer = current]
    /\ UNCHANGED <<rows, current, held, served, jobs, worker, doubt>>

\* Mutant: the image that is served has no privilege.
tagsToPurgeOnRank(currentTag) ==
    {t \in Listed : Cardinality(Newer(t)) >= KEEP_PER_SERVICE}

\* Mutant: one fewer is kept.
tagsToPurgeOffByOne(currentTag) ==
    {t \in Listed : t # currentTag /\ Cardinality(Newer(t)) >= KEEP_PER_SERVICE - 1}

\* Tags of the embedded registry beyond the newest, but for the current one.
tagsToPurge(currentTag) ==
    {t \in Listed : t # currentTag /\ Cardinality(Newer(t)) >= KEEP_PER_SERVICE}

\* Mutant: of the rows that share a tag, the newest stands for all.
ReadNewestRows ==
    LET pointer == act["worker"].pointer
        tags    == tagsToPurge(IF pointer = NoId THEN NoTag ELSE rows[pointer].tag) IN
    /\ act["worker"].at = "rows"
    /\ act' = [act EXCEPT !["worker"].at = "manifests",
                          !["worker"].todo = tags,
                          !["worker"].ids  = {d \in Ids : /\ rows[d].tag \in tags /\ ~rows[d].purged
                                                   /\ \A e \in Offers(rows[d].tag) : e <= d}]
    /\ UNCHANGED <<rows, current, held, served, jobs, worker, doubt>>

\* ... then the deployments of each; every row of a tag that goes is to be marked.
ReadRows ==
    LET pointer == act["worker"].pointer
        tags    == tagsToPurge(IF pointer = NoId THEN NoTag ELSE rows[pointer].tag) IN
    /\ act["worker"].at = "rows"
    /\ act' = [act EXCEPT !["worker"].at = "manifests",
                          !["worker"].todo = tags,
                          !["worker"].ids  = {d \in Ids : rows[d].tag \in tags /\ ~rows[d].purged}]
    /\ UNCHANGED <<rows, current, held, served, jobs, worker, doubt>>

\* deleteManifest asks for the digest of a tag and deletes the digest, and with
\* it every tag that stands for it.  (One step: the worker alone pushes.)  A
\* tag the registry does not know is passed over, like one it will not delete.
DeleteManifest(t) ==
    LET gone == {u \in manifests : /\ image[u].home = "embedded"
                                   /\ image[u].digest = image[t].digest} IN
    /\ act["worker"].at = "manifests"
    /\ t \in act["worker"].todo
    /\ \/ /\ t \in manifests
          /\ manifests' = manifests \ gone
          /\ act' = [act EXCEPT !["worker"].at = "mark", !["worker"].tag = t,
                                !["worker"].todo = @ \ {t}]
          /\ doubt' = IF gone # {t} THEN doubt \cup {"shared"} ELSE doubt
       \/ /\ act' = [act EXCEPT !["worker"].todo = @ \ {t}]
          /\ UNCHANGED <<manifests, doubt>>
    /\ UNCHANGED <<rows, current, image, on, served, jobs, worker>>

MarkPurged ==
    /\ act["worker"].at = "mark"
    /\ rows' = [d \in Ids |-> IF d \in act["worker"].ids /\ rows[d].tag = act["worker"].tag
                              THEN [rows[d] EXCEPT !.purged = TRUE] ELSE rows[d]]
    /\ Go("worker", "manifests")
    /\ UNCHANGED <<current, held, served, jobs, worker, doubt>>

\* The answer to the DELETE is lost, or the mark throws: the sweep ends, and the
\* next one passes the tag over, for the registry does not know it any more.
MarkThrows ==
    /\ act["worker"].at = "mark"
    /\ doubt' = doubt \cup {"cut"}
    /\ Leave("worker")
    /\ UNCHANGED <<rows, current, held, served, worker>>

\* The garbage collection that follows frees the bytes of what is gone already.
\* A request that fails ends the sweep where it is.
EndSweep ==
    /\ act["worker"].at \in {"prune-registry", "rows", "manifests"}
    /\ Leave("worker")
    /\ UNCHANGED <<rows, current, held, served, worker, doubt>>

-----------------------------------------------------------------------------
(* pruneDocker *)

StartPrune ==
    /\ act["worker"].at = "prune-docker"
    /\ act' = [act EXCEPT !["worker"].at = "survey", !["worker"].hosts = instance.hosts]
    /\ UNCHANGED <<rows, current, held, served, jobs, worker, doubt>>

\* Host h: the images no running container uses go, if pruning is enabled
\* there, and the others are listed; either may fail, and then the host counts
\* as not surveyed.
SurveyHost(h) ==
    LET used == IF served.up THEN on[h] \cap {served.tag} ELSE {} IN
    /\ act["worker"].at = "survey"
    /\ h \in act["worker"].hosts
    /\ \E left \in {on[h], used} :
         /\ on' = [on EXCEPT ![h] = left]
         /\ \/ act' = [act EXCEPT !["worker"].hosts = @ \ {h},
                                  !["worker"].present = @ \cup left]
            \/ act' = [act EXCEPT !["worker"].hosts = @ \ {h},
                                  !["worker"].fully = FALSE]
    /\ UNCHANGED <<rows, current, image, manifests, served, jobs, worker, doubt>>

\* Mutant: the hosts that did not answer are left out of account.
ReconcileAnyway ==
    LET gone == {d \in Ids : /\ rows[d].tag # NoTag
                             /\ image[rows[d].tag].home # "embedded"
                             /\ rows[d].tag \notin act["worker"].present} IN
    /\ act["worker"].at = "survey"
    /\ act["worker"].hosts = {}
    /\ rows' = [d \in Ids |-> IF d \in gone THEN [rows[d] EXCEPT !.purged = TRUE] ELSE rows[d]]
    /\ Leave("worker")
    /\ UNCHANGED <<current, held, served, worker, doubt>>

\* The rows whose image is on no host are marked, when every host has answered.
\* An image counts as portable when it is in the embedded registry.
Reconcile ==
    LET gone == {d \in Ids : /\ rows[d].tag # NoTag
                             /\ image[rows[d].tag].home # "embedded"
                             /\ rows[d].tag \notin act["worker"].present} IN
    /\ act["worker"].at = "survey"
    /\ act["worker"].hosts = {}
    /\ rows' = IF act["worker"].fully
               THEN [d \in Ids |-> IF d \in gone THEN [rows[d] EXCEPT !.purged = TRUE] ELSE rows[d]]
               ELSE rows
    /\ Leave("worker")
    /\ UNCHANGED <<current, held, served, worker, doubt>>

-----------------------------------------------------------------------------
(* The worker process dies and comes back *)

\* A manifest that is deleted and not marked yet stays so: the next sweep
\* passes it over.
Crash ==
    /\ crashes < instance.crashes
    /\ Die
    /\ act' = [a \in Actors |-> Idle]
    /\ doubt' = IF act["worker"].at = "mark" THEN doubt \cup {"cut"} ELSE doubt
    /\ UNCHANGED <<rows, current, held, served>>

\* Mutant: recovery writes a status the schema does not have.
RecoverAsCrashed ==
    /\ process = "down"
    /\ rows' = [d \in Ids |-> IF rows[d].status \in {"building", "deploying"}
                              THEN [rows[d] EXCEPT !.status = "crashed"] ELSE rows[d]]
    /\ process' = "up"
    /\ UNCHANGED <<current, held, served, jobs, crashes, act, doubt>>

\* recoverServices
Recover ==
    /\ process = "down"
    /\ rows' = [d \in Ids |-> IF rows[d].status \in {"building", "deploying"}
                              THEN [rows[d] EXCEPT !.status = "failed"] ELSE rows[d]]
    /\ process' = "up"
    /\ UNCHANGED <<current, held, served, jobs, crashes, act, doubt>>

JobReturns ==
    /\ ComesBack
    /\ UNCHANGED <<rows, current, held, served, worker, act, doubt>>

-----------------------------------------------------------------------------
Init ==
    /\ instance \in Instances
    /\ rows = [d \in Ids |-> NoRow]
    /\ current = NoId
    /\ image = [t \in Tags |-> NoImage]
    /\ manifests = {}
    /\ on = [h \in Hosts |-> {}]
    /\ served = [tag |-> NoTag, up |-> FALSE]
    /\ QueueInit
    /\ act = [a \in Actors |-> Idle]
    /\ doubt = {}

Dashboard ==
    \/ \E d \in Ids : RequestDeploy(d) \/ RequestRollback(d)
    \/ \E kind \in JobKinds : RequestJob(kind)

Ship ==
    \/ StartDeploy \/ ResolveImage \/ Build \/ Push
    \/ \E a \in Actors : \/ \E d \in Ids : Redeploy(a, d)
                         \/ Rollout(a) \/ Throw(a) \/ RecordRow(a) \/ RecordCurrent(a)

Clean ==
    \/ ReadServices \/ ReadRows \/ MarkPurged \/ MarkThrows \/ EndSweep
    \/ \E t \in Tags : DeleteManifest(t)
    \/ StartPrune \/ Reconcile \/ \E h \in Hosts : SurveyHost(h)

Step ==
    \/ Dashboard
    \/ TakeJob \/ Stop \/ Ship \/ Clean
    \/ (\E d \in Ids : StartBranch(d)) \/ RecordReverted
    \/ Crash \/ Recover \/ JobReturns

Next == Step /\ UNCHANGED instance

Spec == Init /\ [][Next]_vars

-----------------------------------------------------------------------------
(* Properties *)

\* What the history calls expired is gone: a row is marked only when its tag is
\* out of the registry, or its image off every host.  But for the images of a
\* registry of the team's own, which Reconcile takes for local ones, and a row
\* that was marked and then built again.
PurgedIsGone ==
    \A d \in Ids :
        /\ rows[d].purged /\ rows[d].tag # NoTag
        /\ image[rows[d].tag].home # "external"
        /\ "rebuilt" \notin doubt
        => IF image[rows[d].tag].home = "embedded"
           THEN rows[d].tag \notin manifests
           ELSE \A h \in Hosts : rows[d].tag \notin on[h]

\* What the history offers is there: the image of a deployment that succeeded
\* and is not marked is in the registry, whenever the worker is done.  But for
\* a digest that went with another tag, a deletion that was never marked (the
\* worker died, the answer was lost, the mark threw), a revert to a tag that was
\* being purged, and the redeploy of one that was gone already, or never pushed.
OfferedIsThere ==
    act["worker"].at = "idle" /\ doubt \subseteq {"moved", "rebuilt"} =>
        \A d \in Ids :
            rows[d].status = "succeeded" /\ ~rows[d].purged /\ image[rows[d].tag].home = "embedded"
                => rows[d].tag \in manifests

\* No cleaner takes the image of the current deployment, however many came
\* after it and failed: not out of the registry, and not off the hosts while
\* the service runs it.  But for shared digests, and for a revert that begins,
\* or that the service is pointed at, while the sweep runs.
CurrentSpared ==
    [][LET t == rows[current].tag IN
       current # NoId /\ t # NoTag /\ {"shared", "raced", "moved"} \cap doubt' = {} =>
         /\ t \in manifests => t \in manifests'
         /\ served.up /\ served.tag = t /\ (\E h \in Hosts : t \in on[h])
              => \E h \in Hosts : t \in on'[h]]_vars

\* The sweep takes a tag only when KEEP_PER_SERVICE others are newer, counting
\* builds that failed.  But for shared digests and reverts beside the sweep.
WindowSpared ==
    [][\A t \in manifests \ manifests' :
         {"shared", "raced"} \cap doubt' = {} => Cardinality(Newer(t)) >= KEEP_PER_SERVICE]_vars
=============================================================================
