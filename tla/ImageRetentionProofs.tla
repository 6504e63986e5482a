-------------------------- MODULE ImageRetentionProofs --------------------------
(***************************************************************************)
(* ImageRetention for every set of servers and images, every window, and    *)
(* every number of deployments, jobs and crashes: what the history offers   *)
(* is there, what it calls expired is gone, and the cleaners spare the      *)
(* window and the image of the current deployment.                          *)
(***************************************************************************)
EXTENDS ImageRetention, JobQueueProofs, FiniteSetTheorems, WellFoundedInduction

-----------------------------------------------------------------------------
(* Types *)

\* A deployment names a row, a rollback a tag.
Jobs == {job \in [kind : JobKinds, arg : Ids \cup Tags \cup {NoId}, again : BOOLEAN] :
           /\ job.kind = "deploy" => job.arg \in Ids
           /\ job.kind = "rollback" => job.arg \in Tags}

\* Where an actor makes an image and where it ships one, and where it works on
\* a row and with a tag.
Making   == {"build", "push"}
Shipping == {"rollout", "accepted", "current"}
OnRow    == {"deploy", "source", "failed", "refused", "looping"} \cup Making \cup Shipping
OnTag    == {"rollback", "looping", "mark"} \cup Making \cup Shipping

WorkerTyped ==
    /\ JobsIn(Jobs)
    /\ process \in {"down", "recovering", "up"}
    /\ crashes \in 0..MaxCrashes
    /\ process # "up" => active = NoJob

PlaceTyped ==
    /\ active = NoJob => act["worker"].at = "idle"
    /\ active.kind = "deploy" =>
         /\ act["worker"].at \in {"deploy", "source", "failed", "refused"} \cup Making \cup Shipping
         /\ act["worker"].row = active.arg
    /\ active.kind = "rollback" => act["worker"].at \in {"rollback", "refused"} \cup Shipping
    /\ active.kind = "stop" => act["worker"].at = "stop"
    /\ active.kind = "prune-registry" =>
         act["worker"].at \in {"prune-registry", "rows", "manifests", "mark"}
    /\ active.kind = "prune-docker" => act["worker"].at \in {"prune-docker", "survey"}
    /\ act["branch"].at \in {"idle", "looping", "rollback", "refused"} \cup Shipping

ActTyped ==
    /\ act \in [Actors -> Actor]
    /\ \A a \in Actors : /\ act[a].at \in OnRow => act[a].row \in Ids
                         /\ act[a].at \in OnTag => act[a].tag \in Tags

RestTyped ==
    /\ instance \in Instances
    /\ rows \in [Ids -> Row]
    /\ \A d \in Ids : rows[d].status = "absent" => rows[d] = NoRow
    /\ current \in Ids \cup {NoId}
    /\ image \in [Tags -> [home : HomeKinds, digest : Tags \cup {NoTag}] \cup {NoImage}]
    /\ manifests \subseteq Tags
    /\ on \in [Hosts -> SUBSET Tags]
    /\ served \in [tag : Tags \cup {NoTag}, up : BOOLEAN]
    /\ doubt \subseteq {"shared", "raced", "cut", "missing", "rebuilt", "moved"}

Typed == WorkerTyped /\ PlaceTyped /\ ActTyped /\ RestTyped

-----------------------------------------------------------------------------
(* What else always holds *)

\* The rows and the tags that a job is to build, or to ship again.
Builds == {job.arg : job \in {known \in Waiting \cup stalled \cup {active} : known.kind = "deploy"}}
Redoes == {job.arg : job \in {known \in Waiting \cup stalled \cup {active} : known.kind = "rollback"}}

\* The actor writes to a row of its own.
Writing == {"refused"} \cup Shipping

\* A row is written by the deployment that was asked for it, or by the one
\* redeploy that inserted it.
Owned ==
    /\ \A d \in Builds : rows[d].status # "absent"
    /\ \A a \in Actors : act[a].at \in Writing => rows[act[a].row].status # "absent"
    /\ act["branch"].at \in Writing =>
         /\ act["branch"].row \notin Builds
         /\ act["worker"].at \in Writing => act["worker"].row # act["branch"].row

\* Tags that were made.
Used == {t \in Tags : image[t] # NoImage}

\* Nothing has a tag that was not made.
TagsAreUsed ==
    /\ \A d \in Ids : /\ rows[d].tag \in Used \cup {NoTag}
                      /\ rows[d].status = "succeeded" => rows[d].tag # NoTag
    /\ \A h \in Hosts : on[h] \subseteq Used
    /\ manifests \subseteq Used
    /\ served.tag \in Used \cup {NoTag}
    /\ \A a \in Actors : act[a].tag \in Used \cup {NoTag} /\ act[a].todo \subseteq Used
    /\ Redoes \subseteq Used

\* Whoever ships has written the tag to its row.
ShipsItsTag == \A a \in Actors : act[a].at \in Shipping => rows[act[a].row].tag = act[a].tag

\* The tag in the making is nobody else's.
Fresh ==
    act["worker"].at \in Making =>
        LET t == act["worker"].tag  d == act["worker"].row IN
        /\ \A e \in Ids : rows[e].tag = t <=> e = d
        /\ rows[d].status \notin {"absent", "succeeded"}
        /\ rows[d].purged => "rebuilt" \in doubt
        /\ t \notin manifests
        /\ t # served.tag
        /\ t # act["branch"].tag
        /\ act["worker"].at = "push" => image[t].home # "host"

\* An image is where it belongs.
Placed ==
    /\ \A t \in manifests : image[t].home # "host"
    /\ \A h \in Hosts \ instance.hosts : on[h] = {}

\* The prune has seen whatever is on the hosts it went through.
Surveyed ==
    act["worker"].at = "survey" /\ act["worker"].fully =>
        \A h \in Hosts \ act["worker"].hosts :
            \A t \in on[h] : image[t].home = "host" => t \in act["worker"].present

\* The tag that is deleted, and not marked yet.
Unmarked(t) == act["worker"].at = "mark" /\ act["worker"].tag = t

\* What is offered, or about to be, is there, or about to be marked.
Offered ==
    doubt \subseteq {"moved", "rebuilt"} =>
        \A d \in Ids :
            /\ \/ rows[d].status = "succeeded"
               \/ \E a \in Actors : act[a].at \in Shipping /\ act[a].row = d
            /\ ~rows[d].purged
            /\ image[rows[d].tag].home = "embedded"
            => rows[d].tag \in manifests \/ Unmarked(rows[d].tag)

\* The tags the sweep has yet to delete or to mark.
Doomed == act["worker"].todo \cup {t \in Tags : Unmarked(t)}

\* The sweep knows every row of the tags it takes, and leaves the newest ones.
Swept ==
    act["worker"].at \in {"manifests", "mark"} =>
        /\ \A t \in Doomed : image[t].home = "embedded"
        /\ act["worker"].at = "mark" => act["worker"].tag \notin manifests
        /\ "raced" \notin doubt =>
             /\ \A d \in Ids : rows[d].tag \in Doomed /\ ~rows[d].purged => d \in act["worker"].ids
             /\ \A t \in Doomed : Cardinality(Newer(t) \ Doomed) >= KEEP_PER_SERVICE

\* The sweep knows the current deployment, and leaves its image.
Pointed ==
    "raced" \notin doubt /\ "moved" \notin doubt /\ current # NoId =>
        /\ act["worker"].at = "rows" => act["worker"].pointer = current
        /\ act["worker"].at \in {"manifests", "mark"} => rows[current].tag \notin act["worker"].todo

IInv ==
    /\ Typed /\ Owned /\ TagsAreUsed /\ ShipsItsTag /\ Fresh /\ Placed
    /\ PurgedIsGone /\ Surveyed /\ Offered /\ Swept /\ Pointed

-----------------------------------------------------------------------------
(* The jobs *)

LEMMA NoJobType == NoJob.kind = "none" /\ NoJob.kind \notin JobKinds
    BY DEF NoJob, JobKinds

LEMMA JobTypes ==
    ASSUME JobsIn(Jobs)
    PROVE  /\ Builds \subseteq Ids
           /\ Redoes \subseteq Tags
           /\ active.kind = "deploy" => active.arg \in Builds
           /\ active.kind = "rollback" => active.arg \in Redoes
           /\ active.kind \in JobKinds \cup {"none"}
           /\ active.kind = "none" => active = NoJob
<1>1. Waiting \subseteq Jobs
    BY DEF JobsIn, Waiting
<1>2. \A job \in Jobs : /\ job.kind \in JobKinds
                        /\ job.kind = "deploy" => job.arg \in Ids
                        /\ job.kind = "rollback" => job.arg \in Tags
    BY DEF Jobs
<1>3. \A known \in Waiting \cup stalled \cup {active} : known \in Jobs \/ known = NoJob
    BY <1>1 DEF JobsIn
<1>4. Builds \subseteq Ids /\ Redoes \subseteq Tags
    BY <1>2, <1>3, NoJobType DEF Builds, Redoes
<1>5. active \in Jobs \/ active = NoJob
    BY DEF JobsIn
<1> QED BY <1>2, <1>4, <1>5, NoJobType DEF Builds, Redoes, JobKinds

LEMMA JobsReturnable == Returnable(Jobs)
    BY DEF Returnable, Jobs

\* No step but a request asks for anything new.
LEMMA JobsStay ==
    ASSUME JobsIn(Jobs),
           \/ UNCHANGED jobs
           \/ Finish
           \/ Take
           \/ Die
           \/ ComesBack
    PROVE  /\ JobsIn(Jobs)'
           /\ Builds' \subseteq Builds
           /\ Redoes' \subseteq Redoes
<1> DEFINE known == Waiting \cup stalled \cup {active}
<1>1. CASE UNCHANGED jobs
    BY <1>1 DEF jobs, JobsIn, Builds, Redoes, Waiting
<1>2. ASSUME known' \subseteq known \cup {NoJob}
      PROVE  Builds' \subseteq Builds /\ Redoes' \subseteq Redoes
    BY <1>2, NoJobType DEF Builds, Redoes
<1>3. CASE Finish
  <2>1. known' \subseteq known \cup {NoJob}
    BY <1>3 DEF Finish, Waiting
  <2> QED BY <1>2, <1>3, <2>1, FinishKeeps
<1>4. CASE Take
  <2>1. Waiting = Waiting' \cup {active'} /\ stalled' = stalled
    BY <1>4, TakeWaiting DEF JobsIn, Take
  <2>2. known' \subseteq known \cup {NoJob}
    BY <2>1
  <2> QED BY <1>2, <1>4, <2>2, TakeKeeps
<1>5. CASE Die
  <2>1. known' \subseteq known \cup {NoJob}
    BY <1>5 DEF Die, Waiting
  <2> QED BY <1>2, <1>5, <2>1, DieKeeps
<1>6. CASE ComesBack
  <2>1. PICK job \in stalled : /\ stalled' = stalled \ {job}
                               /\ Waiting' = Waiting \cup {[job EXCEPT !.again = TRUE]}
    BY <1>6, ComesBackWaiting, JobsReturnable
  <2>2. job \in Jobs
    BY DEF JobsIn
  <2>3. [job EXCEPT !.again = TRUE].kind = job.kind /\ [job EXCEPT !.again = TRUE].arg = job.arg
    BY <2>2 DEF Jobs
  <2>4. active' = active
    BY <1>6 DEF ComesBack
  <2> HIDE DEF known
  <2>5. Builds' \subseteq Builds /\ Redoes' \subseteq Redoes
    BY <2>1, <2>3, <2>4 DEF Builds, Redoes
  <2> QED BY <1>6, <2>5, ComesBackKeeps, JobsReturnable
<1> QED BY <1>1, <1>3, <1>4, <1>5, <1>6

LEMMA JobsGrow ==
    ASSUME JobsIn(Jobs), NEW kind \in JobKinds, NEW arg, Enqueue(kind, arg),
           [kind |-> kind, arg |-> arg, again |-> FALSE] \in Jobs
    PROVE  /\ JobsIn(Jobs)'
           /\ kind = "deploy" => Builds' \subseteq Builds \cup {arg}
           /\ kind # "deploy" => Builds' \subseteq Builds
           /\ kind = "rollback" => Redoes' \subseteq Redoes \cup {arg}
           /\ kind # "rollback" => Redoes' \subseteq Redoes
<1> DEFINE new == [kind |-> kind, arg |-> arg, again |-> FALSE]
<1>1. Waiting' = Waiting \cup {new} /\ stalled' = stalled /\ active' = active
    BY EnqueueWaiting DEF Enqueue, JobsIn
<1>2. new.kind = kind /\ new.arg = arg
    OBVIOUS
<1>3. JobsIn(Jobs)'
    BY EnqueueKeeps
<1> HIDE DEF new
<1> QED BY <1>1, <1>2, <1>3 DEF Builds, Redoes

-----------------------------------------------------------------------------
(* The actors *)

LEMMA IdleFields ==
    /\ Idle \in Actor /\ Idle.at = "idle" /\ Idle.row = NoId /\ Idle.tag = NoTag /\ Idle.todo = {}
    /\ Idle.pointer = NoId /\ Idle.ids = {} /\ Idle.hosts = {} /\ Idle.present = {}
    BY DEF Idle, Actor, Places, NoId, NoTag

LEMMA GoEffect ==
    ASSUME act \in [Actors -> Actor], NEW a \in Actors, NEW at \in Places, Go(a, at)
    PROVE  /\ act' \in [Actors -> Actor]
           /\ \A b \in Actors : b # a => act'[b] = act[b]
           /\ act'[a].at = at /\ act'[a].row = act[a].row /\ act'[a].tag = act[a].tag
           /\ act'[a].todo = act[a].todo /\ act'[a].ids = act[a].ids
           /\ act'[a].pointer = act[a].pointer
    BY DEF Go, Actor

LEMMA LeaveEffect ==
    ASSUME act \in [Actors -> Actor], NEW a \in Actors, Leave(a)
    PROVE  /\ act' \in [Actors -> Actor]
           /\ \A b \in Actors : b # a => act'[b] = act[b]
           /\ act'[a] = Idle
           /\ a = "worker" => Finish
           /\ a = "branch" => UNCHANGED jobs
    BY IdleFields DEF Leave

-----------------------------------------------------------------------------
(* Steps that make, ship and mark nothing *)

\* Images only go, rows change their status, and the service its pointer.
Aside ==
    /\ UNCHANGED <<instance, image>>
    /\ manifests' \subseteq manifests
    /\ \A t \in manifests \ manifests' : Unmarked(t)' \/ "shared" \in doubt'
    /\ on' \in [Hosts -> SUBSET Tags]
    /\ \A h \in Hosts : on'[h] \subseteq on[h]
    /\ served' \in [tag : Tags \cup {NoTag}, up : BOOLEAN]
    /\ served'.tag = served.tag
    /\ current' \in Ids \cup {NoId}
    /\ doubt' \subseteq {"shared", "raced", "cut", "missing", "rebuilt", "moved"}
    /\ doubt \subseteq doubt'
    /\ rows' \in [Ids -> Row]
    /\ \A d \in Ids : /\ rows'[d].tag = rows[d].tag
                      /\ rows'[d].purged = rows[d].purged
                      /\ rows'[d].status = "absent" => rows'[d] = rows[d]

LEMMA NewerStays ==
    ASSUME UNCHANGED image,
           \A d \in Ids : rows'[d].tag = rows[d].tag /\ rows'[d].purged = rows[d].purged
    PROVE  \A t \in Tags : Newer(t)' = Newer(t)
<1>1. \A t \in Tags : Offers(t)' = Offers(t)
    BY DEF Offers
<1>2. Listed' = Listed
    BY <1>1 DEF Listed
<1> QED BY <1>1, <1>2 DEF Newer, Listed

LEMMA AsideKeeps ==
    ASSUME Typed, Placed, PurgedIsGone, Aside
    PROVE  /\ RestTyped' /\ Placed' /\ PurgedIsGone'
           /\ Used' = Used
           /\ \A t \in Tags : Newer(t)' = Newer(t)
<1>1. RestTyped'
    BY DEF Typed, RestTyped, Aside
<1>2. Placed'
    BY DEF Placed, Aside
<1>3. PurgedIsGone'
    BY DEF PurgedIsGone, Aside
<1>4. Used' = Used
    BY DEF Used, Aside
<1>5. \A t \in Tags : Newer(t)' = Newer(t)
    BY NewerStays DEF Aside
<1> QED BY <1>1, <1>2, <1>3, <1>4, <1>5

\* An actor that makes or ships an image goes on with the one it had, on the
\* row it had.
Continues(a) ==
    /\ act'[a].at \in Making => act[a].at = act'[a].at /\ act[a].tag = act'[a].tag /\ act[a].row = act'[a].row
    /\ act'[a].at \in Shipping => act[a].at \in Shipping /\ act[a].tag = act'[a].tag
    /\ act'[a].at \in Writing => act[a].at \in Writing /\ act[a].row = act'[a].row
    /\ act'[a].tag \in Used \cup {NoTag}
    /\ act'[a].todo \subseteq Used

LEMMA CalmStep ==
    ASSUME IInv, Aside, WorkerTyped', ActTyped',
           \A d \in Builds' : d \in Builds \/ (rows[d].status = "absent" /\ rows'[d].status # "absent"),
           Redoes' \subseteq Used,
           \A d \in Ids : rows'[d].status = "succeeded" =>
               rows[d].status = "succeeded" \/ \E a \in Actors : act[a].at \in Shipping /\ act[a].row = d,
           \A a \in Actors : Continues(a),
           act'["worker"].at \in Making => act'["branch"].tag # act["worker"].tag,
           act["worker"].at = "mark" => act'["worker"] = act["worker"] \/ "cut" \in doubt'
    PROVE  /\ RestTyped' /\ Placed' /\ PurgedIsGone'
           /\ Owned' /\ TagsAreUsed' /\ ShipsItsTag' /\ Fresh' /\ Offered'
<1>1. RestTyped' /\ Placed' /\ PurgedIsGone' /\ Used' = Used
    BY AsideKeeps DEF IInv
<1>2. Builds \subseteq Ids /\ "worker" \in Actors /\ "branch" \in Actors
    BY JobTypes DEF IInv, Typed, WorkerTyped, Actors
<1>3. \A d \in Ids : /\ rows'[d].tag = rows[d].tag /\ rows'[d].purged = rows[d].purged
                     /\ rows[d].status # "absent" => rows'[d].status # "absent"
    BY DEF Aside
<1>4. \A a \in Actors : act[a].at \in Writing \cup Making => act[a].row \in Ids
    BY DEF IInv, Typed, ActTyped, OnRow, Writing
<1>5. Owned'
    BY <1>2, <1>3, <1>4 DEF IInv, Owned, Continues
<1>6. \A a \in Actors : act[a].at \in Shipping => /\ rows[act[a].row].tag = act[a].tag
                                                  /\ act[a].tag # NoTag /\ act[a].row \in Ids
    BY DEF IInv, ShipsItsTag, Typed, ActTyped, OnTag, OnRow, Tags, NoTag
<1>7. TagsAreUsed'
  <2>1. \A d \in Ids : rows'[d].status = "succeeded" => rows'[d].tag # NoTag
    BY <1>3, <1>6 DEF IInv, TagsAreUsed
  <2> QED BY <1>1, <1>3, <2>1 DEF IInv, TagsAreUsed, Aside, Continues
<1>8. ShipsItsTag'
    BY <1>3, <1>6 DEF ShipsItsTag, Continues, Writing
<1>9. Fresh'
  <2> SUFFICES ASSUME act'["worker"].at \in Making PROVE Fresh'
    BY DEF Fresh
  <2>1. /\ act["worker"].at = act'["worker"].at /\ act["worker"].tag = act'["worker"].tag
        /\ act["worker"].row = act'["worker"].row /\ act["worker"].row \in Ids
    BY <1>2, <1>4 DEF Continues
  <2>2. act["worker"].row \in Builds /\ active.kind = "deploy"
    BY <1>2, <2>1, JobTypes DEF IInv, Typed, WorkerTyped, PlaceTyped, Making, Shipping, JobKinds
  <2>3. ~ \E a \in Actors : act[a].at \in Shipping /\ act[a].row = act["worker"].row
    BY <2>1, <2>2 DEF IInv, Owned, Writing, Actors, Making, Shipping
  <2> QED BY <1>3, <2>1, <2>3 DEF IInv, Fresh, Aside
<1>10. Offered'
  <2> SUFFICES ASSUME doubt' \subseteq {"moved", "rebuilt"}, NEW d \in Ids,
                      \/ rows'[d].status = "succeeded"
                      \/ \E a \in Actors : act'[a].at \in Shipping /\ act'[a].row = d,
                      ~rows'[d].purged, image'[rows'[d].tag].home = "embedded"
               PROVE  (rows[d].tag \in manifests \/ Unmarked(rows[d].tag))'
    BY DEF Offered
  <2>1. \/ rows[d].status = "succeeded"
        \/ \E a \in Actors : act[a].at \in Shipping /\ act[a].row = d
    BY DEF Continues, Writing
  <2>2. doubt \subseteq {"moved", "rebuilt"} /\ "cut" \notin doubt'
    BY DEF Aside
  <2>3. rows[d].tag \in manifests \/ Unmarked(rows[d].tag)
    BY <1>3, <2>1, <2>2 DEF IInv, Offered, Aside
  <2> QED BY <1>3, <2>2, <2>3 DEF Unmarked, Aside
<1> QED BY <1>1, <1>5, <1>7, <1>8, <1>9, <1>10

\* Neither cleaner is at work, or it stays where it is.
LEMMA CleanersStay ==
    ASSUME IInv, Aside,
           \/ act'["worker"] = act["worker"]
           \/ act'["worker"].at \notin {"rows", "manifests", "mark", "survey"},
           \/ current' = current
           \/ "moved" \in doubt'
           \/ act'["worker"].at \notin {"rows", "manifests", "mark"}
    PROVE  Surveyed' /\ Swept' /\ Pointed'
<1>1. \A t \in Tags : Newer(t)' = Newer(t)
    BY AsideKeeps DEF IInv
<1>2. Surveyed'
    BY DEF IInv, Surveyed, Aside
<1>3. Pointed'
    BY DEF IInv, Typed, RestTyped, Pointed, Aside
<1>4. Swept'
  <2>1. CASE act'["worker"].at \notin {"rows", "manifests", "mark", "survey"}
    BY <2>1 DEF Swept
  <2>2. CASE act'["worker"] = act["worker"]
    <3>1. Doomed' = Doomed /\ Doomed \subseteq Tags
      BY <2>2 DEF Doomed, Unmarked, IInv, TagsAreUsed, Used, Actors
    <3> QED BY <1>1, <2>2, <3>1 DEF IInv, Swept, Aside
  <2> QED BY <2>1, <2>2
<1> QED BY <1>2, <1>3, <1>4

LEMMA JobsSettle ==
    ASSUME Typed, TagsAreUsed, UNCHANGED worker,
           \/ UNCHANGED jobs
           \/ Finish
           \/ Take
           \/ ComesBack
    PROVE  /\ WorkerTyped'
           /\ Builds' \subseteq Builds
           /\ Redoes' \subseteq Used
<1>1. JobsIn(Jobs)' /\ Builds' \subseteq Builds /\ Redoes' \subseteq Redoes
    BY JobsStay DEF Typed, WorkerTyped
<1>2. process' # "up" => active' = NoJob
    BY DEF Typed, WorkerTyped, worker, jobs, Finish, Take, ComesBack
<1> QED BY <1>1, <1>2 DEF Typed, WorkerTyped, worker, TagsAreUsed

\* Who stays, who leaves, and who goes on.
LEMMA StaysOn ==
    ASSUME TagsAreUsed, NEW a \in Actors, act'[a] = act[a]
    PROVE  Continues(a)
    BY DEF Continues, TagsAreUsed

LEMMA LeavesOff ==
    ASSUME NEW a \in Actors, act'[a] = Idle
    PROVE  Continues(a)
    BY IdleFields DEF Continues, Making, Shipping, Writing

LEMMA GoesOn ==
    ASSUME TagsAreUsed, NEW a \in Actors,
           act'[a].row = act[a].row, act'[a].tag = act[a].tag, act'[a].todo = act[a].todo,
           act'[a].at \notin Making,
           act'[a].at \in Shipping => act[a].at \in Shipping,
           act'[a].at \in Writing => act[a].at \in Writing
    PROVE  Continues(a)
    BY DEF Continues, TagsAreUsed

\* The tag in the making is not the branch's, whatever the worker does next.
LEMMA BranchTagKept ==
    ASSUME IInv, act'["branch"] = act["branch"] \/ act'["branch"] = Idle, Continues("worker")
    PROVE  act'["worker"].at \in Making => act'["branch"].tag # act["worker"].tag
<1>1. act["worker"].at \in Making => act["worker"].tag # NoTag
    BY DEF IInv, Typed, ActTyped, OnTag, Tags, NoTag, Actors
<1> QED BY <1>1, IdleFields DEF IInv, Fresh, Continues

LEMMA DashboardStep ==
    ASSUME IInv, UNCHANGED instance, Dashboard
    PROVE  IInv'
<1> DEFINE Asks ==
        /\ UNCHANGED <<current, image, manifests, on, served, process, crashes, act, doubt, active>>
        /\ Aside
        /\ \A d \in Ids : rows'[d].status = "succeeded" => rows[d].status = "succeeded"
        /\ JobsIn(Jobs)'
        /\ \A d \in Builds' : d \in Builds \/ (rows[d].status = "absent" /\ rows'[d].status # "absent")
        /\ Redoes' \subseteq Used
<1>1. Asks
  <2>0. JobsIn(Jobs) /\ RestTyped /\ Redoes \subseteq Used
    BY DEF IInv, Typed, WorkerTyped, TagsAreUsed
  <2>1. ASSUME NEW d \in Ids, RequestDeploy(d) PROVE Asks
    <3>1. UNCHANGED <<current, image, manifests, on, served, process, crashes, act, doubt, active>>
      BY <2>1 DEF RequestDeploy, held, worker, Enqueue
    <3>2. rows[d] = NoRow /\ rows[d].status = "absent"
      BY <2>0, <2>1 DEF RequestDeploy, Inserts, RestTyped
    <3>3. /\ rows' \in [Ids -> Row]
          /\ rows'[d].status = "queued" /\ rows'[d].tag = rows[d].tag /\ rows'[d].purged = rows[d].purged
          /\ \A e \in Ids : e # d => rows'[e] = rows[e]
      BY <2>0, <2>1 DEF RequestDeploy, RestTyped, Row
    <3>4. Aside
      BY <2>0, <3>1, <3>3 DEF Aside, RestTyped
    <3>5. [kind |-> "deploy", arg |-> d, again |-> FALSE] \in Jobs
      BY DEF Jobs, JobKinds
    <3>6. JobsIn(Jobs)' /\ Builds' \subseteq Builds \cup {d} /\ Redoes' \subseteq Redoes
      BY <2>0, <2>1, <3>5, JobsGrow DEF RequestDeploy, JobKinds
    <3> QED BY <2>0, <3>1, <3>2, <3>3, <3>4, <3>6
  <2>2. ASSUME rows' = rows, UNCHANGED <<current, image, manifests, on, served, process, crashes, act, doubt>>
        PROVE  Aside
    BY <2>0, <2>2 DEF Aside, RestTyped
  <2>3. ASSUME NEW d \in Ids, RequestRollback(d) PROVE Asks
    <3>1. /\ UNCHANGED <<current, image, manifests, on, served, process, crashes, act, doubt, active>>
          /\ rows' = rows
      BY <2>3 DEF RequestRollback, held, worker, Enqueue
    <3>2. rows[d].tag \in Used /\ Used \subseteq Tags
      BY <2>3 DEF RequestRollback, IInv, TagsAreUsed, Used
    <3>3. [kind |-> "rollback", arg |-> rows[d].tag, again |-> FALSE] \in Jobs
      BY <3>2 DEF Jobs, JobKinds
    <3>4. JobsIn(Jobs)' /\ Builds' \subseteq Builds /\ Redoes' \subseteq Redoes \cup {rows[d].tag}
      BY <2>0, <2>3, <3>3, JobsGrow DEF RequestRollback, JobKinds
    <3> QED BY <2>0, <2>2, <3>1, <3>2, <3>4
  <2>4. ASSUME NEW kind \in JobKinds, RequestJob(kind) PROVE Asks
    <3>1. /\ UNCHANGED <<current, image, manifests, on, served, process, crashes, act, doubt, active>>
          /\ rows' = rows /\ kind \notin {"deploy", "rollback"}
      BY <2>4 DEF RequestJob, held, worker, Enqueue
    <3>2. [kind |-> kind, arg |-> NoId, again |-> FALSE] \in Jobs
      BY <3>1 DEF Jobs
    <3>3. JobsIn(Jobs)' /\ Builds' \subseteq Builds /\ Redoes' \subseteq Redoes
      BY <2>0, <2>4, <3>1, <3>2, JobsGrow DEF RequestJob
    <3> QED BY <2>0, <2>2, <3>1, <3>3
  <2> QED BY <2>1, <2>3, <2>4 DEF Dashboard
<1>2. WorkerTyped' /\ PlaceTyped' /\ ActTyped'
    BY <1>1 DEF IInv, Typed, WorkerTyped, PlaceTyped, ActTyped
<1>3. \A a \in Actors : Continues(a)
    BY <1>1, StaysOn DEF IInv
<1>4. act'["worker"].at \in Making => act'["branch"].tag # act["worker"].tag
    BY <1>1, <1>3, BranchTagKept DEF Actors
<1>5. /\ RestTyped' /\ Placed' /\ PurgedIsGone'
      /\ Owned' /\ TagsAreUsed' /\ ShipsItsTag' /\ Fresh' /\ Offered'
    BY <1>1, <1>2, <1>3, <1>4, CalmStep
<1>6. Surveyed' /\ Swept' /\ Pointed'
    BY <1>1, CleanersStay
<1> QED BY <1>2, <1>5, <1>6 DEF IInv, Typed

\* A step of one actor that is done, or goes where it makes and ships nothing
\* it did not ship before.
LEMMA QuietStep ==
    ASSUME IInv, Aside, UNCHANGED worker,
           NEW a \in Actors,
           act' \in [Actors -> Actor],
           \A b \in Actors : b # a => act'[b] = act[b],
           Continues(a),
           act'[a].at \in OnRow => act'[a].row \in Ids,
           act'[a].at \in OnTag => act'[a].tag \in Tags,
           UNCHANGED jobs \/ (a = "worker" /\ (Finish \/ Take)),
           PlaceTyped',
           \A d \in Ids : rows'[d].status = "succeeded" =>
               rows[d].status = "succeeded" \/ \E b \in Actors : act[b].at \in Shipping /\ act[b].row = d,
           a = "worker" => act["worker"].at # "mark" \/ "cut" \in doubt',
           a = "branch" /\ act["worker"].at \in Making => act'["branch"].tag # act["worker"].tag
    PROVE  /\ Typed' /\ Placed' /\ PurgedIsGone'
           /\ Owned' /\ TagsAreUsed' /\ ShipsItsTag' /\ Fresh' /\ Offered'
<1>1. WorkerTyped' /\ Builds' \subseteq Builds /\ Redoes' \subseteq Used
    BY JobsSettle DEF IInv
<1>2. ActTyped'
    BY DEF IInv, Typed, ActTyped
<1>3. \A b \in Actors : Continues(b)
    BY StaysOn DEF IInv
<1>4. act'["worker"].at \in Making => act'["branch"].tag # act["worker"].tag
  <2>1. CASE a = "worker"
    BY <1>3, <2>1, BranchTagKept DEF Actors
  <2>2. CASE a = "branch"
    BY <2>2 DEF Actors
  <2> QED BY <2>1, <2>2 DEF Actors
<1>5. act["worker"].at = "mark" => act'["worker"] = act["worker"] \/ "cut" \in doubt'
    BY DEF Actors
<1> QED BY <1>1, <1>2, <1>3, <1>4, <1>5, CalmStep DEF Typed

\* Where the worker may be in a job of each kind.
LEMMA WorkerPlaces ==
    ASSUME Typed
    PROVE  /\ act["worker"].at \in {"deploy", "source", "failed"} \cup Making => active.kind = "deploy"
           /\ act["worker"].at = "rollback" => active.kind = "rollback"
           /\ act["worker"].at \in Writing => active.kind \in {"deploy", "rollback"}
           /\ act["worker"].at = "stop" => active.kind = "stop"
           /\ act["worker"].at \in {"prune-registry", "rows", "manifests", "mark"} => active.kind = "prune-registry"
           /\ act["worker"].at \in {"prune-docker", "survey"} => active.kind = "prune-docker"
           /\ active.kind = "deploy" => act["worker"].row = active.arg /\ active.arg \in Builds
<1>1. active.kind \in JobKinds \cup {"none"} /\ (active.kind = "none" => active = NoJob)
    BY JobTypes DEF Typed, WorkerTyped
<1>2. active.kind = "deploy" => act["worker"].row = active.arg /\ active.arg \in Builds
    BY JobTypes DEF Typed, WorkerTyped, PlaceTyped
<1> QED BY <1>1, <1>2 DEF Typed, PlaceTyped, JobKinds, Making, Shipping, Writing

LEMMA NothingMoves ==
    ASSUME RestTyped, UNCHANGED <<instance, rows, current, image, manifests, on, served>>,
           doubt' \subseteq {"shared", "raced", "cut", "missing", "rebuilt", "moved"}, doubt \subseteq doubt'
    PROVE  Aside
    BY DEF Aside, RestTyped

\* The status of a row that is there changes.
LEMMA StatusMoves ==
    ASSUME RestTyped, UNCHANGED <<instance, current, image, manifests, on, served, doubt>>,
           NEW d \in Ids, NEW status \in {"building", "succeeded", "rolled_back", "failed", "reverted_by_watch"},
           rows' = [rows EXCEPT ![d].status = status]
    PROVE  /\ Aside
           /\ rows'[d].status = status
           /\ \A e \in Ids : e # d => rows'[e] = rows[e]
<1>1. /\ rows' \in [Ids -> Row]
      /\ rows'[d].status = status /\ rows'[d].tag = rows[d].tag /\ rows'[d].purged = rows[d].purged
      /\ \A e \in Ids : e # d => rows'[e] = rows[e]
    BY DEF RestTyped, Row
<1> QED BY <1>1 DEF Aside, RestTyped

\* The worker is done with its job.
LEMMA WorkerEnds ==
    ASSUME IInv, Aside, UNCHANGED worker, Leave("worker"),
           act["worker"].at # "mark" \/ "cut" \in doubt',
           \A d \in Ids : rows'[d].status = "succeeded" =>
               rows[d].status = "succeeded" \/ \E b \in Actors : act[b].at \in Shipping /\ act[b].row = d
    PROVE  IInv'
<1>1. /\ act' \in [Actors -> Actor] /\ \A b \in Actors : b # "worker" => act'[b] = act[b]
      /\ act'["worker"] = Idle /\ Finish /\ "worker" \in Actors /\ "branch" \in Actors
    BY LeaveEffect DEF IInv, Typed, ActTyped, Actors
<1>2. active' = NoJob /\ PlaceTyped'
    BY <1>1, IdleFields, NoJobType DEF Finish, IInv, Typed, PlaceTyped
<1>3. Continues("worker")
    BY <1>1, LeavesOff
<1>4. Idle.at \notin OnRow /\ Idle.at \notin OnTag /\ Idle.at \notin {"rows", "manifests", "mark", "survey"}
    BY IdleFields DEF OnRow, OnTag, Making, Shipping
<1>5. /\ Typed' /\ Placed' /\ PurgedIsGone'
      /\ Owned' /\ TagsAreUsed' /\ ShipsItsTag' /\ Fresh' /\ Offered'
    BY <1>1, <1>2, <1>3, <1>4, QuietStep
<1>6. Surveyed' /\ Swept' /\ Pointed'
    BY <1>1, <1>4, CleanersStay
<1> QED BY <1>5, <1>6 DEF IInv

\* The worker goes on, outside of the cleaners, with the row and the tag it has.
LEMMA WorkerGoes ==
    ASSUME IInv, Aside, UNCHANGED <<worker, jobs>>, NEW at \in Places, Go("worker", at),
           at \notin Making \cup {"rows", "manifests", "mark", "survey"},
           at \in Shipping => act["worker"].at \in Shipping,
           at \in Writing => act["worker"].at \in Writing,
           at \in OnRow => act["worker"].at \in OnRow,
           at \in OnTag => act["worker"].at \in OnTag,
           act["worker"].at # "mark",
           PlaceTyped',
           \A d \in Ids : rows'[d].status = "succeeded" =>
               rows[d].status = "succeeded" \/ \E b \in Actors : act[b].at \in Shipping /\ act[b].row = d
    PROVE  IInv'
<1>1. /\ act' \in [Actors -> Actor] /\ \A b \in Actors : b # "worker" => act'[b] = act[b]
      /\ act'["worker"].at = at /\ "worker" \in Actors /\ "branch" \in Actors
      /\ act'["worker"].row = act["worker"].row /\ act'["worker"].tag = act["worker"].tag
      /\ act'["worker"].todo = act["worker"].todo
    BY GoEffect DEF IInv, Typed, ActTyped, Actors
<1>2. Continues("worker")
    BY <1>1, GoesOn DEF IInv
<1>3. /\ Typed' /\ Placed' /\ PurgedIsGone'
      /\ Owned' /\ TagsAreUsed' /\ ShipsItsTag' /\ Fresh' /\ Offered'
    BY <1>1, <1>2, QuietStep DEF IInv, Typed, ActTyped
<1>4. Surveyed' /\ Swept' /\ Pointed'
    BY <1>1, CleanersStay
<1> QED BY <1>3, <1>4 DEF IInv

\* The branch goes on, or is done.
LEMMA BranchMoves ==
    ASSUME IInv, Aside, UNCHANGED <<worker, jobs>>, current' = current \/ "moved" \in doubt' \/ ~Sweeping,
           act' \in [Actors -> Actor], act'["worker"] = act["worker"], Continues("branch"),
           act'["branch"].at \in {"idle", "looping", "rollback", "refused"} \cup Shipping,
           act'["branch"].at \in OnRow => act'["branch"].row \in Ids,
           act'["branch"].at \in OnTag => act'["branch"].tag \in Tags,
           act["worker"].at \in Making => act'["branch"].tag # act["worker"].tag,
           \A d \in Ids : rows'[d].status = "succeeded" =>
               rows[d].status = "succeeded" \/ \E b \in Actors : act[b].at \in Shipping /\ act[b].row = d
    PROVE  IInv'
<1>1. \A b \in Actors : b # "branch" => act'[b] = act[b]
    BY DEF Actors
<1>2. PlaceTyped'
    BY DEF IInv, Typed, PlaceTyped, jobs
<1>3. /\ Typed' /\ Placed' /\ PurgedIsGone'
      /\ Owned' /\ TagsAreUsed' /\ ShipsItsTag' /\ Fresh' /\ Offered'
    BY <1>1, <1>2, QuietStep DEF Actors
<1>4. Surveyed' /\ Swept' /\ Pointed'
    BY CleanersStay DEF Sweeping
<1> QED BY <1>3, <1>4 DEF IInv

LEMMA BranchEnds ==
    ASSUME IInv, Aside, UNCHANGED worker, Leave("branch"), current' = current \/ "moved" \in doubt' \/ ~Sweeping,
           \A d \in Ids : rows'[d].status = "succeeded" =>
               rows[d].status = "succeeded" \/ \E b \in Actors : act[b].at \in Shipping /\ act[b].row = d
    PROVE  IInv'
<1>1. /\ act' \in [Actors -> Actor] /\ act'["worker"] = act["worker"]
      /\ act'["branch"] = Idle /\ UNCHANGED jobs /\ "branch" \in Actors
    BY LeaveEffect DEF IInv, Typed, ActTyped, Actors
<1>2. Idle.at = "idle" /\ Idle.at \notin OnRow /\ Idle.at \notin OnTag
    BY IdleFields DEF OnRow, OnTag, Making, Shipping
<1>3. act["worker"].at \in Making => act'["branch"].tag # act["worker"].tag
    BY <1>1, IdleFields DEF IInv, Typed, ActTyped, OnTag, Tags, NoTag, Actors
<1> QED BY <1>1, <1>2, <1>3, LeavesOff, BranchMoves

LEMMA BranchGoes ==
    ASSUME IInv, Aside, UNCHANGED <<worker, jobs, current>>, NEW at \in Places, Go("branch", at),
           at \in {"rollback", "refused"} \cup Shipping,
           at \in Shipping => act["branch"].at \in Shipping,
           at \in Writing => act["branch"].at \in Writing,
           at \in OnTag => act["branch"].at \in OnTag,
           \A d \in Ids : rows'[d].status = "succeeded" =>
               rows[d].status = "succeeded" \/ \E b \in Actors : act[b].at \in Shipping /\ act[b].row = d
    PROVE  IInv'
<1>1. /\ act' \in [Actors -> Actor] /\ act'["worker"] = act["worker"]
      /\ act'["branch"].at = at /\ "branch" \in Actors
      /\ act'["branch"].row = act["branch"].row /\ act'["branch"].tag = act["branch"].tag
      /\ act'["branch"].todo = act["branch"].todo
    BY GoEffect DEF IInv, Typed, ActTyped, Actors
<1>2. Continues("branch")
    BY <1>1, GoesOn DEF IInv, Making, Shipping
<1>3. at \in OnRow => act'["branch"].row \in Ids
    BY <1>1 DEF IInv, Typed, ActTyped, OnRow, Making, Shipping, Writing
<1>4. at \in OnTag => act'["branch"].tag \in Tags
    BY <1>1 DEF IInv, Typed, ActTyped
<1>5. act["worker"].at \in Making => act'["branch"].tag # act["worker"].tag
    BY <1>1 DEF IInv, Fresh
<1> QED BY <1>1, <1>2, <1>3, <1>4, <1>5, BranchMoves

-----------------------------------------------------------------------------
(* ... and the steps themselves *)

LEMMA StopStep ==
    ASSUME IInv, UNCHANGED instance, Stop
    PROVE  IInv'
<1>1. /\ UNCHANGED <<rows, current, image, manifests, on, worker, doubt>>
      /\ act["worker"].at = "stop" /\ Leave("worker")
      /\ served' = served \/ served' = [served EXCEPT !.up = FALSE]
    BY DEF Stop, held
<1>2. Aside
    BY <1>1 DEF Aside, IInv, Typed, RestTyped
<1> QED BY <1>1, <1>2, WorkerEnds

LEMMA StartDeployStep ==
    ASSUME IInv, UNCHANGED instance, StartDeploy
    PROVE  IInv'
<1> DEFINE d == act["worker"].row
<1>1. /\ act["worker"].at = "deploy" /\ Go("worker", "source") /\ UNCHANGED <<worker, jobs>>
      /\ rows' = [rows EXCEPT ![d].status = "building"]
      /\ UNCHANGED <<current, image, manifests, on, served, doubt>>
    BY DEF StartDeploy, held
<1>2. d \in Ids
    BY <1>1 DEF IInv, Typed, ActTyped, OnRow, Actors
<1>3. /\ Aside /\ rows'[d].status = "building"
      /\ \A e \in Ids : e # d => rows'[e] = rows[e]
    BY <1>1, <1>2, StatusMoves DEF IInv, Typed
<1>4. PlaceTyped'
  <2>1. act'["worker"].at = "source" /\ act'["worker"].row = d /\ act'["branch"] = act["branch"] /\ active' = active
    BY <1>1, GoEffect DEF IInv, Typed, ActTyped, Actors, Places, jobs
  <2>2. active.kind = "deploy" /\ active # NoJob
    BY <1>1, WorkerPlaces, NoJobType DEF IInv
  <2> QED BY <1>1, <2>1, <2>2 DEF IInv, Typed, PlaceTyped
<1> QED BY <1>1, <1>3, <1>4, WorkerGoes DEF Places, Making, Shipping, Writing, OnRow, OnTag

LEMMA ThrowStep ==
    ASSUME IInv, UNCHANGED instance, NEW a \in Actors, Throw(a)
    PROVE  IInv'
<1>1. /\ act[a].at \in {"source", "build", "push", "rollout"}
      /\ UNCHANGED <<rows, current, image, manifests, on, served, worker, doubt>>
    BY DEF Throw, held
<1>2. Aside
    BY <1>1, NothingMoves DEF IInv, Typed, RestTyped
<1>3. CASE a = "worker" /\ active.kind = "deploy"
  <2>1. Go("worker", "failed") /\ UNCHANGED jobs
    BY <1>3 DEF Throw
  <2>2. PlaceTyped'
    <3>1. /\ act'["worker"].at = "failed" /\ act'["worker"].row = act["worker"].row
          /\ act'["branch"] = act["branch"] /\ active' = active
      BY <2>1, GoEffect DEF IInv, Typed, ActTyped, Actors, Places, jobs
    <3> QED BY <1>3, <3>1, NoJobType DEF IInv, Typed, PlaceTyped
  <2> QED BY <1>1, <1>2, <1>3, <2>1, <2>2, WorkerGoes DEF Places, Making, Shipping, Writing, OnRow, OnTag
<1>4. CASE ~(a = "worker" /\ active.kind = "deploy")
  <2>1. Leave(a)
    BY <1>4 DEF Throw
  <2> QED BY <1>1, <1>2, <2>1, WorkerEnds, BranchEnds DEF Actors
<1> QED BY <1>3, <1>4

LEMMA RecordRowStep ==
    ASSUME IInv, UNCHANGED instance, NEW a \in Actors, RecordRow(a)
    PROVE  IInv'
<1> DEFINE d == act[a].row
<1>1. /\ act[a].at \in {"accepted", "refused", "failed"}
      /\ UNCHANGED <<current, image, manifests, on, served, worker, doubt>>
    BY DEF RecordRow, held
<1>2. d \in Ids
    BY <1>1 DEF IInv, Typed, ActTyped, OnRow, Shipping
<1>3. CASE act[a].at = "accepted"
  <2>1. rows' = [rows EXCEPT ![d].status = "succeeded"] /\ Go(a, "current") /\ UNCHANGED jobs
    BY <1>3 DEF RecordRow
  <2>2. Aside /\ \A e \in Ids : e # d => rows'[e] = rows[e]
    BY <1>1, <1>2, <2>1, StatusMoves DEF IInv, Typed
  <2>3. \A e \in Ids : rows'[e].status = "succeeded" =>
            rows[e].status = "succeeded" \/ \E b \in Actors : act[b].at \in Shipping /\ act[b].row = e
    BY <1>3, <2>2 DEF Shipping
  <2>4. CASE a = "worker"
    <3>1. PlaceTyped'
      <4>1. /\ act'["worker"].at = "current" /\ act'["worker"].row = act["worker"].row
            /\ act'["branch"] = act["branch"] /\ active' = active
        BY <2>1, <2>4, GoEffect DEF IInv, Typed, ActTyped, Actors, Places, jobs
      <4>2. active.kind \in {"deploy", "rollback"} /\ active # NoJob
        BY <1>3, <2>4, WorkerPlaces, NoJobType DEF IInv, Writing, Shipping
      <4> QED BY <4>1, <4>2 DEF IInv, Typed, PlaceTyped, Shipping
    <3> QED BY <1>1, <1>3, <2>1, <2>2, <2>3, <2>4, <3>1, WorkerGoes
            DEF Places, Making, Shipping, Writing, OnRow, OnTag
  <2>5. CASE a = "branch"
    BY <1>1, <1>3, <2>1, <2>2, <2>3, <2>5, BranchGoes DEF Places, Shipping, Writing, OnRow, OnTag
  <2> QED BY <2>4, <2>5 DEF Actors
<1>4. ASSUME NEW status \in {"rolled_back", "failed"},
             rows' = [rows EXCEPT ![d].status = status], Leave(a)
      PROVE  IInv'
  <2>1. Aside /\ rows'[d].status = status /\ \A e \in Ids : e # d => rows'[e] = rows[e]
    BY <1>1, <1>2, <1>4, StatusMoves DEF IInv, Typed
  <2>2. \A e \in Ids : rows'[e].status = "succeeded" => rows[e].status = "succeeded"
    BY <2>1
  <2> QED BY <1>1, <1>4, <2>1, <2>2, WorkerEnds, BranchEnds DEF Actors
<1> QED BY <1>1, <1>3, <1>4 DEF RecordRow

LEMMA RecordCurrentStep ==
    ASSUME IInv, UNCHANGED instance, NEW a \in Actors, RecordCurrent(a)
    PROVE  IInv'
<1>1. /\ act[a].at = "current" /\ current' = act[a].row /\ Leave(a)
      /\ UNCHANGED <<rows, image, manifests, on, served, worker>>
      /\ doubt' = IF Sweeping THEN doubt \cup {"moved"} ELSE doubt
    BY DEF RecordCurrent, held
<1>2. act[a].row \in Ids
    BY <1>1 DEF IInv, Typed, ActTyped, OnRow, Shipping
<1>3. Aside /\ ("moved" \in doubt' \/ ~Sweeping)
    BY <1>1, <1>2 DEF Aside, IInv, Typed, RestTyped
<1> QED BY <1>1, <1>3, WorkerEnds, BranchEnds DEF Actors

LEMMA RecordRevertedStep ==
    ASSUME IInv, UNCHANGED instance, RecordReverted
    PROVE  IInv'
<1> DEFINE d == act["branch"].row
<1>1. /\ act["branch"].at = "looping" /\ Go("branch", "rollback") /\ UNCHANGED <<worker, jobs>>
      /\ rows' = [rows EXCEPT ![d].status = "reverted_by_watch"]
      /\ UNCHANGED <<current, image, manifests, on, served, doubt>>
    BY DEF RecordReverted, held
<1>2. d \in Ids
    BY <1>1 DEF IInv, Typed, ActTyped, OnRow, Actors
<1>3. /\ Aside /\ rows'[d].status = "reverted_by_watch"
      /\ \A e \in Ids : e # d => rows'[e] = rows[e]
    BY <1>1, <1>2, StatusMoves DEF IInv, Typed
<1> QED BY <1>1, <1>3, BranchGoes DEF Places, Shipping, Writing, OnTag

LEMMA StartBranchStep ==
    ASSUME IInv, UNCHANGED instance, NEW d \in Ids, StartBranch(d)
    PROVE  IInv'
<1>1. /\ act["branch"] = Idle
      /\ UNCHANGED <<rows, current, image, manifests, on, served, jobs, worker, doubt>>
    BY DEF StartBranch, held
<1>2. Aside
    BY <1>1, NothingMoves DEF IInv, Typed, RestTyped
<1>3. PICK e \in 1..(d - 1) :
         /\ rows[e].status = "succeeded"
         /\ act' = [act EXCEPT !["branch"] = [Idle EXCEPT !.at = "looping", !.row = d, !.tag = rows[e].tag]]
    BY DEF StartBranch
<1>4. e \in Ids
    BY ImageAssumption DEF Ids
<1>5. rows[e].tag \in Used /\ rows[e].tag \in Tags
    BY <1>3, <1>4 DEF IInv, TagsAreUsed, Used
<1> DEFINE new == [Idle EXCEPT !.at = "looping", !.row = d, !.tag = rows[e].tag]
<1>6. /\ new \in Actor /\ new.at = "looping" /\ new.row = d /\ new.tag = rows[e].tag /\ new.todo = {}
    BY <1>5, IdleFields DEF Idle, Actor, Places
<1> HIDE DEF new
<1>7. /\ act' \in [Actors -> Actor] /\ act'["worker"] = act["worker"] /\ act'["branch"] = new
    BY <1>3, <1>6 DEF IInv, Typed, ActTyped, Actors, new
<1>8. Continues("branch")
    BY <1>5, <1>6, <1>7 DEF Continues, Making, Shipping, Writing
<1>9. act["worker"].at \in Making => act'["branch"].tag # act["worker"].tag
    BY <1>3, <1>4, <1>6, <1>7 DEF IInv, Fresh
<1> QED BY <1>1, <1>2, <1>5, <1>6, <1>7, <1>8, <1>9, BranchMoves

LEMMA TakeJobStep ==
    ASSUME IInv, UNCHANGED instance, TakeJob
    PROVE  IInv'
<1>1. /\ Take /\ UNCHANGED <<rows, current, image, manifests, on, served, worker, doubt>>
      /\ active = NoJob
    BY DEF TakeJob, Take, held
<1>2. Aside
    BY <1>1, NothingMoves DEF IInv, Typed, RestTyped
<1>3. /\ active' \in Jobs /\ active' = queue[1] /\ active' = Head(queue)
    BY <1>1, TakeKeeps DEF Take, IInv, Typed, WorkerTyped
<1> DEFINE kind == active'.kind
           row  == IF kind = "deploy" THEN active'.arg ELSE NoId
           tag  == IF kind = "rollback" THEN active'.arg ELSE NoTag
           new  == [Idle EXCEPT !.at = kind, !.row = row, !.tag = tag]
<1>4. /\ kind \in JobKinds
      /\ kind = "deploy" => active'.arg \in Ids
      /\ kind = "rollback" => active'.arg \in Tags
      /\ active' # NoJob
    BY <1>3, NoJobType DEF Jobs
<1>5. kind = "rollback" => active'.arg \in Redoes
    BY <1>1, <1>3 DEF Redoes, Waiting, IInv, Typed, WorkerTyped, JobsIn, Take
<1>6. act' = [act EXCEPT !["worker"] = new]
    BY <1>3 DEF TakeJob
<1>7. new \in Actor /\ new.at = kind /\ new.row = row /\ new.tag = tag /\ new.todo = {}
    BY <1>4, IdleFields DEF Idle, Actor, Places, JobKinds
<1> HIDE DEF new
<1>8. /\ act' \in [Actors -> Actor] /\ act'["worker"] = new
      /\ \A b \in Actors : b # "worker" => act'[b] = act[b]
      /\ "worker" \in Actors /\ "branch" \in Actors
    BY <1>6, <1>7 DEF IInv, Typed, ActTyped, Actors
<1>9. PlaceTyped'
    BY <1>4, <1>7, <1>8 DEF IInv, Typed, PlaceTyped, JobKinds
<1>10. Continues("worker")
    BY <1>4, <1>5, <1>7, <1>8 DEF Continues, Making, Shipping, Writing, JobKinds, IInv, TagsAreUsed
<1>11. act["worker"].at = "idle"
    BY <1>1 DEF IInv, Typed, PlaceTyped
<1>12. /\ kind \in OnRow => row \in Ids
       /\ kind \in OnTag => tag \in Tags
    BY <1>4 DEF OnRow, OnTag, Making, Shipping, JobKinds
<1>13. /\ Typed' /\ Placed' /\ PurgedIsGone'
       /\ Owned' /\ TagsAreUsed' /\ ShipsItsTag' /\ Fresh' /\ Offered'
    BY <1>1, <1>2, <1>7, <1>8, <1>9, <1>10, <1>11, <1>12, QuietStep
<1>14. Surveyed' /\ Swept' /\ Pointed'
    BY <1>1, <1>2, <1>4, <1>7, <1>8, CleanersStay DEF JobKinds
<1> QED BY <1>13, <1>14 DEF IInv

LEMMA EndSweepStep ==
    ASSUME IInv, UNCHANGED instance, EndSweep
    PROVE  IInv'
<1>1. /\ UNCHANGED <<rows, current, image, manifests, on, served, worker, doubt>>
      /\ act["worker"].at # "mark" /\ Leave("worker")
    BY DEF EndSweep, held
<1>2. Aside
    BY <1>1, NothingMoves DEF IInv, Typed, RestTyped
<1> QED BY <1>1, <1>2, WorkerEnds

LEMMA MarkThrowsStep ==
    ASSUME IInv, UNCHANGED instance, MarkThrows
    PROVE  IInv'
<1>1. /\ UNCHANGED <<rows, current, image, manifests, on, served, worker>>
      /\ doubt' = doubt \cup {"cut"} /\ Leave("worker")
    BY DEF MarkThrows, held
<1>2. Aside
    BY <1>1, NothingMoves DEF IInv, Typed, RestTyped
<1> QED BY <1>1, <1>2, WorkerEnds

\* The process dies, comes up, and gets back what it held: who shipped is gone,
\* and a mark that was not made is on record.
LEMMA ProcessStep ==
    ASSUME IInv, UNCHANGED instance, Crash \/ Recover \/ JobReturns
    PROVE  IInv'
<1>1. Aside /\ current' = current
  <2>1. CASE Crash
    <3>1. /\ UNCHANGED <<rows, current, image, manifests, on, served>>
          /\ doubt \subseteq doubt' /\ doubt' \subseteq doubt \cup {"cut"}
      BY <2>1 DEF Crash, held
    <3> QED BY <3>1, NothingMoves DEF IInv, Typed, RestTyped
  <2>2. CASE JobReturns
    BY <2>2, NothingMoves DEF IInv, Typed, RestTyped, JobReturns, held
  <2>3. CASE Recover
    <3>1. /\ UNCHANGED <<current, image, manifests, on, served, doubt>>
          /\ \A d \in Ids : rows'[d] = IF rows[d].status \in {"building", "deploying"}
                                       THEN [rows[d] EXCEPT !.status = "failed"] ELSE rows[d]
          /\ rows' = [d \in Ids |-> rows'[d]]
      BY <2>3 DEF Recover, held
    <3>2. ASSUME NEW d \in Ids
          PROVE  /\ rows'[d] \in Row
                 /\ rows'[d].tag = rows[d].tag /\ rows'[d].purged = rows[d].purged
                 /\ rows'[d].status = "absent" => rows'[d] = rows[d]
      BY <3>1 DEF IInv, Typed, RestTyped, Row
    <3>3. rows' \in [Ids -> Row]
      BY <3>1, <3>2
    <3> QED BY <3>1, <3>2, <3>3 DEF Aside, IInv, Typed, RestTyped
  <2> QED BY <2>1, <2>2, <2>3
<1>2. WorkerTyped' /\ Builds' \subseteq Builds /\ Redoes' \subseteq Used
  <2>1. CASE JobReturns
    BY <2>1, JobsSettle DEF JobReturns, IInv
  <2>2. CASE Recover
    <3>1. JobsIn(Jobs)' /\ Builds' \subseteq Builds /\ Redoes' \subseteq Redoes /\ active' = active
      BY <2>2, JobsStay DEF Recover, IInv, Typed, WorkerTyped, jobs
    <3> QED BY <2>2, <3>1 DEF Recover, IInv, Typed, WorkerTyped, TagsAreUsed
  <2>3. CASE Crash
    <3>1. JobsIn(Jobs)' /\ Builds' \subseteq Builds /\ Redoes' \subseteq Redoes
      BY <2>3, JobsStay DEF Crash, IInv, Typed, WorkerTyped
    <3>2. active' = NoJob /\ process' = "down" /\ crashes' \in 0..MaxCrashes
      BY <2>3, QueueAssumption DEF Crash, Die, IInv, Typed, WorkerTyped
    <3> QED BY <3>1, <3>2 DEF IInv, WorkerTyped, TagsAreUsed
  <2> QED BY <2>1, <2>2, <2>3
<1>3. \A a \in Actors : act'[a] = act[a] \/ act'[a] = Idle
    BY DEF Crash, Recover, JobReturns
<1>4. act' \in [Actors -> Actor] /\ "worker" \in Actors /\ "branch" \in Actors
    BY IdleFields DEF Crash, Recover, JobReturns, IInv, Typed, ActTyped, Actors
<1>5. ActTyped'
  <2>1. Idle.at \notin OnRow \cup OnTag
    BY IdleFields DEF OnRow, OnTag, Making, Shipping
  <2> QED BY <1>3, <1>4, <2>1 DEF ActTyped, IInv, Typed
<1>6. PlaceTyped'
  <2>1. CASE Crash
    <3>1. active' = NoJob /\ act'["worker"] = Idle /\ act'["branch"] = Idle
      BY <2>1 DEF Crash, Die, Actors
    <3> QED BY <3>1, IdleFields, NoJobType DEF PlaceTyped, JobKinds
  <2>2. CASE Recover \/ JobReturns
    BY <2>2 DEF Recover, JobReturns, ComesBack, IInv, Typed, PlaceTyped, jobs
  <2> QED BY <2>1, <2>2
<1>7. \A a \in Actors : Continues(a)
    BY <1>3, StaysOn, LeavesOff DEF IInv
<1>8. \A d \in Ids : rows'[d].status = "succeeded" => rows[d].status = "succeeded"
  <2>1. CASE Recover
    <3>1. \A d \in Ids : rows'[d] = IF rows[d].status \in {"building", "deploying"}
                                    THEN [rows[d] EXCEPT !.status = "failed"] ELSE rows[d]
      BY <2>1 DEF Recover
    <3> QED BY <3>1 DEF IInv, Typed, RestTyped, Row
  <2>2. CASE Crash \/ JobReturns
    BY <2>2 DEF Crash, JobReturns
  <2> QED BY <2>1, <2>2
<1>9. act'["worker"].at \in Making => act'["branch"].tag # act["worker"].tag
    BY <1>3, <1>4, <1>7, BranchTagKept
<1>10. act["worker"].at = "mark" => act'["worker"] = act["worker"] \/ "cut" \in doubt'
    BY DEF Crash, Recover, JobReturns
<1>11. /\ RestTyped' /\ Placed' /\ PurgedIsGone'
       /\ Owned' /\ TagsAreUsed' /\ ShipsItsTag' /\ Fresh' /\ Offered'
    BY <1>1, <1>2, <1>5, <1>7, <1>8, <1>9, <1>10, CalmStep
<1>12. Surveyed' /\ Swept' /\ Pointed'
    BY <1>1, <1>3, <1>4, CleanersStay, IdleFields
<1> QED BY <1>2, <1>5, <1>6, <1>11, <1>12 DEF IInv, Typed

-----------------------------------------------------------------------------
(* The window *)

LEMMA TagsFinite == IsFiniteSet(Tags) /\ \A S \in SUBSET Tags : IsFiniteSet(S) /\ Cardinality(S) \in Nat
<1>1. IsFiniteSet(Tags)
    BY ImageAssumption, FS_Interval DEF Tags
<1>2. ASSUME NEW S \in SUBSET Tags PROVE IsFiniteSet(S) /\ Cardinality(S) \in Nat
    BY <1>1, FS_Subset, FS_CardinalityType
<1> QED BY <1>1, <1>2

LEMMA Bigger ==
    ASSUME NEW S \in SUBSET Tags, NEW T \in SUBSET S, Cardinality(T) >= KEEP_PER_SERVICE
    PROVE  Cardinality(S) >= KEEP_PER_SERVICE
<1>1. IsFiniteSet(S) /\ Cardinality(S) \in Nat /\ Cardinality(T) \in Nat
    BY TagsFinite
<1>2. Cardinality(T) <= Cardinality(S)
    BY <1>1, FS_Subset
<1> QED BY <1>1, <1>2, ImageAssumption

\* The tags are in the order of their newest rows.
LEMMA NewerOrder ==
    /\ \A t : Newer(t) \subseteq Listed /\ Newer(t) \subseteq Tags
    /\ \A t : t \notin Newer(t)
    /\ \A t, u, v : u \in Newer(v) /\ v \in Newer(t) => u \in Newer(t)
<1>1. \A t : Newer(t) \subseteq Listed /\ Newer(t) \subseteq Tags
    BY DEF Newer, Listed
<1>2. \A t : t \notin Newer(t)
  <2> SUFFICES ASSUME NEW t, t \in Newer(t) PROVE FALSE
    OBVIOUS
  <2>1. PICK d \in Offers(t) : \A e \in Offers(t) : d > e
    BY DEF Newer
  <2> QED BY <2>1 DEF Offers, Ids
<1>3. ASSUME NEW t, NEW u, NEW v, u \in Newer(v), v \in Newer(t) PROVE u \in Newer(t)
  <2>1. PICK d \in Offers(u) : \A e \in Offers(v) : d > e
    BY <1>3 DEF Newer
  <2>2. PICK f \in Offers(v) : \A e \in Offers(t) : f > e
    BY <1>3 DEF Newer
  <2>3. d > f /\ d \in Int /\ f \in Int /\ \A e \in Offers(t) : e \in Int
    BY <2>1, <2>2 DEF Offers, Ids
  <2>4. \A e \in Offers(t) : d > e
    BY <2>2, <2>3
  <2> QED BY <1>3, <2>1, <2>4 DEF Newer
<1> QED BY <1>1, <1>2, <1>3

\* The newest KEEP_PER_SERVICE tags are not among those that go: a tag that has
\* so many newer ones has so many newer ones that stay.  Among the tags between
\* it and the newest that have as many, take one with the fewest: none of those
\* newer than it has.
LEMMA WindowStays ==
    ASSUME NEW currentTag, NEW t \in tagsToPurge(currentTag)
    PROVE  Cardinality(Newer(t) \ tagsToPurge(currentTag)) >= KEEP_PER_SERVICE
<1> DEFINE P == {u \in Listed : Cardinality(Newer(u)) >= KEEP_PER_SERVICE}
           S == {Newer(v) : v \in (Newer(t) \cup {t}) \cap P}
<1>1. t \in P /\ tagsToPurge(currentTag) \subseteq P
    BY DEF tagsToPurge
<1>2. S \subseteq FiniteSubsetsOf(Tags) /\ S # {}
    BY <1>1, NewerOrder, TagsFinite DEF FiniteSubsetsOf
<1>3. IsWellFoundedOn(StrictSubsetOrdering(Tags), FiniteSubsetsOf(Tags))
    BY FS_StrictSubsetOrderingWellFounded
<1> HIDE DEF S
<1>4. PICK X \in S : \A Y \in S : ~(<<Y, X>> \in StrictSubsetOrdering(Tags))
    BY <1>2, <1>3, WFMin
<1>5. PICK v \in (Newer(t) \cup {t}) \cap P : X = Newer(v)
    BY <1>4 DEF S
<1>6. Newer(v) \subseteq Newer(t) /\ Cardinality(Newer(v)) >= KEEP_PER_SERVICE
    BY <1>5, NewerOrder
<1>7. ASSUME NEW u \in Newer(v), u \in P PROVE FALSE
  <2>1. Newer(u) \in S
    BY <1>6, <1>7 DEF S
  <2>2. Newer(u) \subseteq Newer(v) /\ Newer(u) # Newer(v) /\ Newer(u) \subseteq Tags /\ Newer(v) \subseteq Tags
    BY <1>7, NewerOrder
  <2>3. <<Newer(u), Newer(v)>> \in StrictSubsetOrdering(Tags)
    BY <2>2 DEF StrictSubsetOrdering
  <2> QED BY <1>4, <1>5, <2>1, <2>3
<1>8. Newer(v) \subseteq Newer(t) \ tagsToPurge(currentTag) /\ Newer(t) \subseteq Tags
    BY <1>1, <1>6, <1>7, NewerOrder
<1> QED BY <1>6, <1>8, Bigger

-----------------------------------------------------------------------------
(* The sweep and the prune *)

\* A step of the worker that keeps it in the sweep or in the prune.
LEMMA CleanerStep ==
    ASSUME IInv, Aside, UNCHANGED <<worker, jobs, rows, current>>,
           act' \in [Actors -> Actor], act'["branch"] = act["branch"],
           \/ /\ act["worker"].at \in {"prune-registry", "rows", "manifests"}
              /\ act'["worker"].at \in {"rows", "manifests", "mark"}
           \/ /\ act["worker"].at \in {"prune-docker", "survey"}
              /\ act'["worker"].at = "survey",
           act'["worker"].at = "mark" => act'["worker"].tag \in Tags,
           act'["worker"].tag \in Used \cup {NoTag},
           act'["worker"].todo \subseteq Used,
           Surveyed' /\ Swept' /\ Pointed'
    PROVE  IInv'
<1>1. "worker" \in Actors /\ \A b \in Actors : b # "worker" => act'[b] = act[b]
    BY DEF Actors
<1>2. active' = active /\ active.kind \in {"prune-registry", "prune-docker"} /\ active # NoJob
      /\ (act["worker"].at \in {"prune-registry", "rows", "manifests"} => active.kind = "prune-registry")
      /\ (act["worker"].at \in {"prune-docker", "survey"} => active.kind = "prune-docker")
    BY WorkerPlaces, NoJobType DEF IInv, jobs
<1>3. PlaceTyped'
    BY <1>2 DEF IInv, Typed, PlaceTyped
<1>4. act'["worker"].at \notin Making \cup Shipping \cup Writing \cup OnRow
    BY DEF Making, Shipping, Writing, OnRow
<1>5. Continues("worker")
    BY <1>4 DEF Continues
<1>6. act'["worker"].at \in OnTag => act'["worker"].tag \in Tags
    BY DEF OnTag, Making, Shipping
<1>7. act["worker"].at # "mark"
    OBVIOUS
<1>8. /\ Typed' /\ Placed' /\ PurgedIsGone'
      /\ Owned' /\ TagsAreUsed' /\ ShipsItsTag' /\ Fresh' /\ Offered'
    BY <1>1, <1>3, <1>4, <1>5, <1>6, <1>7, QuietStep
<1> QED BY <1>8 DEF IInv

LEMMA ReadServicesStep ==
    ASSUME IInv, UNCHANGED instance, ReadServices
    PROVE  IInv'
<1>1. /\ act["worker"].at = "prune-registry"
      /\ UNCHANGED <<rows, current, image, manifests, on, served, jobs, worker, doubt>>
    BY DEF ReadServices, held
<1>2. Aside
    BY <1>1, NothingMoves DEF IInv, Typed, RestTyped
<1> DEFINE new == [act["worker"] EXCEPT !.at = "rows", !.pointer = current]
<1>3. /\ act' \in [Actors -> Actor] /\ act'["branch"] = act["branch"]
      /\ act'["worker"].at = "rows" /\ act'["worker"].pointer = current
      /\ act'["worker"].tag = act["worker"].tag /\ act'["worker"].todo = act["worker"].todo
  <2>1. act["worker"] \in Actor /\ act \in [Actors -> Actor] /\ current \in Ids \cup {NoId} /\ "rows" \in Places
    BY DEF IInv, Typed, RestTyped, ActTyped, Actors, Places
  <2>2. /\ new \in Actor /\ new.at = "rows" /\ new.pointer = current
        /\ new.tag = act["worker"].tag /\ new.todo = act["worker"].todo
    BY <2>1 DEF Actor
  <2>3. act' = [act EXCEPT !["worker"] = new]
    BY <2>1 DEF ReadServices
  <2> HIDE DEF new
  <2> QED BY <2>1, <2>2, <2>3 DEF Actors
<1>4. Surveyed' /\ Swept' /\ Pointed'
    BY <1>1, <1>3 DEF Surveyed, Swept, Pointed
<1> QED BY <1>1, <1>2, <1>3, <1>4, CleanerStep DEF IInv, TagsAreUsed, Actors

LEMMA ReadRowsStep ==
    ASSUME IInv, UNCHANGED instance, ReadRows
    PROVE  IInv'
<1> DEFINE pointer == act["worker"].pointer
           tags == tagsToPurge(IF pointer = NoId THEN NoTag ELSE rows[pointer].tag)
           ids  == {d \in Ids : rows[d].tag \in tags /\ ~rows[d].purged}
<1>1. /\ act["worker"].at = "rows"
      /\ UNCHANGED <<rows, current, image, manifests, on, served, jobs, worker, doubt>>
    BY DEF ReadRows, held
<1>2. Aside /\ \A t \in Tags : Newer(t)' = Newer(t)
    BY <1>1, NothingMoves, AsideKeeps DEF IInv, Typed, RestTyped
<1>3. tags \subseteq Used /\ Used \subseteq Tags /\ \A t \in tags : image[t].home = "embedded"
    BY DEF tagsToPurge, Listed, Used, NoImage
<1>4. \A t \in tags : Cardinality(Newer(t) \ tags) >= KEEP_PER_SERVICE
    BY WindowStays
<1>5. pointer # NoId => rows[pointer].tag \notin tags
    BY DEF tagsToPurge
<1>6. act' = [act EXCEPT !["worker"].at = "manifests", !["worker"].todo = tags, !["worker"].ids = ids]
    BY DEF ReadRows
<1> HIDE DEF tags
<1> DEFINE new == [act["worker"] EXCEPT !.at = "manifests", !.todo = tags, !.ids = ids]
<1>7. /\ act' \in [Actors -> Actor] /\ act'["branch"] = act["branch"]
      /\ act'["worker"].at = "manifests" /\ act'["worker"].todo = tags /\ act'["worker"].ids = ids
      /\ act'["worker"].tag = act["worker"].tag
  <2>1. /\ act["worker"] \in Actor /\ act \in [Actors -> Actor] /\ "manifests" \in Places
        /\ ids \subseteq Ids /\ tags \subseteq Tags
    BY <1>3 DEF IInv, Typed, ActTyped, Actors, Places
  <2> HIDE DEF ids
  <2>2. /\ new \in Actor /\ new.at = "manifests" /\ new.todo = tags /\ new.ids = ids
        /\ new.tag = act["worker"].tag
    BY <2>1 DEF Actor
  <2>3. act' = [act EXCEPT !["worker"] = new]
    BY <1>6, <2>1
  <2> HIDE DEF new
  <2> QED BY <2>1, <2>2, <2>3 DEF Actors
<1>8. Surveyed'
    BY <1>7 DEF Surveyed
<1>9. Swept'
  <2>1. Doomed' = tags
    BY <1>7 DEF Doomed, Unmarked
  <2> QED BY <1>1, <1>2, <1>3, <1>4, <1>7, <2>1 DEF Swept
<1>10. Pointed'
    BY <1>1, <1>5, <1>7 DEF Pointed, IInv
<1> QED BY <1>1, <1>2, <1>3, <1>7, <1>8, <1>9, <1>10, CleanerStep DEF IInv, TagsAreUsed, Actors

LEMMA DeleteManifestStep ==
    ASSUME IInv, UNCHANGED instance, NEW t \in Tags, DeleteManifest(t)
    PROVE  IInv'
<1> DEFINE gone == {u \in manifests : /\ image[u].home = "embedded"
                                      /\ image[u].digest = image[t].digest}
<1>1. /\ act["worker"].at = "manifests" /\ t \in act["worker"].todo
      /\ UNCHANGED <<rows, current, image, on, served, jobs, worker>>
    BY DEF DeleteManifest
<1>2. act["worker"] \in Actor /\ act["worker"].todo \subseteq Used /\ act["worker"].tag \in Used \cup {NoTag}
    BY DEF IInv, Typed, ActTyped, TagsAreUsed, Actors
<1>3. image[t].home = "embedded" /\ Doomed = act["worker"].todo /\ Doomed \subseteq Tags
    BY <1>1, <1>2 DEF IInv, Swept, Doomed, Unmarked, Used
<1>4. /\ act' \in [Actors -> Actor] /\ act'["branch"] = act["branch"]
      /\ act'["worker"].todo = act["worker"].todo \ {t}
      /\ act'["worker"].ids = act["worker"].ids
      /\ \/ /\ act'["worker"].at = "mark" /\ act'["worker"].tag = t
            /\ t \in manifests /\ manifests' = manifests \ gone
            /\ doubt' = IF gone # {t} THEN doubt \cup {"shared"} ELSE doubt
         \/ /\ act'["worker"].at = "manifests" /\ act'["worker"].tag = act["worker"].tag
            /\ UNCHANGED <<manifests, doubt>>
    BY <1>1, <1>2 DEF DeleteManifest, IInv, Typed, ActTyped, Actor, Actors, Places
<1>5. Aside
  <2>1. CASE UNCHANGED <<manifests, doubt>>
    BY <1>1, <2>1, NothingMoves DEF IInv, Typed, RestTyped
  <2>2. CASE /\ act'["worker"].at = "mark" /\ act'["worker"].tag = t
             /\ manifests' = manifests \ gone
             /\ doubt' = IF gone # {t} THEN doubt \cup {"shared"} ELSE doubt
    <3>1. \A u \in manifests \ manifests' : Unmarked(u)' \/ "shared" \in doubt'
      BY <2>2 DEF Unmarked
    <3> QED BY <1>1, <2>2, <3>1 DEF Aside, IInv, Typed, RestTyped
  <2> QED BY <1>4, <2>1, <2>2
<1>6. \A u \in Tags : Newer(u)' = Newer(u)
    BY <1>5, AsideKeeps DEF IInv
<1>7. Surveyed'
    BY <1>4 DEF Surveyed
<1>8. Swept'
  <2>1. Doomed' \subseteq Doomed
    BY <1>1, <1>3, <1>4 DEF Doomed, Unmarked
  <2>2. act'["worker"].at = "mark" => act'["worker"].tag \notin manifests'
    BY <1>3, <1>4
  <2>3. "raced" \notin doubt' => "raced" \notin doubt
    BY <1>5 DEF Aside
  <2>4. ASSUME "raced" \notin doubt', NEW u \in Doomed'
        PROVE  Cardinality(Newer(u)' \ Doomed') >= KEEP_PER_SERVICE
    <3>1. Cardinality(Newer(u) \ Doomed) >= KEEP_PER_SERVICE /\ u \in Tags
      BY <1>1, <1>3, <2>1, <2>3, <2>4 DEF IInv, Swept
    <3>2. Newer(u) \ Doomed \subseteq Newer(u)' \ Doomed' /\ Newer(u)' \subseteq Tags
      BY <1>6, <2>1, <3>1, NewerOrder
    <3> QED BY <3>1, <3>2, Bigger
  <2> QED BY <1>1, <1>4, <2>1, <2>2, <2>3, <2>4 DEF IInv, Swept
<1>9. Pointed'
    BY <1>1, <1>4, <1>5 DEF Pointed, IInv, Aside
<1>10. t \in Used /\ t \in Tags
    BY <1>1, <1>2
<1> QED BY <1>1, <1>2, <1>4, <1>5, <1>7, <1>8, <1>9, <1>10, CleanerStep

LEMMA StartPruneStep ==
    ASSUME IInv, UNCHANGED instance, StartPrune
    PROVE  IInv'
<1>1. /\ act["worker"].at = "prune-docker"
      /\ UNCHANGED <<rows, current, image, manifests, on, served, jobs, worker, doubt>>
    BY DEF StartPrune, held
<1>2. Aside
    BY <1>1, NothingMoves DEF IInv, Typed, RestTyped
<1> DEFINE new == [act["worker"] EXCEPT !.at = "survey", !.hosts = instance.hosts]
<1>3. /\ act' \in [Actors -> Actor] /\ act'["branch"] = act["branch"]
      /\ act'["worker"].at = "survey" /\ act'["worker"].hosts = instance.hosts
      /\ act'["worker"].tag = act["worker"].tag /\ act'["worker"].todo = act["worker"].todo
  <2>1. /\ act["worker"] \in Actor /\ act \in [Actors -> Actor] /\ "survey" \in Places
        /\ instance.hosts \subseteq Hosts
    BY ImageAssumption DEF IInv, Typed, RestTyped, ActTyped, Actors, Places, Instance
  <2>2. /\ new \in Actor /\ new.at = "survey" /\ new.hosts = instance.hosts
        /\ new.tag = act["worker"].tag /\ new.todo = act["worker"].todo
    BY <2>1 DEF Actor
  <2>3. act' = [act EXCEPT !["worker"] = new]
    BY <2>1 DEF StartPrune
  <2> HIDE DEF new
  <2> QED BY <2>1, <2>2, <2>3 DEF Actors
<1>4. Surveyed' /\ Swept' /\ Pointed'
    BY <1>1, <1>3 DEF Surveyed, Swept, Pointed, IInv, Placed
<1> QED BY <1>1, <1>2, <1>3, <1>4, CleanerStep DEF IInv, TagsAreUsed, Actors

LEMMA SurveyHostStep ==
    ASSUME IInv, UNCHANGED instance, NEW h \in Hosts, SurveyHost(h)
    PROVE  IInv'
<1>1. /\ act["worker"].at = "survey" /\ h \in act["worker"].hosts
      /\ UNCHANGED <<rows, current, image, manifests, served, jobs, worker, doubt>>
    BY DEF SurveyHost
<1>2. PICK left \in {on[h], IF served.up THEN on[h] \cap {served.tag} ELSE {}} :
         /\ on' = [on EXCEPT ![h] = left]
         /\ \/ act' = [act EXCEPT !["worker"].hosts = @ \ {h}, !["worker"].present = @ \cup left]
            \/ act' = [act EXCEPT !["worker"].hosts = @ \ {h}, !["worker"].fully = FALSE]
    BY DEF SurveyHost
<1>3. /\ left \subseteq on[h] /\ left \subseteq Tags /\ on' \in [Hosts -> SUBSET Tags]
      /\ on'[h] = left /\ \A g \in Hosts : g # h => on'[g] = on[g]
    BY <1>2 DEF IInv, Typed, RestTyped
<1>4. Aside
    BY <1>1, <1>3 DEF Aside, IInv, Typed, RestTyped
<1> DEFINE seen   == [act["worker"] EXCEPT !.hosts = @ \ {h}, !.present = @ \cup left]
           unseen == [act["worker"] EXCEPT !.hosts = @ \ {h}, !.fully = FALSE]
           Same(new) == /\ new \in Actor /\ new.at = "survey" /\ new.hosts = act["worker"].hosts \ {h}
                        /\ new.tag = act["worker"].tag /\ new.todo = act["worker"].todo
<1>5. act["worker"] \in Actor /\ act \in [Actors -> Actor]
    BY DEF IInv, Typed, ActTyped, Actors
<1>6. /\ Same(seen) /\ seen.present = act["worker"].present \cup left /\ seen.fully = act["worker"].fully
      /\ Same(unseen) /\ unseen.fully = FALSE
    BY <1>1, <1>3, <1>5 DEF Actor
<1>7. act' = [act EXCEPT !["worker"] = seen] \/ act' = [act EXCEPT !["worker"] = unseen]
    BY <1>2, <1>5
<1> HIDE DEF seen, unseen
<1>8. /\ act' \in [Actors -> Actor] /\ act'["branch"] = act["branch"]
      /\ Same(act'["worker"])
      /\ act'["worker"].fully =>
           /\ act["worker"].fully
           /\ act'["worker"].present = act["worker"].present \cup left
    BY <1>5, <1>6, <1>7 DEF Actors
<1>9. Surveyed'
    BY <1>1, <1>3, <1>8 DEF Surveyed, IInv
<1>10. Swept' /\ Pointed'
    BY <1>8 DEF Swept, Pointed
<1> QED BY <1>1, <1>4, <1>8, <1>9, <1>10, CleanerStep DEF IInv, TagsAreUsed, Actors

\* Rows with a tag are marked, and nothing else changes but the place of the
\* worker.
LEMMA MarkStep ==
    ASSUME IInv, UNCHANGED <<instance, current, image, manifests, on, served, worker, doubt>>,
           NEW G \in SUBSET Ids, \A d \in G : rows[d].tag # NoTag,
           rows' = [d \in Ids |-> IF d \in G THEN [rows[d] EXCEPT !.purged = TRUE] ELSE rows[d]],
           act' \in [Actors -> Actor], act'["branch"] = act["branch"],
           \/ /\ UNCHANGED jobs /\ act["worker"].at = "mark" /\ act'["worker"].at = "manifests"
              /\ act'["worker"].tag = act["worker"].tag /\ act'["worker"].todo = act["worker"].todo
           \/ Finish /\ act'["worker"] = Idle,
           PurgedIsGone', Offered', Surveyed', Swept', Pointed'
    PROVE  IInv'
<1>1. WorkerTyped' /\ Builds' \subseteq Builds /\ Redoes' \subseteq Used
    BY JobsSettle DEF IInv
<1>2. ASSUME NEW d \in Ids
      PROVE  /\ rows'[d] \in Row /\ rows'[d].tag = rows[d].tag /\ rows'[d].status = rows[d].status
             /\ rows'[d].status = "absent" => rows'[d] = NoRow
  <2>1. rows[d] \in Row /\ (rows[d].status = "absent" => rows[d] = NoRow)
    BY DEF IInv, Typed, RestTyped
  <2>2. CASE d \in G
    <3>1. rows'[d] = [rows[d] EXCEPT !.purged = TRUE]
      BY <2>2
    <3>2. rows[d].status # "absent"
      BY <2>1, <2>2 DEF NoRow
    <3> QED BY <2>1, <3>1, <3>2 DEF Row
  <2>3. CASE d \notin G
    BY <2>1, <2>3
  <2> QED BY <2>2, <2>3
<1>3. rows' \in [Ids -> Row]
    BY <1>2
<1>4. RestTyped'
    BY <1>2, <1>3 DEF IInv, Typed, RestTyped
<1>5. "worker" \in Actors /\ "branch" \in Actors /\ \A a \in Actors : a # "worker" => act'[a] = act[a]
    BY DEF Actors
<1>6. /\ act'["worker"].at \in {"idle", "manifests"}
      /\ act'["worker"].tag \in Used \cup {NoTag} /\ act'["worker"].todo \subseteq Used
    BY <1>5, IdleFields DEF IInv, TagsAreUsed
<1>7. PlaceTyped'
  <2>1. CASE Finish /\ act'["worker"] = Idle
    BY <2>1, IdleFields, NoJobType DEF Finish, IInv, Typed, PlaceTyped
  <2>2. CASE /\ UNCHANGED jobs /\ act["worker"].at = "mark" /\ act'["worker"].at = "manifests"
    <3>1. active' = active /\ active.kind = "prune-registry" /\ active # NoJob
      BY <2>2, WorkerPlaces, NoJobType DEF IInv, jobs
    <3> QED BY <2>2, <3>1 DEF IInv, Typed, PlaceTyped
  <2> QED BY <2>1, <2>2
<1>8. act'["worker"].at \notin OnRow \cup OnTag \cup Writing \cup Shipping \cup Making
    BY <1>6 DEF OnRow, OnTag, Writing, Shipping, Making
<1>9. ActTyped'
    BY <1>5, <1>8 DEF IInv, Typed, ActTyped
<1>10. \A a \in Actors : act[a].at \in Writing \cup Shipping => act[a].row \in Ids
    BY DEF IInv, Typed, ActTyped, OnRow, Writing, Shipping
<1>11. Builds \subseteq Ids
    BY JobTypes DEF IInv, Typed, WorkerTyped
<1>12. Owned'
    BY <1>1, <1>2, <1>5, <1>8, <1>10, <1>11 DEF IInv, Owned
<1>13. Used' = Used
    BY DEF Used
<1>14. TagsAreUsed'
    BY <1>1, <1>2, <1>5, <1>6, <1>13 DEF IInv, TagsAreUsed
<1>15. ShipsItsTag'
    BY <1>2, <1>5, <1>8, <1>10 DEF IInv, ShipsItsTag
<1>16. Fresh' /\ Placed'
    BY <1>8 DEF Fresh, IInv, Placed
<1> QED BY <1>1, <1>4, <1>7, <1>9, <1>12, <1>14, <1>15, <1>16 DEF IInv, Typed

LEMMA MarkPurgedStep ==
    ASSUME IInv, UNCHANGED instance, MarkPurged
    PROVE  IInv'
<1> DEFINE G == {d \in Ids : d \in act["worker"].ids /\ rows[d].tag = act["worker"].tag}
<1>1. /\ act["worker"].at = "mark" /\ Go("worker", "manifests")
      /\ UNCHANGED <<current, image, manifests, on, served, jobs, worker, doubt>>
      /\ rows' = [d \in Ids |-> IF d \in G THEN [rows[d] EXCEPT !.purged = TRUE] ELSE rows[d]]
    BY DEF MarkPurged, held
<1>2. /\ act' \in [Actors -> Actor] /\ act'["branch"] = act["branch"]
      /\ act'["worker"].at = "manifests" /\ act'["worker"].tag = act["worker"].tag
      /\ act'["worker"].todo = act["worker"].todo /\ act'["worker"].ids = act["worker"].ids
    BY <1>1, GoEffect DEF IInv, Typed, ActTyped, Actors, Places
<1>3. act["worker"].tag \in Tags /\ act["worker"].todo \subseteq Tags
    BY <1>1 DEF IInv, Typed, ActTyped, OnTag, Actors, TagsAreUsed, Used
<1>4. Doomed = act["worker"].todo \cup {act["worker"].tag} /\ Doomed' = act["worker"].todo /\ Doomed \subseteq Tags
    BY <1>1, <1>2, <1>3 DEF Doomed, Unmarked
<1>5. /\ image[act["worker"].tag].home = "embedded" /\ act["worker"].tag \notin manifests
    BY <1>1, <1>4 DEF IInv, Swept
<1>6. \A d \in Ids : /\ rows'[d].tag = rows[d].tag /\ rows'[d].status = rows[d].status
                     /\ d \notin G => rows'[d].purged = rows[d].purged
                     /\ d \in G => rows'[d].purged = TRUE
    BY <1>1 DEF IInv, Typed, RestTyped, Row
<1> HIDE DEF G
<1>7. \A d \in G : d \in Ids /\ rows[d].tag = act["worker"].tag /\ rows[d].tag # NoTag
    BY <1>3 DEF G, Tags, NoTag
<1>8. \A d \in Ids : ~rows'[d].purged => ~rows[d].purged
    BY <1>6 DEF IInv, Typed, RestTyped, Row
<1>9. PurgedIsGone'
    BY <1>1, <1>5, <1>6, <1>7 DEF IInv, PurgedIsGone
<1>10. Offered'
  <2> SUFFICES ASSUME doubt \subseteq {"moved", "rebuilt"}, NEW d \in Ids,
                      \/ rows'[d].status = "succeeded"
                      \/ \E a \in Actors : act'[a].at \in Shipping /\ act'[a].row = d,
                      ~rows'[d].purged, image[rows[d].tag].home = "embedded"
               PROVE  rows[d].tag \in manifests
    BY <1>1, <1>6 DEF Offered
  <2>1. \/ rows[d].status = "succeeded"
        \/ \E a \in Actors : act[a].at \in Shipping /\ act[a].row = d
    BY <1>2, <1>6 DEF Actors, Shipping
  <2>2. rows[d].tag \in manifests \/ Unmarked(rows[d].tag)
    BY <1>8, <2>1 DEF IInv, Offered
  <2>3. ASSUME Unmarked(rows[d].tag) PROVE FALSE
    <3>1. rows[d].tag = act["worker"].tag /\ rows[d].tag \in Doomed /\ "raced" \notin doubt
      BY <1>4, <2>3 DEF Unmarked
    <3>2. d \in act["worker"].ids
      BY <1>1, <1>8, <3>1 DEF IInv, Swept
    <3> QED BY <1>6, <3>1, <3>2 DEF G
  <2> QED BY <2>2, <2>3
<1>11. Surveyed'
    BY <1>2 DEF Surveyed
<1>12. Swept'
  <2>1. \A d \in Ids : rows'[d].tag \in Doomed' /\ ~rows'[d].purged => rows[d].tag \in Doomed /\ ~rows[d].purged
    BY <1>4, <1>6, <1>8
  <2>2. \A u \in Tags : Offers(u)' \subseteq Offers(u)
    BY <1>6, <1>8 DEF Offers
  <2>3. \A u \in Tags \ Doomed : Offers(u)' = Offers(u)
    BY <1>4, <1>6, <1>7 DEF Offers
  <2>4. ASSUME NEW t \in Doomed' PROVE Newer(t) \ Doomed \subseteq Newer(t)' \ Doomed'
    <3>1. t \in Tags
      BY <1>3, <1>4
    <3>2. ASSUME NEW u \in Newer(t), u \notin Doomed PROVE u \in Newer(t)'
      <4>1. u \in Listed /\ u \in Tags
        BY NewerOrder
      <4>2. PICK d \in Offers(u) : \A e \in Offers(t) : d > e
        BY DEF Newer
      <4>3. u \in Listed'
        BY <1>1, <2>3, <3>2, <4>1 DEF Listed
      <4> QED BY <2>2, <2>3, <3>1, <3>2, <4>1, <4>2, <4>3 DEF Newer
    <3> QED BY <1>4, <3>2
  <2>5. ASSUME "raced" \notin doubt, NEW t \in Doomed' PROVE Cardinality(Newer(t)' \ Doomed') >= KEEP_PER_SERVICE
    <3>1. Cardinality(Newer(t) \ Doomed) >= KEEP_PER_SERVICE
      BY <1>1, <1>4, <2>5 DEF IInv, Swept
    <3>2. Newer(t)' \subseteq Tags
      BY <1>3, <1>4 DEF Newer, Listed
    <3> QED BY <2>4, <3>1, <3>2, Bigger
  <2>6. \A t \in Doomed' : image[t].home = "embedded"
    BY <1>1, <1>4 DEF IInv, Swept
  <2> QED BY <1>1, <1>2, <2>1, <2>5, <2>6 DEF IInv, Swept
<1>13. Pointed'
    BY <1>1, <1>2, <1>6 DEF IInv, Pointed, Typed, RestTyped
<1>14. G \in SUBSET Ids
    BY DEF G
<1> QED BY <1>1, <1>2, <1>7, <1>9, <1>10, <1>11, <1>12, <1>13, <1>14, MarkStep

LEMMA ReconcileStep ==
    ASSUME IInv, UNCHANGED instance, Reconcile
    PROVE  IInv'
<1> DEFINE gone == {d \in Ids : /\ rows[d].tag # NoTag
                                /\ image[rows[d].tag].home # "embedded"
                                /\ rows[d].tag \notin act["worker"].present}
           G    == IF act["worker"].fully THEN gone ELSE {}
<1>1. /\ act["worker"].at = "survey" /\ act["worker"].hosts = {} /\ Leave("worker")
      /\ UNCHANGED <<current, image, manifests, on, served, worker, doubt>>
    BY DEF Reconcile, held
<1>2. rows' = [d \in Ids |-> IF d \in G THEN [rows[d] EXCEPT !.purged = TRUE] ELSE rows[d]]
    BY DEF Reconcile, IInv, Typed, RestTyped
<1>3. /\ act' \in [Actors -> Actor] /\ act'["branch"] = act["branch"] /\ act'["worker"] = Idle /\ Finish
    BY <1>1, LeaveEffect DEF IInv, Typed, ActTyped, Actors
<1>4. \A d \in Ids : /\ rows'[d].tag = rows[d].tag /\ rows'[d].status = rows[d].status
                     /\ d \notin G => rows'[d].purged = rows[d].purged
                     /\ d \in G => rows'[d].purged = TRUE
    BY <1>2 DEF IInv, Typed, RestTyped, Row
<1>5. G \in SUBSET Ids /\ \A d \in G : rows[d].tag # NoTag
    OBVIOUS
<1>6. ASSUME NEW d \in G
      PROVE  /\ image[rows[d].tag].home # "embedded"
             /\ image[rows[d].tag].home # "external" => \A h \in Hosts : rows[d].tag \notin on[h]
  <2>1. d \in gone /\ act["worker"].fully
    OBVIOUS
  <2>2. image[rows[d].tag].home \in HomeKinds
    BY <2>1 DEF IInv, TagsAreUsed, Used, Typed, RestTyped
  <2> QED BY <1>1, <2>1, <2>2 DEF IInv, Surveyed, HomeKinds
<1> HIDE DEF G
<1>7. PurgedIsGone'
    BY <1>1, <1>4, <1>5, <1>6 DEF IInv, PurgedIsGone
<1>8. Offered'
  <2>1. \A d \in Ids : ~rows'[d].purged => ~rows[d].purged
    BY <1>4 DEF IInv, Typed, RestTyped, Row
  <2>2. \A t : ~Unmarked(t)
    BY <1>1 DEF Unmarked
  <2>3. \A a \in Actors : act'[a].at \in Shipping => act'[a] = act[a]
    BY <1>3, IdleFields DEF Actors, Shipping
  <2> QED BY <1>1, <1>4, <2>1, <2>2, <2>3 DEF IInv, Offered
<1>9. Surveyed' /\ Swept' /\ Pointed'
    BY <1>3, IdleFields DEF Surveyed, Swept, Pointed
<1> QED BY <1>1, <1>2, <1>3, <1>5, <1>7, <1>8, <1>9, MarkStep

-----------------------------------------------------------------------------
(* Making and shipping *)

\* The worker builds for a deployment of its own.
LEMMA MakersOwn ==
    ASSUME IInv, act["worker"].at \in {"source"} \cup Making
    PROVE  /\ active.kind = "deploy" /\ active # NoJob
           /\ act["worker"].row \in Ids /\ act["worker"].row \in Builds
           /\ act["branch"].at \in Writing => act["branch"].row # act["worker"].row
<1>1. active.kind = "deploy" /\ act["worker"].row \in Builds
    BY WorkerPlaces DEF IInv
<1>2. Builds \subseteq Ids
    BY JobTypes DEF IInv, Typed, WorkerTyped
<1> QED BY <1>1, <1>2, NoJobType DEF IInv, Owned

\* The jobs are as they were, the worker is outside of the cleaners.
LEMMA SameJobs ==
    ASSUME IInv, UNCHANGED <<jobs, worker>>
    PROVE  WorkerTyped' /\ active' = active /\ Builds' = Builds /\ Redoes' = Redoes
    BY DEF IInv, Typed, WorkerTyped, JobsIn, Builds, Redoes, Waiting, jobs, worker

LEMMA NotCleaning ==
    ASSUME act'["worker"].at \notin {"rows", "manifests", "mark", "survey"}
    PROVE  Surveyed' /\ Swept' /\ Pointed'
    BY DEF Surveyed, Swept, Pointed

LEMMA ResolveImageStep ==
    ASSUME IInv, UNCHANGED instance, ResolveImage
    PROVE  IInv'
<1> DEFINE d == act["worker"].row
<1>1. /\ act["worker"].at = "source"
      /\ UNCHANGED <<current, manifests, on, served, jobs, worker>>
      /\ doubt' = IF rows[d].purged THEN doubt \cup {"rebuilt"} ELSE doubt
    BY DEF ResolveImage
<1>2. PICK t \in Tags, home \in instance.homes :
         /\ image[t] = NoImage
         /\ rows' = [rows EXCEPT ![d].status = "deploying", ![d].tag = t]
         /\ act' = [act EXCEPT !["worker"].at = "build", !["worker"].tag = t]
         /\ image' = [image EXCEPT ![t].home = home]
    BY DEF ResolveImage
<1>3. /\ active.kind = "deploy" /\ active # NoJob /\ d \in Ids /\ d \in Builds
      /\ act["branch"].at \in Writing => act["branch"].row # d
    BY <1>1, MakersOwn
<1>4. home \in HomeKinds
    BY ImageAssumption DEF IInv, Typed, RestTyped, Instance
<1>5. /\ WorkerTyped' /\ active' = active /\ Builds' = Builds /\ Redoes' = Redoes
    BY <1>1, SameJobs
<1>6. /\ rows' \in [Ids -> Row]
      /\ rows'[d].status = "deploying" /\ rows'[d].tag = t /\ rows'[d].purged = rows[d].purged
      /\ \A e \in Ids : e # d => rows'[e] = rows[e]
  <2> DEFINE new == [rows[d] EXCEPT !.status = "deploying", !.tag = t]
  <2>1. rows \in [Ids -> Row] /\ rows[d] \in Row
    BY <1>3 DEF IInv, Typed, RestTyped
  <2>2. new \in Row /\ new.status = "deploying" /\ new.tag = t /\ new.purged = rows[d].purged
    BY <2>1 DEF Row
  <2>3. rows' = [rows EXCEPT ![d] = new]
    BY <1>2, <2>1
  <2> HIDE DEF new
  <2> QED BY <1>3, <2>1, <2>2, <2>3
<1>7. /\ act' \in [Actors -> Actor] /\ act'["branch"] = act["branch"]
      /\ act'["worker"].at = "build" /\ act'["worker"].tag = t
      /\ act'["worker"].row = d /\ act'["worker"].todo = act["worker"].todo
  <2> DEFINE new == [act["worker"] EXCEPT !.at = "build", !.tag = t]
  <2>1. act \in [Actors -> Actor] /\ act["worker"] \in Actor /\ "build" \in Places
    BY DEF IInv, Typed, ActTyped, Actors, Places
  <2>2. /\ new \in Actor /\ new.at = "build" /\ new.tag = t
        /\ new.row = d /\ new.todo = act["worker"].todo
    BY <2>1 DEF Actor
  <2>3. act' = [act EXCEPT !["worker"] = new]
    BY <1>2, <2>1
  <2> HIDE DEF new
  <2> QED BY <2>1, <2>2, <2>3 DEF Actors
<1>8. /\ image' \in [Tags -> [home : HomeKinds, digest : Tags \cup {NoTag}] \cup {NoImage}]
      /\ image'[t] # NoImage
      /\ \A u \in Tags : u # t => image'[u] = image[u]
  <2> DEFINE new == [image[t] EXCEPT !.home = home]
  <2>1. image \in [Tags -> [home : HomeKinds, digest : Tags \cup {NoTag}] \cup {NoImage}]
    BY DEF IInv, Typed, RestTyped
  <2>2. new = [home |-> home, digest |-> NoTag]
    BY <1>2 DEF NoImage
  <2>3. new \in [home : HomeKinds, digest : Tags \cup {NoTag}] /\ new # NoImage
    BY <1>4, <2>2 DEF NoImage, HomeKinds
  <2>4. image' = [image EXCEPT ![t] = new]
    BY <1>2
  <2> HIDE DEF new
  <2> QED BY <2>1, <2>3, <2>4
<1>9. t \notin Used /\ Used' = Used \cup {t} /\ t # NoTag /\ NoTag \notin Tags
    BY <1>2, <1>8 DEF Used, Tags, NoTag
<1>10. "worker" \in Actors /\ "branch" \in Actors /\ \A a \in Actors : a = "worker" \/ act'[a] = act[a]
    BY <1>7 DEF Actors
<1>11. \A a \in Actors : act'[a].at \in Shipping \cup Writing => act'[a] = act[a] /\ act[a].row \in Ids /\ act[a].row # d
    BY <1>3, <1>7, <1>10 DEF Shipping, Writing, IInv, Typed, ActTyped, OnRow, Actors
<1>12. PlaceTyped'
    BY <1>3, <1>5, <1>7 DEF IInv, Typed, PlaceTyped, Making
<1>13. ActTyped'
    BY <1>3, <1>7, <1>10 DEF IInv, Typed, ActTyped
<1>14. RestTyped'
    BY <1>1, <1>6, <1>8 DEF IInv, Typed, RestTyped
<1>15. Builds \subseteq Ids
    BY JobTypes DEF IInv, Typed, WorkerTyped
<1>16. Owned'
  <2>1. \A e \in Ids : rows[e].status # "absent" => rows'[e].status # "absent"
    BY <1>6
  <2>2. act'["worker"].at \notin Writing
    BY <1>7 DEF Writing, Shipping
  <2> QED BY <1>5, <1>7, <1>10, <1>11, <1>15, <2>1, <2>2 DEF IInv, Owned
<1>17. TagsAreUsed'
    BY <1>1, <1>5, <1>6, <1>7, <1>9, <1>10 DEF IInv, TagsAreUsed
<1>18. ShipsItsTag'
    BY <1>6, <1>11 DEF IInv, ShipsItsTag
<1>19. Fresh'
  <2>1. \A e \in Ids : rows[e].tag # t
    BY <1>9 DEF IInv, TagsAreUsed
  <2>2. t \notin manifests /\ t # served.tag /\ t # act["branch"].tag
    BY <1>9 DEF IInv, TagsAreUsed, Actors
  <2>3. rows'[d].purged => "rebuilt" \in doubt'
    BY <1>1, <1>6
  <2> QED BY <1>1, <1>6, <1>7, <2>1, <2>2, <2>3 DEF Fresh
<1>20. Placed'
    BY <1>1, <1>8, <1>9 DEF IInv, Placed, TagsAreUsed, Used
<1>21. PurgedIsGone'
  <2>1. ASSUME NEW e \in Ids, rows'[e].tag # NoTag, e # d
        PROVE  rows'[e] = rows[e] /\ image'[rows'[e].tag] = image[rows[e].tag]
    BY <1>6, <1>8, <1>9, <2>1 DEF IInv, TagsAreUsed, Used
  <2>2. rows'[d].purged => "rebuilt" \in doubt'
    BY <1>1, <1>6
  <2>3. "rebuilt" \notin doubt' => "rebuilt" \notin doubt
    BY <1>1
  <2> QED BY <1>1, <2>1, <2>2, <2>3 DEF IInv, PurgedIsGone
<1>22. Offered'
  <2> SUFFICES ASSUME doubt' \subseteq {"moved", "rebuilt"}, NEW e \in Ids,
                      \/ rows'[e].status = "succeeded"
                      \/ \E a \in Actors : act'[a].at \in Shipping /\ act'[a].row = e,
                      ~rows'[e].purged, image'[rows'[e].tag].home = "embedded"
               PROVE  rows'[e].tag \in manifests
    BY <1>1 DEF Offered
  <2>1. e # d /\ rows'[e] = rows[e]
    BY <1>6, <1>11
  <2>2. \/ rows[e].status = "succeeded"
        \/ \E a \in Actors : act[a].at \in Shipping /\ act[a].row = e
    BY <1>11, <2>1
  <2>3. rows[e].tag \in Used /\ rows[e].tag # t
    <3>1. rows[e].tag # NoTag
      BY <2>2 DEF IInv, TagsAreUsed, ShipsItsTag, Typed, ActTyped, OnTag, Tags, NoTag
    <3> QED BY <1>9, <3>1 DEF IInv, TagsAreUsed
  <2>4. image[rows[e].tag].home = "embedded" /\ doubt \subseteq {"moved", "rebuilt"}
    BY <1>1, <1>8, <2>1, <2>3 DEF Used
  <2> QED BY <1>1, <2>1, <2>2, <2>4 DEF IInv, Offered, Unmarked
<1>23. Surveyed' /\ Swept' /\ Pointed'
    BY <1>7, NotCleaning
<1> QED BY <1>5, <1>12, <1>13, <1>14, <1>16, <1>17, <1>18, <1>19, <1>20, <1>21, <1>22, <1>23 DEF IInv, Typed

LEMMA BuildStep ==
    ASSUME IInv, UNCHANGED instance, Build
    PROVE  IInv'
<1> DEFINE t == act["worker"].tag
           d == act["worker"].row
           at == IF image[t].home = "host" THEN "rollout" ELSE "push"
<1>1. /\ act["worker"].at = "build" /\ Go("worker", at)
      /\ UNCHANGED <<rows, current, manifests, served, jobs, worker, doubt>>
    BY DEF Build
<1>2. PICK digest \in {t} \cup ({image[u].digest : u \in {v \in Tags : image[v].home = image[t].home}} \ {NoTag}) :
         image' = [image EXCEPT ![t].digest = digest]
    BY DEF Build
<1>3. PICK h \in instance.hosts : on' = [on EXCEPT ![h] = @ \cup {t}]
    BY DEF Build
<1>4. /\ active.kind = "deploy" /\ active # NoJob /\ d \in Ids /\ d \in Builds
      /\ act["branch"].at \in Writing => act["branch"].row # d
    BY <1>1, MakersOwn DEF Making
<1>5. t \in Tags /\ t \in Used /\ h \in Hosts /\ t # NoTag
    BY <1>1, ImageAssumption
       DEF IInv, Typed, ActTyped, RestTyped, OnTag, Making, Actors, TagsAreUsed, Tags, NoTag, Instance
<1>6. WorkerTyped' /\ active' = active /\ Builds' = Builds /\ Redoes' = Redoes
    BY <1>1, SameJobs
<1>7. /\ act' \in [Actors -> Actor] /\ act'["branch"] = act["branch"]
      /\ act'["worker"].at = at /\ act'["worker"].tag = t
      /\ act'["worker"].row = d /\ act'["worker"].todo = act["worker"].todo
    BY <1>1, GoEffect DEF IInv, Typed, ActTyped, Actors, Places
<1>8. /\ image' \in [Tags -> [home : HomeKinds, digest : Tags \cup {NoTag}] \cup {NoImage}]
      /\ image'[t].home = image[t].home /\ image'[t] # NoImage
      /\ \A u \in Tags : u # t => image'[u] = image[u]
  <2> DEFINE new == [image[t] EXCEPT !.digest = digest]
  <2>1. image \in [Tags -> [home : HomeKinds, digest : Tags \cup {NoTag}] \cup {NoImage}]
    BY DEF IInv, Typed, RestTyped
  <2>2. image[t] \in [home : HomeKinds, digest : Tags \cup {NoTag}]
    BY <1>5, <2>1 DEF Used
  <2>3. digest \in Tags
    <3>1. \A u \in Tags : image[u].digest \in Tags \cup {NoTag}
      BY <2>1 DEF NoImage
    <3> QED BY <1>2, <1>5, <3>1
  <2>4. new \in [home : HomeKinds, digest : Tags \cup {NoTag}] /\ new.home = image[t].home
    BY <2>2, <2>3
  <2>5. new # NoImage
    BY <2>4 DEF NoImage, HomeKinds
  <2>6. image' = [image EXCEPT ![t] = new]
    BY <1>2
  <2> HIDE DEF new
  <2> QED BY <1>5, <2>1, <2>4, <2>5, <2>6
<1>9. /\ on' \in [Hosts -> SUBSET Tags] /\ on'[h] = on[h] \cup {t}
      /\ \A g \in Hosts : g # h => on'[g] = on[g]
    BY <1>3, <1>5 DEF IInv, Typed, RestTyped
<1>10. "worker" \in Actors /\ "branch" \in Actors /\ \A a \in Actors : a = "worker" \/ act'[a] = act[a]
    BY <1>7 DEF Actors
<1>11. \A u \in Tags : image'[u].home = image[u].home /\ (image'[u] = NoImage <=> image[u] = NoImage)
    BY <1>5, <1>8 DEF Used
<1>12. Used' = Used
    BY <1>11 DEF Used
<1>13. PlaceTyped'
    BY <1>4, <1>6, <1>7 DEF IInv, Typed, PlaceTyped, Making, Shipping
<1>14. ActTyped'
    BY <1>4, <1>5, <1>7, <1>10 DEF IInv, Typed, ActTyped
<1>15. RestTyped'
    BY <1>1, <1>8, <1>9 DEF IInv, Typed, RestTyped
<1>16. \A e \in Ids : rows[e].tag = t <=> e = d
    BY <1>1 DEF IInv, Fresh, Making
<1>17. Owned'
    BY <1>1, <1>4, <1>6, <1>7, <1>10 DEF IInv, Owned
<1>18. TagsAreUsed'
    BY <1>1, <1>5, <1>6, <1>7, <1>9, <1>10, <1>12 DEF IInv, TagsAreUsed
<1>19. ShipsItsTag'
    BY <1>1, <1>4, <1>7, <1>10, <1>16 DEF IInv, ShipsItsTag
<1>20. Fresh'
    BY <1>1, <1>5, <1>7, <1>11 DEF IInv, Fresh, Making
<1>21. Placed'
    BY <1>1, <1>3, <1>9, <1>11 DEF IInv, Placed, Typed, RestTyped
<1>22. PurgedIsGone'
  <2> SUFFICES ASSUME NEW e \in Ids, rows[e].purged, rows[e].tag # NoTag,
                      image'[rows[e].tag].home # "external", "rebuilt" \notin doubt
               PROVE  IF image'[rows[e].tag].home = "embedded"
                      THEN rows[e].tag \notin manifests
                      ELSE \A g \in Hosts : rows[e].tag \notin on'[g]
    BY <1>1 DEF PurgedIsGone
  <2>1. e # d
    BY <1>1, <1>4 DEF IInv, Fresh, Making
  <2>2. rows[e].tag # t /\ rows[e].tag \in Tags
    BY <1>16, <2>1 DEF IInv, TagsAreUsed, Used
  <2>3. image'[rows[e].tag].home = image[rows[e].tag].home
    BY <1>11, <2>2
  <2> QED BY <1>9, <2>2, <2>3 DEF IInv, PurgedIsGone
<1>23. Offered'
  <2> SUFFICES ASSUME doubt \subseteq {"moved", "rebuilt"}, NEW e \in Ids,
                      \/ rows[e].status = "succeeded"
                      \/ \E a \in Actors : act'[a].at \in Shipping /\ act'[a].row = e,
                      ~rows[e].purged, image'[rows[e].tag].home = "embedded"
               PROVE  rows[e].tag \in manifests
    BY <1>1 DEF Offered
  <2>1. CASE e = d
    <3>1. rows[e].tag = t /\ rows[d].status # "succeeded" /\ image[t].home = "embedded"
      BY <1>1, <1>8, <1>16, <2>1 DEF IInv, Fresh, Making
    <3>2. act'["worker"].at = "push"
      BY <1>7, <3>1
    <3>3. PICK a \in Actors : act'[a].at \in Shipping /\ act'[a].row = d
      BY <2>1, <3>1
    <3>4. a = "branch"
      BY <3>2, <3>3 DEF Shipping, Actors
    <3>5. act["branch"].at \in Writing /\ act["branch"].row = d
      BY <1>7, <3>3, <3>4 DEF Writing
    <3> QED BY <1>4, <3>5
  <2>2. CASE e # d
    <3>1. \/ rows[e].status = "succeeded"
          \/ \E a \in Actors : act[a].at \in Shipping /\ act[a].row = e
      BY <1>7, <1>10, <2>2
    <3>2. rows[e].tag \in Tags
      BY <3>1 DEF IInv, TagsAreUsed, ShipsItsTag, Typed, ActTyped, OnTag, Used
    <3> QED BY <1>1, <1>11, <3>1, <3>2 DEF IInv, Offered, Unmarked
  <2> QED BY <2>1, <2>2
<1>24. Surveyed' /\ Swept' /\ Pointed'
    BY <1>7, NotCleaning
<1> QED BY <1>6, <1>13, <1>14, <1>15, <1>17, <1>18, <1>19, <1>20, <1>21, <1>22, <1>23, <1>24 DEF IInv, Typed

LEMMA PushStep ==
    ASSUME IInv, UNCHANGED instance, Push
    PROVE  IInv'
<1> DEFINE t == act["worker"].tag
           d == act["worker"].row
<1>1. /\ act["worker"].at = "push" /\ Go("worker", "rollout")
      /\ manifests' = manifests \cup {t} /\ on' = [h \in Hosts |-> on[h] \ {t}]
      /\ UNCHANGED <<rows, current, image, served, jobs, worker, doubt>>
    BY DEF Push
<1>2. /\ active.kind = "deploy" /\ active # NoJob /\ d \in Ids /\ d \in Builds
      /\ act["branch"].at \in Writing => act["branch"].row # d
    BY <1>1, MakersOwn DEF Making
<1>3. t \in Tags /\ t \in Used
    BY <1>1 DEF IInv, Typed, ActTyped, OnTag, Making, Actors, TagsAreUsed, Tags, NoTag
<1>4. WorkerTyped' /\ active' = active /\ Builds' = Builds /\ Redoes' = Redoes
    BY <1>1, SameJobs
<1>5. /\ act' \in [Actors -> Actor] /\ act'["branch"] = act["branch"]
      /\ act'["worker"].at = "rollout" /\ act'["worker"].tag = t
      /\ act'["worker"].row = d /\ act'["worker"].todo = act["worker"].todo
    BY <1>1, GoEffect DEF IInv, Typed, ActTyped, Actors, Places
<1>6. "worker" \in Actors /\ "branch" \in Actors /\ \A a \in Actors : a = "worker" \/ act'[a] = act[a]
    BY <1>5 DEF Actors
<1>7. /\ \A e \in Ids : rows[e].tag = t <=> e = d
      /\ rows[d].status # "absent" /\ (rows[d].purged => "rebuilt" \in doubt) /\ image[t].home # "host"
    BY <1>1 DEF IInv, Fresh, Making
<1>8. Used' = Used
    BY <1>1 DEF Used
<1>9. PlaceTyped'
    BY <1>2, <1>4, <1>5 DEF IInv, Typed, PlaceTyped, Shipping
<1>10. ActTyped'
    BY <1>2, <1>3, <1>5, <1>6 DEF IInv, Typed, ActTyped
<1>11. RestTyped'
    BY <1>1, <1>3 DEF IInv, Typed, RestTyped
<1>12. Owned'
    BY <1>1, <1>2, <1>4, <1>5, <1>6, <1>7 DEF IInv, Owned
<1>13. TagsAreUsed'
    BY <1>1, <1>3, <1>4, <1>5, <1>6, <1>8 DEF IInv, TagsAreUsed
<1>14. ShipsItsTag'
    BY <1>1, <1>2, <1>5, <1>6, <1>7 DEF IInv, ShipsItsTag
<1>15. Fresh' /\ Placed'
    BY <1>1, <1>5, <1>7 DEF IInv, Fresh, Placed, Making
<1>16. PurgedIsGone'
    BY <1>1, <1>7 DEF IInv, PurgedIsGone
<1>17. Offered'
  <2> SUFFICES ASSUME doubt \subseteq {"moved", "rebuilt"}, NEW e \in Ids,
                      \/ rows[e].status = "succeeded"
                      \/ \E a \in Actors : act'[a].at \in Shipping /\ act'[a].row = e,
                      ~rows[e].purged, image[rows[e].tag].home = "embedded"
               PROVE  rows[e].tag \in manifests'
    BY <1>1 DEF Offered
  <2>1. CASE e = d
    BY <1>1, <1>7, <2>1
  <2>2. CASE e # d
    <3>1. \/ rows[e].status = "succeeded"
          \/ \E a \in Actors : act[a].at \in Shipping /\ act[a].row = e
      BY <1>5, <1>6, <2>2
    <3> QED BY <1>1, <3>1 DEF IInv, Offered, Unmarked
  <2> QED BY <2>1, <2>2
<1>18. Surveyed' /\ Swept' /\ Pointed'
    BY <1>5, NotCleaning
<1> QED BY <1>4, <1>9, <1>10, <1>11, <1>12, <1>13, <1>14, <1>15, <1>16, <1>17, <1>18 DEF IInv, Typed

LEMMA RedeployStep ==
    ASSUME IInv, UNCHANGED instance, NEW a \in Actors, NEW d \in Ids, Redeploy(a, d)
    PROVE  IInv'
<1> DEFINE tag == act[a].tag
           other == {b \in Actors : b # a}
<1>1. /\ act[a].at = "rollback" /\ rows[d].status = "absent"
      /\ UNCHANGED <<current, image, manifests, on, served, jobs, worker>>
      /\ doubt \subseteq doubt' /\ doubt' \subseteq doubt \cup {"missing", "raced"}
      /\ image[tag].home = "embedded" /\ tag \notin manifests => "missing" \in doubt'
      /\ Sweeping => "raced" \in doubt'
    BY DEF Redeploy, Inserts, held
<1>2. tag \in Tags /\ tag \in Used /\ tag # NoTag
    BY <1>1 DEF IInv, Typed, ActTyped, OnTag, TagsAreUsed, Tags, NoTag
<1>3. /\ rows' \in [Ids -> Row]
      /\ rows'[d].status = "deploying" /\ rows'[d].tag = tag /\ rows'[d].purged = FALSE
      /\ \A e \in Ids : e # d => rows'[e] = rows[e]
  <2> DEFINE new == [status |-> "deploying", tag |-> tag, purged |-> FALSE]
  <2>1. new \in Row /\ new.status = "deploying" /\ new.tag = tag /\ new.purged = FALSE
    BY <1>2 DEF Row
  <2>2. rows' = [rows EXCEPT ![d] = new]
    BY DEF Redeploy
  <2>3. rows \in [Ids -> Row]
    BY DEF IInv, Typed, RestTyped
  <2> HIDE DEF new
  <2> QED BY <2>1, <2>2, <2>3
<1>4. /\ act' \in [Actors -> Actor] /\ \A b \in other : act'[b] = act[b]
      /\ act'[a].at = "rollout" /\ act'[a].tag = tag
      /\ act'[a].row = d /\ act'[a].todo = act[a].todo
  <2> DEFINE new == [act[a] EXCEPT !.at = "rollout", !.row = d]
  <2>1. act \in [Actors -> Actor] /\ act[a] \in Actor /\ "rollout" \in Places
    BY DEF IInv, Typed, ActTyped, Actors, Places
  <2>2. /\ new \in Actor /\ new.at = "rollout" /\ new.tag = tag
        /\ new.row = d /\ new.todo = act[a].todo
    BY <2>1 DEF Actor
  <2>3. act' = [act EXCEPT ![a] = new]
    BY <2>1 DEF Redeploy
  <2> HIDE DEF new
  <2> QED BY <2>1, <2>2, <2>3
<1> HIDE DEF tag
<1>5. WorkerTyped' /\ active' = active /\ Builds' = Builds /\ Redoes' = Redoes
    BY <1>1, SameJobs
<1>6. "worker" \in Actors /\ "branch" \in Actors /\ (\A b \in Actors : b = a \/ act'[b] = act[b])
      /\ Actors = {"worker", "branch"}
    BY <1>4 DEF Actors
<1>7. /\ d \notin Builds /\ Builds \subseteq Ids
      /\ \A b \in Actors : act[b].at \in Writing \cup Making => act[b].row \in Ids /\ act[b].row # d
  <2>1. Builds \subseteq Ids
    BY JobTypes DEF IInv, Typed, WorkerTyped
  <2>2. \A b \in Actors : act[b].at \in Writing => act[b].row \in Ids /\ act[b].row # d
    BY <1>1 DEF IInv, Owned, Typed, ActTyped, OnRow, Writing, Shipping
  <2>3. act["branch"].at \notin Making
    BY DEF IInv, Typed, PlaceTyped, Making, Shipping
  <2>4. act["worker"].at \in Making => act["worker"].row \in Ids /\ act["worker"].row # d
    BY <1>1, MakersOwn DEF IInv, Fresh
  <2> QED BY <1>1, <1>6, <2>1, <2>2, <2>3, <2>4 DEF IInv, Owned
<1>8. Used' = Used
    BY <1>1 DEF Used
<1>9. PlaceTyped'
  <2>1. a = "worker" => active.kind = "rollback" /\ active # NoJob
    BY <1>1, WorkerPlaces, NoJobType DEF IInv
  <2> QED BY <1>4, <1>5, <1>6, <2>1 DEF IInv, Typed, PlaceTyped, Shipping
<1>10. ActTyped'
    BY <1>2, <1>4, <1>6 DEF IInv, Typed, ActTyped
<1>11. RestTyped'
    BY <1>1, <1>3 DEF IInv, Typed, RestTyped
<1>12. Owned'
  <2>1. \A e \in Ids : rows[e].status # "absent" => rows'[e].status # "absent"
    BY <1>3
  <2>2. \A b \in Actors : act'[b].at \in Writing => rows'[act'[b].row].status # "absent"
    BY <1>3, <1>4, <1>6, <1>7, <2>1 DEF IInv, Owned
  <2>3. act'["branch"].at \in Writing => act'["branch"].row \notin Builds
    BY <1>4, <1>6, <1>7 DEF IInv, Owned
  <2>4. act'["branch"].at \in Writing /\ act'["worker"].at \in Writing => act'["worker"].row # act'["branch"].row
    BY <1>4, <1>6, <1>7 DEF IInv, Owned
  <2> QED BY <1>5, <1>7, <2>1, <2>2, <2>3, <2>4 DEF IInv, Owned
<1>13. TagsAreUsed'
    BY <1>1, <1>2, <1>3, <1>4, <1>5, <1>6, <1>8 DEF IInv, TagsAreUsed
<1>14. ShipsItsTag'
    BY <1>3, <1>4, <1>6, <1>7 DEF IInv, ShipsItsTag, Writing
<1>15. Fresh'
  <2> SUFFICES ASSUME act'["worker"].at \in Making PROVE Fresh'
    BY DEF Fresh
  <2>1. a = "branch" /\ act'["worker"] = act["worker"]
    BY <1>4, <1>6 DEF Making
  <2>2. act["worker"].row \in Ids /\ act["worker"].row # d
    BY <1>6, <1>7, <2>1
  <2>3. act["worker"].tag # tag /\ rows[d].tag # act["worker"].tag
    BY <2>1, <2>2 DEF IInv, Fresh, tag
  <2> QED BY <1>1, <1>3, <1>4, <2>1, <2>2, <2>3 DEF IInv, Fresh
<1>16. Placed'
    BY <1>1 DEF IInv, Placed
<1>17. PurgedIsGone'
    BY <1>1, <1>3 DEF IInv, PurgedIsGone
<1>18. Offered'
  <2> SUFFICES ASSUME doubt' \subseteq {"moved", "rebuilt"}, NEW e \in Ids,
                      \/ rows'[e].status = "succeeded"
                      \/ \E b \in Actors : act'[b].at \in Shipping /\ act'[b].row = e,
                      ~rows'[e].purged, image[rows'[e].tag].home = "embedded"
               PROVE  (rows[e].tag \in manifests \/ Unmarked(rows[e].tag))'
    BY <1>1 DEF Offered
  <2>1. CASE e = d
    BY <1>1, <1>3, <2>1
  <2>2. CASE e # d
    <3>1. \/ rows[e].status = "succeeded"
          \/ \E b \in Actors : act[b].at \in Shipping /\ act[b].row = e
      BY <1>3, <1>4, <1>6, <2>2
    <3>2. rows[e].tag \in manifests \/ Unmarked(rows[e].tag)
      BY <1>1, <1>3, <2>2, <3>1 DEF IInv, Offered
    <3>3. Unmarked(rows[e].tag) => act'["worker"] = act["worker"]
      BY <1>1, <1>6 DEF Unmarked
    <3> QED BY <1>1, <1>3, <2>2, <3>2, <3>3 DEF Unmarked
  <2> QED BY <2>1, <2>2
<1>19. Surveyed' /\ Swept' /\ Pointed'
  <2>1. CASE a = "worker"
    BY <1>4, <2>1, NotCleaning
  <2>2. CASE a = "branch"
    <3>1. act'["worker"] = act["worker"]
      BY <1>6, <2>2
    <3>2. Sweeping => "raced" \in doubt'
      BY <1>1
    <3>3. Surveyed'
      BY <1>1, <3>1 DEF IInv, Surveyed
    <3>4. Doomed' = Doomed
      BY <3>1 DEF Doomed, Unmarked
    <3>5. Swept' /\ Pointed'
      BY <1>1, <3>1, <3>2, <3>4 DEF IInv, Swept, Pointed, Sweeping
    <3> QED BY <3>3, <3>5
  <2> QED BY <1>6, <2>1, <2>2
<1> QED BY <1>5, <1>9, <1>10, <1>11, <1>12, <1>13, <1>14, <1>15, <1>16, <1>17, <1>18, <1>19 DEF IInv, Typed

LEMMA RolloutStep ==
    ASSUME IInv, UNCHANGED instance, NEW a \in Actors, Rollout(a)
    PROVE  IInv'
<1> DEFINE tag == act[a].tag
<1>1. /\ act[a].at = "rollout" /\ UNCHANGED <<rows, current, image, manifests, jobs, worker, doubt>>
      /\ Go(a, "accepted") \/ Go(a, "refused")
      /\ served' = served \/ served' = [tag |-> tag, up |-> TRUE]
    BY DEF Rollout
<1>2. /\ act[a].row \in Ids /\ tag \in Tags /\ tag \in Used /\ tag # NoTag
      /\ on \in [Hosts -> SUBSET Tags] /\ instance.hosts \subseteq Hosts
    BY <1>1, ImageAssumption
       DEF IInv, Typed, ActTyped, RestTyped, OnRow, OnTag, Shipping, TagsAreUsed, Tags, NoTag, Instance
<1> DEFINE Pulls == /\ on' \in [Hosts -> SUBSET Tags]
                    /\ \A h \in Hosts : \/ on'[h] = on[h]
                                        \/ on'[h] = on[h] \cup {tag} /\ tag \in manifests /\ h \in instance.hosts
<1>3. Pulls
  <2>1. CASE on' = on
    BY <1>2, <2>1
  <2>2. ASSUME tag \in manifests, NEW h \in instance.hosts, on' = [on EXCEPT ![h] = @ \cup {tag}]
        PROVE  Pulls
    BY <1>2, <2>2
  <2> QED BY <2>1, <2>2 DEF Rollout
<1>4. /\ act' \in [Actors -> Actor] /\ \A b \in Actors : b # a => act'[b] = act[b]
      /\ act'[a].at \in {"accepted", "refused"} /\ act'[a].tag = tag
      /\ act'[a].row = act[a].row /\ act'[a].todo = act[a].todo
    BY <1>1, GoEffect DEF IInv, Typed, ActTyped, Places
<1>5. /\ served' \in [tag : Tags \cup {NoTag}, up : BOOLEAN]
      /\ served'.tag = served.tag \/ served'.tag = tag
  <2>1. served \in [tag : Tags \cup {NoTag}, up : BOOLEAN]
    BY DEF IInv, Typed, RestTyped
  <2>2. ASSUME served' = [tag |-> tag, up |-> TRUE]
        PROVE  served' \in [tag : Tags \cup {NoTag}, up : BOOLEAN] /\ served'.tag = tag
    BY <1>2, <2>2
  <2> QED BY <1>1, <2>1, <2>2
<1> HIDE DEF tag
<1>6. WorkerTyped' /\ active' = active /\ Builds' = Builds /\ Redoes' = Redoes
    BY <1>1, SameJobs
<1>7. "worker" \in Actors /\ "branch" \in Actors /\ Actors = {"worker", "branch"}
    BY DEF Actors
<1>8. Used' = Used /\ NoTag \notin Tags
    BY <1>1 DEF Used, NoTag, Tags
<1>9. PlaceTyped'
  <2>1. a = "worker" => active.kind \in {"deploy", "rollback"} /\ active # NoJob
    BY <1>1, WorkerPlaces, NoJobType DEF IInv, Writing, Shipping
  <2> QED BY <1>4, <1>6, <1>7, <2>1 DEF IInv, Typed, PlaceTyped, Shipping
<1>10. ActTyped'
    BY <1>2, <1>4, <1>7 DEF IInv, Typed, ActTyped
<1>11. RestTyped'
    BY <1>1, <1>3, <1>5 DEF IInv, Typed, RestTyped
<1>12. \A b \in Actors : /\ act'[b].row = act[b].row /\ act'[b].tag = act[b].tag /\ act'[b].todo = act[b].todo
                         /\ act'[b].at \in Shipping => act[b].at \in Shipping
                         /\ act'[b].at \in Writing => act[b].at \in Writing
    BY <1>1, <1>4 DEF Shipping, Writing, tag
<1>13. Owned' /\ ShipsItsTag'
    BY <1>1, <1>6, <1>7, <1>12 DEF IInv, Owned, ShipsItsTag
<1>14. TagsAreUsed'
    BY <1>1, <1>2, <1>3, <1>5, <1>6, <1>8, <1>12 DEF IInv, TagsAreUsed
<1>15. Fresh'
  <2> SUFFICES ASSUME act'["worker"].at \in Making PROVE Fresh'
    BY DEF Fresh
  <2>1. a = "branch" /\ act'["worker"] = act["worker"]
    BY <1>4, <1>7 DEF Making
  <2>2. act["worker"].tag # tag
    BY <2>1 DEF IInv, Fresh, tag
  <2> QED BY <1>1, <1>5, <1>7, <1>12, <2>1, <2>2 DEF IInv, Fresh
<1>16. Placed'
    BY <1>1, <1>3 DEF IInv, Placed
<1>17. tag \in manifests => image[tag].home # "host"
    BY DEF IInv, Placed
<1>18. PurgedIsGone'
  <2> SUFFICES ASSUME NEW e \in Ids, rows[e].purged, rows[e].tag # NoTag,
                      image[rows[e].tag].home # "external", "rebuilt" \notin doubt
               PROVE  IF image[rows[e].tag].home = "embedded"
                      THEN rows[e].tag \notin manifests
                      ELSE \A g \in Hosts : rows[e].tag \notin on'[g]
    BY <1>1 DEF PurgedIsGone
  <2>1. image[rows[e].tag].home \in HomeKinds
    BY DEF IInv, TagsAreUsed, Used, Typed, RestTyped
  <2> QED BY <1>3, <1>17, <2>1 DEF IInv, PurgedIsGone, HomeKinds
<1>19. Offered'
  <2>1. \A t : Unmarked(t) => Unmarked(t)'
    BY <1>1, <1>4, <1>7 DEF Unmarked
  <2> QED BY <1>1, <1>12, <2>1 DEF IInv, Offered
<1>20. Surveyed' /\ Swept' /\ Pointed'
  <2>1. CASE a = "worker"
    BY <1>4, <2>1, NotCleaning
  <2>2. CASE a = "branch"
    <3>1. act'["worker"] = act["worker"]
      BY <1>4, <1>7, <2>2
    <3>2. Surveyed'
      BY <1>3, <1>1, <1>17, <3>1 DEF IInv, Surveyed
    <3>3. Doomed' = Doomed
      BY <3>1 DEF Doomed, Unmarked
    <3>4. \A t \in Tags : Newer(t)' = Newer(t)
      BY <1>1, NewerStays
    <3>5. Doomed \subseteq Tags
      BY <1>7 DEF Doomed, IInv, TagsAreUsed, Used
    <3>6. Swept' /\ Pointed'
      BY <1>1, <3>1, <3>3, <3>4, <3>5 DEF IInv, Swept, Pointed
    <3> QED BY <3>2, <3>6
  <2> QED BY <1>7, <2>1, <2>2
<1> QED BY <1>6, <1>9, <1>10, <1>11, <1>13, <1>14, <1>15, <1>16, <1>18, <1>19, <1>20 DEF IInv, Typed

-----------------------------------------------------------------------------
(* The invariant *)

LEMMA InitHolds == Init => IInv
<1> SUFFICES ASSUME Init PROVE IInv
    OBVIOUS
<1>1. /\ \A d \in Ids : rows[d] = NoRow
      /\ \A t \in Tags : image[t] = NoImage
      /\ \A a \in Actors : act[a] = Idle
      /\ \A h \in Hosts : on[h] = {}
      /\ current = NoId /\ manifests = {} /\ doubt = {} /\ served = [tag |-> NoTag, up |-> FALSE]
      /\ active = NoJob /\ stalled = {} /\ Waiting = {} /\ process = "up" /\ crashes = 0
      /\ "worker" \in Actors /\ "branch" \in Actors
    BY DEF Init, QueueInit, Waiting, Actors
<1>2. NoRow \in Row /\ NoRow.status = "absent" /\ NoRow.tag = NoTag /\ NoRow.purged = FALSE
    BY DEF NoRow, Row, NoTag
<1>3. Idle.at \notin OnRow \cup OnTag \cup Making \cup Shipping \cup Writing \cup {"survey", "rows", "manifests", "mark"}
    BY IdleFields DEF OnRow, OnTag, Making, Shipping, Writing
<1>4. Builds = {} /\ Redoes = {}
    BY <1>1, NoJobType, JobTypes DEF Builds, Redoes, JobKinds
<1>5. JobsIn(Jobs)
    BY DEF Init, QueueInit, JobsIn
<1>6. Typed
  <2>1. WorkerTyped
    BY <1>1, <1>5, QueueAssumption DEF WorkerTyped
  <2>2. PlaceTyped
    BY <1>1, IdleFields, NoJobType DEF PlaceTyped, JobKinds
  <2>3. ActTyped
    BY <1>1, <1>3, IdleFields DEF ActTyped, Init
  <2>4. RestTyped
    BY <1>1, <1>2 DEF RestTyped, Init
  <2> QED BY <2>1, <2>2, <2>3, <2>4 DEF Typed
<1>7. Owned /\ ShipsItsTag /\ Fresh /\ Surveyed /\ Swept
    BY <1>1, <1>3, <1>4 DEF Owned, ShipsItsTag, Fresh, Surveyed, Swept
<1>8. TagsAreUsed /\ Placed /\ PurgedIsGone
    BY <1>1, <1>2, <1>4, IdleFields DEF TagsAreUsed, Placed, PurgedIsGone
<1>9. Offered /\ Pointed
    BY <1>1, <1>2, <1>3 DEF Offered, Pointed
<1> QED BY <1>6, <1>7, <1>8, <1>9 DEF IInv

LEMMA ShipStep ==
    ASSUME IInv, UNCHANGED instance, Ship
    PROVE  IInv'
    BY StartDeployStep, ResolveImageStep, BuildStep, PushStep, RedeployStep, RolloutStep,
       ThrowStep, RecordRowStep, RecordCurrentStep
    DEF Ship

LEMMA CleanStep ==
    ASSUME IInv, UNCHANGED instance, Clean
    PROVE  IInv'
    BY ReadServicesStep, ReadRowsStep, MarkPurgedStep, MarkThrowsStep, EndSweepStep, DeleteManifestStep,
       StartPruneStep, ReconcileStep, SurveyHostStep
    DEF Clean

LEMMA StutterStep ==
    ASSUME IInv, UNCHANGED vars
    PROVE  IInv'
<1>1. /\ UNCHANGED <<instance, rows, current, image, manifests, on, served, jobs, worker, act, doubt>>
    BY DEF vars, steps, held
<1>2. Aside
    BY <1>1, NothingMoves DEF IInv, Typed, RestTyped
<1>3. WorkerTyped' /\ active' = active /\ Builds' = Builds /\ Redoes' = Redoes
    BY <1>1, SameJobs
<1>4. PlaceTyped' /\ ActTyped'
    BY <1>1, <1>3 DEF IInv, Typed, PlaceTyped, ActTyped
<1>5. \A a \in Actors : Continues(a)
    BY <1>1, StaysOn DEF IInv
<1>6. act'["worker"].at \in Making => act'["branch"].tag # act["worker"].tag
    BY <1>1 DEF IInv, Fresh
<1>7. /\ RestTyped' /\ Placed' /\ PurgedIsGone'
      /\ Owned' /\ TagsAreUsed' /\ ShipsItsTag' /\ Fresh' /\ Offered'
    BY <1>1, <1>2, <1>3, <1>4, <1>5, <1>6, CalmStep DEF IInv, TagsAreUsed
<1>8. Surveyed' /\ Swept' /\ Pointed'
    BY <1>1, <1>2, CleanersStay
<1> QED BY <1>3, <1>4, <1>7, <1>8 DEF IInv, Typed

LEMMA NextHolds == IInv /\ [Next]_vars => IInv'
    BY DashboardStep, TakeJobStep, StopStep, ShipStep, CleanStep, StartBranchStep, RecordRevertedStep,
       ProcessStep, StutterStep
    DEF Next, Step

LEMMA IInvAlways == Spec => []IInv
    BY InitHolds, NextHolds, PTL DEF Spec

-----------------------------------------------------------------------------
(* The theorems *)

\* Every variable keeps its type; the worker stands idle when it has no job,
\* and only then.
THEOREM TypeCorrect == Spec => []TypeOK
<1>1. IInv => TypeOK
  <2> SUFFICES ASSUME IInv PROVE TypeOK
    OBVIOUS
  <2>1. JobsOK(JobKinds, Ids \cup Tags \cup {NoId})
    <3> DEFINE AnyJobs == [kind : JobKinds, arg : Ids \cup Tags \cup {NoId}, again : BOOLEAN]
    <3>1. Jobs \subseteq AnyJobs
      BY DEF Jobs
    <3> HIDE DEF AnyJobs
    <3>2. queue \in Seq(AnyJobs) /\ active \in AnyJobs \cup {NoJob} /\ stalled \subseteq AnyJobs
      BY <3>1 DEF IInv, Typed, WorkerTyped, JobsIn
    <3> QED BY <3>2 DEF AnyJobs, JobsOK, IInv, Typed, WorkerTyped
  <2>2. (act["worker"].at = "idle") = (active = NoJob)
    <3>1. active.kind \in JobKinds \cup {"none"} /\ (active.kind = "none" => active = NoJob)
      BY JobTypes DEF IInv, Typed, WorkerTyped
    <3> QED BY <3>1 DEF IInv, Typed, PlaceTyped, JobKinds, Making, Shipping
  <2> QED BY <2>1, <2>2 DEF TypeOK, IInv, Typed, ActTyped, RestTyped
<1> QED BY <1>1, IInvAlways, PTL

\* What the history calls expired is gone, out of the registry or off every
\* host, whatever is built, redeployed, swept or pruned next.
THEOREM PurgedAlwaysGone == Spec => []PurgedIsGone
<1>1. IInv => PurgedIsGone
    BY DEF IInv
<1> QED BY <1>1, IInvAlways, PTL

\* What the history offers for a redeploy is in the registry whenever the
\* worker is done.
THEOREM OfferedAlwaysThere == Spec => []OfferedIsThere
<1>1. IInv => OfferedIsThere
    BY DEF IInv, Offered, OfferedIsThere, Unmarked
<1> QED BY <1>1, IInvAlways, PTL

\* The registry loses a tag in one step only, the deletion of a manifest.
LEMMA OnlyTheSweepDeletes ==
    ASSUME IInv, [Next]_vars, \E t \in manifests : t \notin manifests'
    PROVE  \E t \in Tags : DeleteManifest(t)
<1>1. CASE UNCHANGED vars
    BY <1>1 DEF vars, steps, held
<1>2. CASE Dashboard \/ TakeJob \/ Stop \/ Crash \/ Recover \/ JobReturns \/ RecordReverted
           \/ (\E d \in Ids : StartBranch(d))
    BY <1>2 DEF Dashboard, RequestDeploy, RequestRollback, RequestJob, TakeJob, Stop, Crash, Recover,
                JobReturns, RecordReverted, StartBranch, held
<1>3. CASE Ship
    BY <1>3 DEF Ship, StartDeploy, ResolveImage, Build, Push, Redeploy, Rollout, Throw, RecordRow,
                RecordCurrent, held
<1>4. CASE Clean
    BY <1>4 DEF Clean, ReadServices, ReadRows, MarkPurged, MarkThrows, EndSweep, StartPrune, Reconcile, SurveyHost, held
<1> QED BY <1>1, <1>2, <1>3, <1>4 DEF Next, Step

\* The sweep deletes a manifest only when KEEP_PER_SERVICE tags are newer, and
\* whatever is built beside it.
THEOREM WindowKept == Spec => WindowSpared
<1>1. ASSUME IInv, [Next]_vars, NEW t \in manifests \ manifests', {"shared", "raced"} \cap doubt' = {}
      PROVE  Cardinality(Newer(t)) >= KEEP_PER_SERVICE
  <2>1. PICK u \in Tags : DeleteManifest(u)
    BY <1>1, OnlyTheSweepDeletes
  <2> DEFINE gone == {v \in manifests : /\ image[v].home = "embedded"
                                        /\ image[v].digest = image[u].digest}
  <2>2. /\ act["worker"].at = "manifests" /\ u \in act["worker"].todo /\ manifests' = manifests \ gone
        /\ doubt' = IF gone # {u} THEN doubt \cup {"shared"} ELSE doubt
    BY <2>1 DEF DeleteManifest
  <2> HIDE DEF gone
  <2>3. gone = {u} /\ t = u /\ "raced" \notin doubt
    BY <1>1, <2>2
  <2>4. u \in Doomed
    BY <2>2 DEF Doomed
  <2>5. Cardinality(Newer(u) \ Doomed) >= KEEP_PER_SERVICE
    BY <1>1, <2>2, <2>3, <2>4 DEF IInv, Swept
  <2>6. Newer(u) \subseteq Tags
    BY NewerOrder
  <2> QED BY <2>3, <2>5, <2>6, Bigger
<1>2. IInv /\ [Next]_vars =>
        [\A t \in manifests \ manifests' :
           {"shared", "raced"} \cap doubt' = {} => Cardinality(Newer(t)) >= KEEP_PER_SERVICE]_vars
    BY <1>1
<1> QED BY <1>2, IInvAlways, PTL DEF Spec, WindowSpared

\* No host loses the image of a service that runs: a prune spares it, and a push
\* takes the tag in the making only, which is another.
LEMMA RunningStays ==
    ASSUME IInv, [Next]_vars, NEW t, t # NoTag, served.up, served.tag = t, NEW h \in Hosts, t \in on[h]
    PROVE  t \in on'[h]
<1>0. on \in [Hosts -> SUBSET Tags] /\ instance.hosts \subseteq Hosts
    BY ImageAssumption DEF IInv, Typed, RestTyped, Instance
<1>1. CASE on' = on
    BY <1>1
<1>2. CASE Push
  <2>1. t # act["worker"].tag
    BY <1>2 DEF Push, IInv, Fresh, Making
  <2> QED BY <1>2, <2>1 DEF Push
<1>3. CASE Build
  <2>1. PICK g \in instance.hosts : on' = [on EXCEPT ![g] = @ \cup {act["worker"].tag}]
    BY <1>3 DEF Build
  <2> QED BY <1>0, <2>1
<1>4. ASSUME NEW a \in Actors, Rollout(a) PROVE t \in on'[h]
  <2>1. on' = on \/ \E g \in instance.hosts : on' = [on EXCEPT ![g] = @ \cup {act[a].tag}]
    BY <1>4 DEF Rollout
  <2> QED BY <1>0, <2>1
<1>5. ASSUME NEW g \in Hosts, SurveyHost(g) PROVE t \in on'[h]
  <2>1. PICK left \in {on[g], on[g] \cap {t}} : on' = [on EXCEPT ![g] = left]
    BY <1>5 DEF SurveyHost
  <2> QED BY <1>0, <2>1
<1>6. CASE UNCHANGED vars
    BY <1>6 DEF vars, steps, held
<1>7. CASE Dashboard \/ TakeJob \/ Stop \/ Crash \/ Recover \/ JobReturns \/ RecordReverted
           \/ (\E d \in Ids : StartBranch(d))
    BY <1>7 DEF Dashboard, RequestDeploy, RequestRollback, RequestJob, TakeJob, Stop, Crash, Recover,
                JobReturns, RecordReverted, StartBranch, held
<1>8. CASE Ship
    BY <1>2, <1>3, <1>4, <1>8 DEF Ship, StartDeploy, ResolveImage, Redeploy, Throw, RecordRow, RecordCurrent, held
<1>9. CASE Clean
    BY <1>5, <1>9 DEF Clean, ReadServices, ReadRows, MarkPurged, MarkThrows, EndSweep, StartPrune, Reconcile,
                      DeleteManifest, held
<1> QED BY <1>6, <1>7, <1>8, <1>9 DEF Next, Step

\* No cleaner takes the image of the current deployment, and no prune that of
\* the service while it runs.
THEOREM CurrentKept == Spec => CurrentSpared
<1> DEFINE t == rows[current].tag
           Kept == current # NoId /\ t # NoTag /\ {"shared", "raced", "moved"} \cap doubt' = {} =>
                     /\ t \in manifests => t \in manifests'
                     /\ served.up /\ served.tag = t /\ (\E h \in Hosts : t \in on[h])
                          => \E h \in Hosts : t \in on'[h]
<1>1. ASSUME IInv, [Next]_vars, current # NoId, t # NoTag, {"shared", "raced", "moved"} \cap doubt' = {},
             t \in manifests
      PROVE  t \in manifests'
  <2> SUFFICES ASSUME t \notin manifests' PROVE FALSE
    OBVIOUS
  <2>1. PICK u \in Tags : DeleteManifest(u)
    BY <1>1, OnlyTheSweepDeletes
  <2> DEFINE gone == {v \in manifests : /\ image[v].home = "embedded"
                                        /\ image[v].digest = image[u].digest}
  <2>2. /\ act["worker"].at = "manifests" /\ u \in act["worker"].todo
        /\ \/ manifests' = manifests \ gone /\ doubt' = IF gone # {u} THEN doubt \cup {"shared"} ELSE doubt
           \/ UNCHANGED <<manifests, doubt>>
    BY <2>1 DEF DeleteManifest
  <2> HIDE DEF gone
  <2>3. t = u /\ "raced" \notin doubt /\ "moved" \notin doubt
    BY <1>1, <2>2
  <2> QED BY <1>1, <2>2, <2>3 DEF IInv, Pointed
<1>2. IInv /\ [Next]_vars => Kept
    BY <1>1, RunningStays
<1> QED BY <1>2, IInvAlways, PTL DEF Spec, CurrentSpared
================================================================================
