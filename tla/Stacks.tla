------------------------------- MODULE Stacks -------------------------------
(***************************************************************************)
(* One Compose stack.  A deployment of it is one row, but several Swarm     *)
(* services: `docker stack deploy' updates them one after the other,        *)
(* without --prune, and Swarm may roll back each on its own.  The verdicts  *)
(* are read one after the other too, and the row is accepted when all are.  *)
(*                                                                          *)
(* Two actors ship the stack: the deploy worker (deployments and            *)
(* rollbacks), and the branch of the watch sweep that reverts a deployment  *)
(* whose services crash, which is not a job of the deploy queue.  Both go   *)
(* through shipStack, so the steps from there on take the actor as their    *)
(* argument.                                                                *)
(***************************************************************************)
EXTENDS Integers, Sequences, Lifecycle, JobQueue

CONSTANTS
    Services,        \* keys of the compose files of the repository
    Files,           \* the compose files a commit may hold, as sets of keys
    MaxDeployments,  \* bound: rows of `stack_deployments'
    Requests         \* what the operator asks for in this instance

JobKinds == {"deploy", "rollback", "delete"}

ASSUME StacksAssumption ==
    /\ Services # {}
    /\ Files \subseteq (SUBSET Services) \ {{}}
    /\ MaxDeployments \in Nat \ {0}
    /\ Requests \subseteq JobKinds

Ids    == 1..MaxDeployments
NoId   == 0
Actors == {"worker", "branch"}

VARIABLES
    stack,     \* the row of `stacks'
    rows,      \* the rows of `stack_deployments', ids in the order of createdAt
    request,   \* the row queueStackDeploy has yet to enqueue, or NoId
    deleting,  \* deleteStack marked the row and enqueues next
    act,       \* where each actor stands
    swarm,     \* the Swarm services of the stack's namespace
    doubt,     \* history: what went wrong and no row tells
    left       \* history: rows a redeploy that threw left deploying

asked == <<request, deleting>>
vars  == <<stack, rows, asked, jobs, worker, act, swarm, doubt, left>>

-----------------------------------------------------------------------------
(* Types *)

\* source: the row whose images this one ships, itself unless it is a redeploy.
Row == [ status : {"absent", "queued", "building", "deploying", "succeeded",
                   "rolled_back", "failed", "reverted_by_watch"},
         keys   : {{}} \cup Files,     \* composeSource
         built  : BOOLEAN,             \* serviceImages
         source : Ids \cup {NoId},
         watch  : BOOLEAN ]            \* watchUntil lies ahead

NoRow == [status |-> "absent", keys |-> {}, built |-> FALSE, source |-> NoId, watch |-> FALSE]

\* image names the row that built it, previous what an update goes back to.
Service   == [image : Ids \cup {NoId}, previous : Ids \cup {NoId},
              update : {"none", "updating", "rolled_back"}]   \* none: absent or completed
NoService == [image |-> NoId, previous |-> NoId, update |-> "none"]

Shipping  == {"rolling", "verdict"}
Recording == {"accepted", "current", "unwatch", "refused", "failed", "crashed"}

Actor == [ at      : JobKinds \cup Shipping \cup Recording \cup
                     {"idle", "compose", "build", "erasing", "stuck",
                      "looping", "reverting", "reverted", "stranded"},
           row     : Ids \cup {NoId},  \* the row it works on
           source  : Ids \cup {NoId},  \* the row it ships again, or NoId
           image   : Ids \cup {NoId},  \* the images it ships, or NoId: none were built
           keys    : {{}} \cup Files,   \* the services of its file
           todo    : SUBSET Services,  \* services to update, or to ask about
           refused : BOOLEAN ]
Idle  == [at |-> "idle", row |-> NoId, source |-> NoId, image |-> NoId,
          keys |-> {}, todo |-> {}, refused |-> FALSE]

TypeOK ==
    /\ stack \in [status : RESOURCE_STATUSES \cup {"gone"}, error : BOOLEAN,
                  current : Ids \cup {NoId}]
    /\ rows \in [Ids -> Row]
    /\ request \in Ids \cup {NoId}
    /\ deleting \in BOOLEAN
    /\ JobsOK(JobKinds, Ids \cup {NoId})
    /\ act \in [Actors -> Actor]
    /\ (act["worker"].at = "idle") = (active = NoJob)
    /\ swarm \in [Services -> Service]
    /\ doubt \subseteq {"overlap", "late", "cut", "removed"}
    /\ left \subseteq Ids

-----------------------------------------------------------------------------
(* Helpers *)

Gone == stack.status = "gone"

UpdateStack(row) == stack' = IF Gone THEN stack ELSE row

UpdateRow(d, row) ==
    rows' = IF rows[d].status = "absent" THEN rows ELSE [rows EXCEPT ![d] = row]

\* The id of the next row.
Inserts(d) ==
    /\ rows[d].status = "absent"
    /\ \A e \in 1..(d - 1) : rows[e].status # "absent"

Go(a, at) == act' = [act EXCEPT ![a].at = at]

\* The handler, or the branch, returned or threw.
Leave(a) ==
    /\ act' = [act EXCEPT ![a] = Idle]
    /\ IF a = "worker" THEN Finish ELSE UNCHANGED jobs

\* shipStack rolls this file out.  When the other actor is still at it, what
\* the services run in the end is anybody's guess.
BeginRollout(a, d, image, keys) ==
    /\ act' = [act EXCEPT ![a] = [@ EXCEPT !.at = "rolling", !.row = d, !.image = image,
                                           !.keys = keys, !.todo = keys]]
    /\ doubt' = IF \E b \in Actors \ {a} : act[b].at \in Shipping \cup Recording \cup {"erasing"}
                THEN {"overlap"} ELSE {}

-----------------------------------------------------------------------------
(* The dashboard *)

\* queueStackDeploy: insert the row, mark the stack whatever its status is, ...
RequestDeploy(d) ==
    /\ "deploy" \in Requests
    /\ ~Gone
    /\ request = NoId
    /\ Inserts(d)
    /\ rows' = [rows EXCEPT ![d] = [NoRow EXCEPT !.status = "queued", !.source = d]]
    /\ UpdateStack(MarkDeploying(stack))
    /\ request' = d
    /\ UNCHANGED <<deleting, jobs, worker, act, swarm, doubt, left>>

\* ... enqueue the job.
RequestEnqueue ==
    /\ request # NoId
    /\ Enqueue("deploy", request)
    /\ request' = NoId
    /\ UNCHANGED <<stack, rows, deleting, worker, act, swarm, doubt, left>>

\* triggerStackRollback: any row with a compose file will do.  (Bound: one at a
\* time, and while a row is left for it.)
RequestRollback(d) ==
    /\ "rollback" \in Requests
    /\ ~Gone
    /\ \E e \in Ids : rows[e].status = "absent"
    /\ \A e \in Ids : ~Pending("rollback", e)
    /\ rows[d].keys # {}
    /\ Enqueue("rollback", d)
    /\ UNCHANGED <<stack, rows, asked, worker, act, swarm, doubt, left>>

\* deleteStack: mark, ...
RequestDelete ==
    /\ "delete" \in Requests
    /\ ~Gone
    /\ ~deleting
    /\ UpdateStack(MarkDeleting(stack))
    /\ deleting' = TRUE
    /\ UNCHANGED <<rows, request, jobs, worker, act, swarm, doubt, left>>

\* ... then enqueue.
DeleteEnqueue ==
    /\ deleting
    /\ Enqueue("delete", NoId)
    /\ deleting' = FALSE
    /\ UNCHANGED <<stack, rows, request, worker, act, swarm, doubt, left>>

Dashboard ==
    \/ \E d \in Ids : RequestDeploy(d) \/ RequestRollback(d)
    \/ RequestEnqueue \/ RequestDelete \/ DeleteEnqueue

-----------------------------------------------------------------------------
(* runStackDeploy *)

TakeJob ==
    /\ Take
    /\ act' = [act EXCEPT !["worker"] =
         [Idle EXCEPT !.at = Head(queue).kind,
                      !.row = IF Head(queue).kind = "deploy" THEN Head(queue).arg ELSE NoId,
                      !.source = IF Head(queue).kind = "rollback" THEN Head(queue).arg ELSE NoId]]
    /\ UNCHANGED <<stack, rows, asked, worker, swarm, doubt, left>>

\* It throws when the row is gone.
StartDeploy ==
    LET d == act["worker"].row IN
    /\ act["worker"].at = "deploy"
    /\ IF rows[d].status = "absent"
       THEN Leave("worker") /\ UNCHANGED rows
       ELSE /\ rows' = [rows EXCEPT ![d].status = "building"]
            /\ Go("worker", "compose")
            /\ UNCHANGED jobs
    /\ UNCHANGED <<stack, asked, worker, swarm, doubt, left>>

\* fetchSource resolves a commit, once per row, and onComposeRead stores the
\* file it holds.
ReadCompose ==
    LET d == act["worker"].row IN
    /\ act["worker"].at = "compose"
    /\ \E keys \in IF rows[d].keys = {} THEN Files ELSE {rows[d].keys} :
         UpdateRow(d, [rows[d] EXCEPT !.keys = keys])
    /\ Go("worker", "build")
    /\ UNCHANGED <<stack, asked, jobs, worker, swarm, doubt, left>>

\* Every service is built before the images are stored, and the rollout begins.
Build ==
    LET d == act["worker"].row IN
    /\ act["worker"].at = "build"
    /\ UpdateRow(d, [rows[d] EXCEPT !.built = TRUE, !.status = "deploying"])
    /\ BeginRollout("worker", d, d, rows[d].keys)
    /\ UNCHANGED <<stack, asked, jobs, worker, swarm, left>>

-----------------------------------------------------------------------------
(* redeployStack, for a rollback or a revert: insert a row that copies the    *)
(* source, and ship it.  It has no try: what throws leaves the row deploying. *)

Redeploy(a, d) ==
    LET source == act[a].source IN
    /\ act[a].at \in {"rollback", "reverted"}
    /\ source # NoId
    /\ IF Gone \/ rows[source].keys = {}
       THEN Leave(a) /\ UNCHANGED <<rows, doubt>>
       ELSE /\ Inserts(d)
            /\ rows' = [rows EXCEPT ![d] = [rows[source] EXCEPT !.status = "deploying",
                                                                !.watch = FALSE]]
            /\ BeginRollout(a, d, IF rows[source].built THEN rows[source].source ELSE NoId,
                            rows[source].keys)
            /\ UNCHANGED jobs
    /\ UNCHANGED <<stack, asked, worker, swarm, left>>

-----------------------------------------------------------------------------
(* writeAndDeployStack and what its caller records, for either actor *)

\* `docker stack deploy' comes to service s, unless s has no image to run.
\* Swarm forgets the verdict on the update before.  When all are updated, the
\* verdicts are asked for in turn.
Roll(a, s) ==
    LET image == act[a].image
        rest  == act[a].todo \ {s} IN
    /\ act[a].at = "rolling"
    /\ s \in act[a].todo
    /\ image # NoId
    /\ swarm' = [swarm EXCEPT ![s] =
         IF @.image \in {NoId, image}
         THEN [NoService EXCEPT !.image = image]
         ELSE [image |-> image, previous |-> @.image, update |-> "updating"]]
    /\ act' = [act EXCEPT ![a].at = IF rest = {} THEN "verdict" ELSE @,
                          ![a].todo = IF rest = {} THEN act[a].keys ELSE rest]
    /\ UNCHANGED <<stack, rows, asked, jobs, worker, doubt, left>>

\* What awaitSwarmVerdict may say of service s: an update Swarm has not taken
\* up reads absent, and one that outlasts the deadline is refused.
Verdicts(s) ==
    (IF swarm[s].update # "rolled_back" THEN {"accepted"} ELSE {}) \cup
    (IF swarm[s].update \in {"updating", "rolled_back"} THEN {"refused"} ELSE {})

\* Mutant: the last verdict decides.
ReadLastVerdict(a) ==
    /\ act[a].at = "verdict"
    /\ \E s \in act[a].todo, verdict \in {"accepted", "refused"} :
         LET rest == act[a].todo \ {s} IN
         /\ verdict \in Verdicts(s)
         /\ act' = [act EXCEPT ![a].at = IF rest = {} THEN verdict ELSE @, ![a].todo = rest]
    /\ UNCHANGED <<stack, rows, asked, jobs, worker, swarm, doubt, left>>

\* The stack is accepted when every service of its file is.  (The verdicts are
\* read in the order of the file: here in any order.)
ReadVerdict(a) ==
    /\ act[a].at = "verdict"
    /\ \E s \in act[a].todo, verdict \in {"accepted", "refused"} :
         LET rest    == act[a].todo \ {s}
             refused == act[a].refused \/ verdict = "refused" IN
         /\ verdict \in Verdicts(s)
         /\ act' = [act EXCEPT ![a].at = IF rest # {} THEN @
                                         ELSE IF refused THEN "refused" ELSE "accepted",
                               ![a].todo = rest, ![a].refused = refused]
    /\ UNCHANGED <<stack, rows, asked, jobs, worker, swarm, doubt, left>>

\* Mutant: nothing catches what a deployment throws.
ThrowUncaught(a) ==
    /\ act[a].at \in {"compose", "build"} \cup Shipping
    /\ Leave(a)
    /\ doubt' = doubt \cup {"cut"}
    /\ left' = left \cup {act[a].row}
    /\ UNCHANGED <<stack, rows, asked, worker, swarm>>

\* Everything before the verdict may throw: connections, the build, docker, a
\* service that does not converge.  runStackDeploy records it, redeployStack
\* does not, whatever it has rolled out by then.
Throw(a) ==
    /\ act[a].at \in {"compose", "build"} \cup Shipping
    /\ IF act[a].source = NoId
       THEN Go(a, "failed") /\ UNCHANGED <<jobs, doubt, left>>
       ELSE /\ Leave(a)
            /\ doubt' = doubt \cup {"cut"}
            /\ left' = left \cup {act[a].row}
    /\ UNCHANGED <<stack, rows, asked, worker, swarm>>

\* recordAcceptedStack: the row, ...
RecordRow(a) ==
    LET d == act[a].row IN
    /\ \/ act[a].at = "accepted" /\ Go(a, "current")
          /\ UpdateRow(d, [rows[d] EXCEPT !.status = "succeeded", !.watch = TRUE])
       \/ act[a].at = "refused" /\ Go(a, "crashed")
          /\ UpdateRow(d, [rows[d] EXCEPT !.status = "rolled_back"])
       \/ act[a].at = "failed" /\ Go(a, "crashed")
          /\ UpdateRow(d, [rows[d] EXCEPT !.status = "failed"])
    /\ UNCHANGED <<stack, asked, jobs, worker, swarm, doubt, left>>

\* ... the stack, ...
RecordStack(a) ==
    /\ \/ act[a].at = "current" /\ Go(a, "unwatch") /\ UNCHANGED jobs
          /\ UpdateStack([MarkRunning(stack) EXCEPT !.current = act[a].row])
       \/ act[a].at = "crashed" /\ Leave(a)
          /\ UpdateStack(MarkCrashed(stack))
    /\ UNCHANGED <<rows, asked, worker, swarm, doubt, left>>

\* ... and the watches of the other rows.
ClearSupersededWatch(a) ==
    /\ act[a].at = "unwatch"
    /\ rows' = [d \in Ids |-> IF d = act[a].row THEN rows[d]
                              ELSE [rows[d] EXCEPT !.watch = FALSE]]
    /\ Leave(a)
    /\ UNCHANGED <<stack, asked, worker, swarm, doubt, left>>

Ship(a) ==
    \/ \E s \in Services : Roll(a, s)
    \/ ReadVerdict(a) \/ Throw(a) \/ RecordRow(a) \/ RecordStack(a) \/ ClearSupersededWatch(a)

-----------------------------------------------------------------------------
(* The watch sweep *)

\* It finds the row succeeded and watched, and one of its services looping.
\* (When the window closes first, this does not happen; nothing else reads it.)
StartBranch(d) ==
    /\ process = "up"
    /\ act["branch"] = Idle
    /\ rows[d].status = "succeeded"
    /\ rows[d].watch
    /\ act' = [act EXCEPT !["branch"] = [Idle EXCEPT !.at = "looping", !.row = d]]
    /\ UNCHANGED <<stack, rows, asked, jobs, worker, swarm, doubt, left>>

\* The last deployment before it that succeeded, ...
FindPrevious ==
    LET d        == act["branch"].row
        previous == {e \in 1..(d - 1) : rows[e].status = "succeeded" /\ rows[e].keys # {}} IN
    /\ act["branch"].at = "looping"
    /\ \E source \in IF previous = {} THEN {NoId} ELSE previous :
         /\ \A e \in previous : e <= source
         /\ act' = [act EXCEPT !["branch"].at = "reverting", !["branch"].source = source]
    /\ UNCHANGED <<stack, rows, asked, jobs, worker, swarm, doubt, left>>

\* ... and recordRevertedStack.
RecordReverted ==
    LET d == act["branch"].row IN
    /\ act["branch"].at = "reverting"
    /\ UpdateRow(d, [rows[d] EXCEPT !.status = "reverted_by_watch", !.watch = FALSE])
    /\ Go("branch", IF act["branch"].source = NoId THEN "stranded" ELSE "reverted")
    /\ UNCHANGED <<stack, asked, jobs, worker, swarm, doubt, left>>

\* recordStrandedStack: nothing to go back to.
RecordStranded ==
    /\ act["branch"].at = "stranded"
    /\ UpdateStack(MarkCrashed(stack))
    /\ Leave("branch")
    /\ UNCHANGED <<rows, asked, worker, swarm, doubt, left>>

Sweep ==
    \/ \E d \in Ids : StartBranch(d)
    \/ FindPrevious \/ RecordReverted \/ RecordStranded

-----------------------------------------------------------------------------
(* runStackTeardown *)

\* These services go.  A rollout of the branch that is not through brings them
\* back; one that is goes on to record that they are served.
Removes(some) ==
    /\ swarm' = [s \in Services |-> IF s \in some THEN NoService ELSE swarm[s]]
    /\ doubt' = (IF some = Services THEN {} ELSE doubt) \cup
                (IF some # {} /\ act["branch"].at = "rolling" THEN {"overlap"} ELSE {}) \cup
                (IF some # {} /\ act["branch"].at \in {"verdict", "accepted", "current"}
                 THEN {"removed"} ELSE {})

\* Mutant: the exit code of docker is not looked at.
RemoveStackUnchecked ==
    /\ act["worker"].at = "delete"
    /\ \/ Gone /\ Leave("worker") /\ UNCHANGED <<swarm, doubt>>
       \/ ~Gone /\ UNCHANGED jobs /\ \E some \in SUBSET Services :
            Removes(some) /\ Go("worker", "erasing")
    /\ UNCHANGED <<stack, rows, asked, worker, left>>

\* `docker stack rm' removes the services one after the other, in one step
\* here, and says so when it could not remove them all.
RemoveStack ==
    /\ act["worker"].at = "delete"
    /\ \/ Gone /\ Leave("worker") /\ UNCHANGED <<swarm, doubt>>
       \/ ~Gone /\ UNCHANGED jobs /\ \E some \in SUBSET Services :
            /\ Removes(some)
            /\ Go("worker", IF some = Services THEN "erasing" ELSE "stuck")
    /\ UNCHANGED <<stack, rows, asked, worker, left>>

\* waitForStackGone gives up after a minute without a word: the row goes anyway.
EraseRow ==
    /\ act["worker"].at = "erasing"
    /\ stack' = [status |-> "gone", error |-> FALSE, current |-> NoId]
    /\ rows' = [d \in Ids |-> NoRow]
    /\ Leave("worker")
    /\ UNCHANGED <<asked, worker, swarm, doubt, left>>

\* But its listServices may throw, and so may the DELETE: the services are gone
\* and the row stays.
EraseThrows ==
    /\ act["worker"].at = "erasing"
    /\ Go("worker", "stuck")
    /\ UNCHANGED <<stack, rows, asked, jobs, worker, swarm, doubt, left>>

RecordStuck ==
    /\ act["worker"].at = "stuck"
    /\ UpdateStack([stack EXCEPT !.error = TRUE])
    /\ Leave("worker")
    /\ UNCHANGED <<rows, asked, worker, swarm, doubt, left>>

Teardown == RemoveStack \/ EraseRow \/ EraseThrows \/ RecordStuck

-----------------------------------------------------------------------------
(* The worker process dies and comes back *)

\* The worker and the branch of the sweep live in the same process.  A job whose
\* worker dies twice does not come back.
Crash ==
    /\ Die
    /\ act' = [a \in Actors |-> Idle]
    /\ doubt' = IF \/ active.again
                   \/ \E a \in Actors : act[a].source # NoId /\ act[a].at \in Shipping \cup Recording
                THEN doubt \cup {"cut"} ELSE doubt
    /\ UNCHANGED <<stack, rows, asked, swarm, left>>

\* Mutant: a deployment is given the status a stack has.
RecoverAsCrashed ==
    /\ process = "down"
    /\ LET stale == {d \in Ids : rows[d].status \in {"building", "deploying"}} IN
       /\ rows' = [d \in Ids |-> IF d \in stale THEN [rows[d] EXCEPT !.status = "crashed"]
                                 ELSE rows[d]]
       /\ process' = IF stale = {} THEN "up" ELSE "recovering"
    /\ UNCHANGED <<stack, asked, jobs, crashes, act, swarm, doubt, left>>

\* Mutant: rows that are still building are forgotten.
RecoverDeploying ==
    /\ process = "down"
    /\ LET stale == {d \in Ids : rows[d].status = "deploying"} IN
       /\ rows' = [d \in Ids |-> IF d \in stale THEN [rows[d] EXCEPT !.status = "failed"]
                                 ELSE rows[d]]
       /\ process' = IF stale = {} THEN "up" ELSE "recovering"
    /\ UNCHANGED <<stack, asked, jobs, crashes, act, swarm, doubt, left>>

\* recoverStacks: fail what was in flight, ...
RecoverRows ==
    /\ process = "down"
    /\ LET stale == {d \in Ids : rows[d].status \in {"building", "deploying"}} IN
       /\ rows' = [d \in Ids |-> IF d \in stale THEN [rows[d] EXCEPT !.status = "failed"]
                                 ELSE rows[d]]
       /\ process' = IF stale = {} THEN "up" ELSE "recovering"
    /\ UNCHANGED <<stack, asked, jobs, crashes, act, swarm, doubt, left>>

\* ... then the stack, if it still reads deploying.
RecoverStack ==
    /\ process = "recovering"
    /\ UpdateStack(IF stack.status = "deploying" THEN MarkCrashed(stack) ELSE stack)
    /\ process' = "up"
    /\ UNCHANGED <<rows, asked, jobs, crashes, act, swarm, doubt, left>>

JobReturns ==
    /\ ComesBack
    /\ UNCHANGED <<stack, rows, asked, worker, act, swarm, doubt, left>>

Recovery == RecoverRows \/ RecoverStack \/ JobReturns

-----------------------------------------------------------------------------
(* Swarm *)

\* One service converges, or goes back to the spec before: too late for a
\* verdict that was read while it had not begun.
UpdateCompletes(s) ==
    /\ swarm[s].update = "updating"
    /\ swarm' = [swarm EXCEPT ![s].previous = NoId, ![s].update = "none"]
    /\ UNCHANGED <<stack, rows, asked, jobs, worker, act, doubt, left>>

UpdateRollsBack(s) ==
    /\ swarm[s].update = "updating"
    /\ swarm' = [swarm EXCEPT ![s] = [image |-> @.previous, previous |-> NoId,
                                      update |-> "rolled_back"]]
    /\ doubt' = IF \E a \in Actors : \/ act[a].at = "rolling"
                                     \/ act[a].at = "verdict" /\ s \in act[a].todo
                THEN doubt ELSE doubt \cup {"late"}
    /\ UNCHANGED <<stack, rows, asked, jobs, worker, act, left>>

Swarm == \E s \in Services : UpdateCompletes(s) \/ UpdateRollsBack(s)

-----------------------------------------------------------------------------
\* The stack was deployed once, which failed in the build or is served.
Init ==
    /\ \E keys \in Files, served \in BOOLEAN :
         /\ stack = [status |-> IF served THEN "running" ELSE "crashed",
                     error |-> ~served, current |-> IF served THEN 1 ELSE NoId]
         /\ rows = [d \in Ids |-> IF d > 1 THEN NoRow
              ELSE [status |-> IF served THEN "succeeded" ELSE "failed", keys |-> keys,
                    built |-> served, source |-> 1, watch |-> FALSE]]
         /\ swarm = [s \in Services |-> IF served /\ s \in keys
              THEN [NoService EXCEPT !.image = 1] ELSE NoService]
    /\ request = NoId
    /\ deleting = FALSE
    /\ QueueInit
    /\ act = [a \in Actors |-> Idle]
    /\ doubt = {}
    /\ left = {}

Next ==
    \/ Dashboard
    \/ TakeJob \/ StartDeploy \/ ReadCompose \/ Build
    \/ \E a \in Actors : Ship(a) \/ \E d \in Ids : Redeploy(a, d)
    \/ Sweep \/ Teardown \/ Crash \/ Recovery \/ Swarm

Spec == Init /\ [][Next]_vars

-----------------------------------------------------------------------------
(* Properties *)

\* Nothing is under way: no job, no branch, no update.
Still ==
    /\ Quiet
    /\ act["branch"] = Idle
    /\ \A s \in Services : swarm[s].update # "updating"

\* When a stack reads running, without an error, every service of the file of its current
\* deployment runs the image of that deployment, although the services are
\* updated one by one and rolled back one by one: unless two actors shipped at
\* once, Swarm gave a service up after its verdict, a redeploy was cut off, or a
\* teardown that did not finish removed services whose rollout was being recorded.
ServedIsCurrent ==
    Still /\ stack.status = "running" /\ ~stack.error /\ doubt = {} =>
        \A s \in rows[stack.current].keys :
            swarm[s].image = rows[stack.current].source

\* A deployment reads building or deploying only while somebody ships it, or
\* until the worker has started again; but for the rows of a redeploy that
\* threw, which nobody settles before the next start.
InFlightHasOwner ==
    \A d \in Ids : rows[d].status \in {"building", "deploying"} =>
        \/ d \in left
        \/ process = "down"
        \/ \E a \in Actors : act[a].row = d /\ act[a].at # "idle"

\* When the row is gone no service is left in the cluster, nor does one come
\* back, unless a branch shipped the stack while it was removed.
GoneLeavesNothing ==
    Gone /\ "overlap" \notin doubt => \A s \in Services : swarm[s].image = NoId

\* The stack never reads deploying or deleting with nobody left to end it,
\* unless it says what went wrong, wherever the worker died, once.
NothingForgotten ==
    Quiet /\ crashes < 2 /\ request = NoId /\ ~deleting
        => stack.status \notin {"deploying", "deleting"} \/ stack.error
=============================================================================
