---------------------------- MODULE PreviewsProofs ----------------------------
(***************************************************************************)
(* That the limit of previews holds, and that the previews follow the pull  *)
(* requests: for any limit, any number of pull requests and previews, and   *)
(* however many deliveries are handled at once, by either hook.             *)
(*                                                                          *)
(* The limit (CapHolds), unless two branches counted before either          *)
(* inserted, or a preview on its way out came back.  The invariant Room: a  *)
(* branch that has counted and not inserted yet is the only one, and there  *)
(* is room for the preview it is about to insert.                           *)
(*                                                                          *)
(* The previews (PreviewsFollowRequests), unless deliveries of one pull     *)
(* request overlapped or overtook each other, and the like (see doubt).     *)
(* The invariant Follow: one branch at a time handles a pull request for    *)
(* the service and does what the newest delivery said (Newest, Alone), what *)
(* it looked up is still so when it acts (Informed), the jobs that wait are *)
(* of rows that are complete (Works, Complete), and a pull request nobody   *)
(* handles any more has what it should or a job that sees to it (Answered). *)
(***************************************************************************)
EXTENDS Previews, JobQueueProofs, FiniteSetTheorems, TLAPS

-----------------------------------------------------------------------------
(* Types *)

LEMMA InitTypes == Init => TypeOK
<1> SUFFICES ASSUME Init PROVE TypeOK
    OBVIOUS
<1>1. NoRow \in Row /\ Production \in Services
    BY DEF NoRow, Row, Services, RESOURCE_STATUSES
<1>2. [NoRow EXCEPT !.status = "running", !.domain = TRUE, !.env = TRUE] \in Row
    BY <1>1 DEF Row, RESOURCE_STATUSES
<1>3. services \in [Services -> Row]
    BY <1>1, <1>2 DEF Init
<1>4. events \in 0..MaxEvents
    BY PreviewsAssumption DEF Init
<1>5. queue \in Seq(Job) /\ active \in Job \cup {NoJob}
    BY DEF Init, QueueInit
<1>6. served \in [Services -> {"no", "partial", "whole"}]
    BY DEF Init
<1>7. /\ instance \in Instances /\ environment \in BOOLEAN
      /\ pull \in [PullRequests -> {"none", "open", "closed"}]
      /\ sent = {} /\ branches = {} /\ place = "idle" /\ refused = {} /\ doubt = {}
    BY DEF Init
<1> QED BY <1>3, <1>4, <1>5, <1>6, <1>7 DEF TypeOK

\* What a status patch, or a column, makes of a row.
LEMMA RowsStayRows ==
    ASSUME NEW row \in Row
    PROVE  /\ MarkDeploying(row) \in Row /\ MarkRunning(row) \in Row /\ MarkCrashed(row) \in Row
           /\ MarkStopped(row) \in Row /\ MarkDeleting(row) \in Row /\ MarkStuck(row) \in Row
           /\ [row EXCEPT !.domain = TRUE] \in Row
           /\ [row EXCEPT !.env = TRUE] \in Row
    BY DEF Row, RESOURCE_STATUSES, MarkDeploying, MarkRunning, MarkStopped, MarkCrashed, MarkDeleting, MarkStuck

\* A row that a deletion marks, the first time or again.
LEMMA MarksDeleting ==
    ASSUME NEW row \in Row
    PROVE  MarkDeleting(row).status = "deleting" /\ MarkStuck(row).status = "deleting"
    BY DEF Row, MarkDeleting, MarkStuck

\* Columns that do not touch the status.
LEMMA ColumnsKeepStatus ==
    ASSUME NEW row \in Row
    PROVE  /\ [row EXCEPT !.domain = TRUE].status = row.status
           /\ [row EXCEPT !.env = TRUE].status = row.status
    BY DEF Row

\* The rows keep their type when one of them is updated.
LEMMA UpdateKeeps ==
    ASSUME services \in [Services -> Row], NEW i \in Services, NEW row \in Row, Update(i, row)
    PROVE  services' \in [Services -> Row]
    BY DEF Update

\* How a branch that moves on, or returns, leaves the others.
LEMMA GoKeeps ==
    ASSUME TypeOK, NEW b \in branches, NEW pc \in Places, Go(b, pc),
           (b.pc \in Asking /\ pc \in Asking) \/ (b.pc \notin Asking /\ pc \notin Asking)
    PROVE  /\ branches' \subseteq Branch
           /\ \A c \in branches' : IF c.pc \in Asking THEN c.pr \in PullRequests ELSE c.service \in Services
<1>1. b \in Branch
    BY DEF TypeOK
<1>2. [b EXCEPT !.pc = pc] \in Branch
    BY <1>1 DEF Branch
<1>3. IF pc \in Asking THEN b.pr \in PullRequests ELSE b.service \in Services
    BY DEF TypeOK
<1>4. \A c \in branches' : c \in branches \/ c = [b EXCEPT !.pc = pc]
    BY DEF Go
<1>5. /\ [b EXCEPT !.pc = pc].pc = pc
      /\ [b EXCEPT !.pc = pc].pr = b.pr
      /\ [b EXCEPT !.pc = pc].service = b.service
    BY <1>1 DEF Branch
<1>6. branches' \subseteq Branch
    BY <1>2, <1>4 DEF TypeOK
<1>7. ASSUME NEW c \in branches'
      PROVE  IF c.pc \in Asking THEN c.pr \in PullRequests ELSE c.service \in Services
  <2>1. CASE c \in branches
      BY <2>1 DEF TypeOK
  <2>2. CASE c = [b EXCEPT !.pc = pc]
      BY <2>2, <1>3, <1>5
  <2> QED BY <2>1, <2>2, <1>4
<1> QED BY <1>6, <1>7

LEMMA GoWithKeeps ==
    ASSUME TypeOK, NEW b \in branches, NEW pc \in Places \ Asking, NEW i \in Services,
           GoWith(b, pc, i)
    PROVE  /\ branches' \subseteq Branch
           /\ \A c \in branches' : IF c.pc \in Asking THEN c.pr \in PullRequests ELSE c.service \in Services
<1> DEFINE b2 == [b EXCEPT !.pc = pc, !.service = i]
<1>1. b \in Branch
    BY DEF TypeOK
<1>2. b2 \in Branch /\ b2.pc = pc /\ b2.service = i
    BY <1>1 DEF Branch
<1>3. \A c \in branches' : c \in branches \/ c = b2
    BY DEF GoWith
<1>4. branches' \subseteq Branch
    BY <1>2, <1>3 DEF TypeOK
<1>5. ASSUME NEW c \in branches'
      PROVE  IF c.pc \in Asking THEN c.pr \in PullRequests ELSE c.service \in Services
  <2>1. CASE c \in branches
      BY <2>1 DEF TypeOK
  <2>2. CASE c = b2
      BY <2>2, <1>2
  <2> QED BY <2>1, <2>2, <1>3
<1> QED BY <1>4, <1>5

LEMMA LeaveKeeps ==
    ASSUME TypeOK, NEW b \in branches, Leave(b)
    PROVE  /\ branches' \subseteq Branch
           /\ \A c \in branches' : IF c.pc \in Asking THEN c.pr \in PullRequests ELSE c.service \in Services
    BY DEF TypeOK, Leave

\* Every step of the forge and of the dashboard keeps the types.
LEMMA ForgeTypes ==
    ASSUME TypeOK, NEW p \in PullRequests, Open(p) \/ Push(p) \/ Close(p)
    PROVE  TypeOK'
<1>1. /\ pull' \in [PullRequests -> {"none", "open", "closed"}]
      /\ \E closed \in BOOLEAN : Announce(p, closed)
    BY DEF TypeOK, Open, Push, Close
<1>2. PICK closed \in BOOLEAN : Announce(p, closed)
    BY <1>1
<1>3. events + 1 \in 1..MaxEvents
    BY <1>2, PreviewsAssumption DEF TypeOK, Announce, Instance
<1>4. sent' \subseteq Delivery /\ events' \in 0..MaxEvents
    BY <1>2, <1>3 DEF TypeOK, Announce, Delivery
<1> QED BY <1>1, <1>2, <1>4 DEF TypeOK, Announce, jobs

LEMMA ReceiveTypes ==
    ASSUME TypeOK, NEW d \in sent, Receive(d)
    PROVE  TypeOK'
<1>1. d.n \in 1..MaxEvents /\ d.pr \in PullRequests
    BY DEF TypeOK, Delivery
<1>2. \A c \in branches' : c \in branches \/
         \E i \in Services : c = [n |-> d.n, pr |-> d.pr, target |-> i, service |-> NoService,
                                  pc |-> IF d.closed THEN "closed" ELSE "parent"]
    BY DEF Receive
<1>3. ASSUME NEW c \in branches'
      PROVE  c \in Branch /\ IF c.pc \in Asking THEN c.pr \in PullRequests ELSE c.service \in Services
  <2>1. CASE c \in branches
      BY <2>1 DEF TypeOK
  <2>2. ASSUME NEW i \in Services,
               c = [n |-> d.n, pr |-> d.pr, target |-> i, service |-> NoService,
                    pc |-> IF d.closed THEN "closed" ELSE "parent"]
        PROVE  c \in Branch /\ IF c.pc \in Asking THEN c.pr \in PullRequests ELSE c.service \in Services
    <3>1. c.pc \in {"closed", "parent"} /\ c.pr \in PullRequests
        BY <1>1, <2>2
    <3>2. c \in Branch
        BY <1>1, <2>2 DEF Branch, Places
    <3> QED BY <3>1, <3>2 DEF Asking
  <2> QED BY <2>1, <2>2, <1>2
<1>4. sent' \subseteq Delivery /\ doubt' \subseteq doubt \cup {"order"}
    BY DEF TypeOK, Receive, Note
<1> QED BY <1>3, <1>4 DEF TypeOK, Receive, jobs

LEMMA RequestDeleteTypes ==
    ASSUME TypeOK, NEW i \in Services, RequestDelete(i)
    PROVE  TypeOK'
<1>1. events + 1 \in 1..MaxEvents
    BY PreviewsAssumption DEF TypeOK, RequestDelete, Instance
<1> DEFINE b == [n |-> events + 1, pr |-> NoRequest, target |-> i, service |-> i, pc |-> "deleting"]
<1>2. b \in Branch /\ b.pc = "deleting" /\ b.service = i
    BY <1>1 DEF Branch, Places
<1>3. branches' = branches \cup {b} /\ doubt' = doubt \cup {"operator"} /\ events' = events + 1
    BY DEF RequestDelete, Note
<1> HIDE DEF b
<1>4. ASSUME NEW c \in branches'
      PROVE  c \in Branch /\ IF c.pc \in Asking THEN c.pr \in PullRequests ELSE c.service \in Services
    BY <1>2, <1>3 DEF TypeOK, Asking
<1> QED BY <1>1, <1>3, <1>4 DEF TypeOK, RequestDelete, jobs

LEMMA OperateTypes ==
    ASSUME TypeOK, NEW i \in Services, RequestDeploy(i) \/ RequestLifecycle(i)
    PROVE  TypeOK'
<1>1. events + 1 \in 1..MaxEvents /\ events' = events + 1 /\ doubt' = doubt \cup {"operator"}
    BY PreviewsAssumption DEF TypeOK, RequestDeploy, RequestLifecycle, Instance, Note
<1>2. CASE RequestDeploy(i)
  <2> DEFINE b == [n |-> events + 1, pr |-> NoRequest, target |-> i, service |-> i, pc |-> "queue"]
  <2>1. b \in Branch /\ b.pc = "queue" /\ b.service = i
      BY <1>1 DEF Branch, Places
  <2>2. branches' = branches \cup {b}
      BY <1>2 DEF RequestDeploy
  <2> HIDE DEF b
  <2>3. ASSUME NEW c \in branches'
        PROVE  c \in Branch /\ IF c.pc \in Asking THEN c.pr \in PullRequests ELSE c.service \in Services
      BY <2>1, <2>2 DEF TypeOK, Asking
  <2> QED BY <1>1, <1>2, <2>3 DEF TypeOK, RequestDeploy, jobs
<1>3. CASE RequestLifecycle(i)
  <2>1. [kind |-> "lifecycle", arg |-> i, again |-> FALSE] \in Job
      BY DEF Job, JobKinds
  <2>2. queue' \in Seq(Job) /\ UNCHANGED active
      BY <1>3, <2>1 DEF RequestLifecycle, Enqueue, TypeOK
  <2> QED BY <1>1, <1>3, <2>2 DEF TypeOK, RequestLifecycle
<1> QED BY <1>2, <1>3

\* What the dashboard's other steps have to keep.
BranchesOK == \A c \in branches :
    c \in Branch /\ IF c.pc \in Asking THEN c.pr \in PullRequests ELSE c.service \in Services
DoubtOK == doubt \subseteq {"order", "overlap", "revived", "late", "thrown", "operator", "stuck", "nested"}

LEMMA HandleTypes ==
    ASSUME TypeOK, NEW b \in branches, Handle(b)
    PROVE  TypeOK'
<1>1. /\ b \in Branch /\ IF b.pc \in Asking THEN b.pr \in PullRequests ELSE b.service \in Services
      /\ services \in [Services -> Row] /\ environment \in BOOLEAN
      /\ BranchesOK /\ refused \subseteq PullRequests /\ DoubtOK
      /\ queue \in Seq(Job)
    BY DEF TypeOK, BranchesOK, DoubtOK
<1> SUFFICES /\ services' \in [Services -> Row] /\ environment' \in BOOLEAN
             /\ BranchesOK' /\ refused' \subseteq PullRequests /\ DoubtOK'
             /\ queue' \in Seq(Job) /\ UNCHANGED <<active, rest>>
    BY DEF TypeOK, BranchesOK, DoubtOK, rest, forge
<1>2. Leave(b) => BranchesOK'
    BY LeaveKeeps DEF BranchesOK
<1>3. ASSUME NEW pc \in Places, Go(b, pc), b.pc \in Asking <=> pc \in Asking
      PROVE  BranchesOK'
    BY <1>3, GoKeeps DEF BranchesOK
<1>4. ASSUME NEW pc \in Places \ Asking, NEW i \in Services, GoWith(b, pc, i)
      PROVE  BranchesOK'
    BY <1>4, GoWithKeeps DEF BranchesOK
<1>5. Rejected(b) => BranchesOK' /\ DoubtOK' /\ UNCHANGED <<services, environment>>
    BY <1>1, <1>2 DEF Rejected, Note, DoubtOK
<1>6. UNCHANGED doubt \/ (\E cause \in {"overlap", "revived", "thrown", "nested"} : Note(cause)) => DoubtOK'
    BY <1>1 DEF Note, DoubtOK
<1>7. UNCHANGED jobs => queue' \in Seq(Job) /\ UNCHANGED active
    BY <1>1 DEF jobs
<1>8. Asked(b) \subseteq PullRequests
    BY DEF Asked
<1>9. CASE LookAtParent(b)
  <2>1. BranchesOK'
      BY <1>2, <1>3, <1>9 DEF LookAtParent, Places, Asking
  <2> QED BY <1>1, <1>6, <1>7, <1>9, <2>1 DEF LookAtParent
<1>10. CASE LookForExisting(b)
  <2>1. ASSUME NEW i \in Previews, GoWith(b, "queue", i)
        PROVE  BranchesOK'
      BY <1>4, <2>1 DEF Places, Asking, Services
  <2>2. BranchesOK'
      BY <1>3, <1>10, <2>1 DEF LookForExisting, PreviewsOf, Places, Asking
  <2>3. DoubtOK'
      BY <1>6, <1>10 DEF LookForExisting
  <2> QED BY <1>1, <1>7, <1>10, <2>2, <2>3 DEF LookForExisting
<1>11. CASE Count(b)
  <2>1. BranchesOK'
      BY <1>2, <1>3, <1>11 DEF Count, Places, Asking
  <2>2. DoubtOK'
      BY <1>6, <1>11 DEF Count
  <2> QED BY <1>1, <1>7, <1>8, <1>11, <2>1, <2>2 DEF Count
<1>12. CASE LookForEnvironment(b)
  <2>1. BranchesOK'
      BY <1>3, <1>12 DEF LookForEnvironment, Places, Asking
  <2> QED BY <1>1, <1>6, <1>7, <1>12, <2>1 DEF LookForEnvironment
<1>13. CASE InsertEnvironment(b)
  <2>1. BranchesOK'
      BY <1>3, <1>5, <1>13 DEF InsertEnvironment, Places, Asking
  <2>2. DoubtOK'
      BY <1>5, <1>6, <1>13 DEF InsertEnvironment
  <2> QED BY <1>1, <1>5, <1>7, <1>13, <2>1, <2>2 DEF InsertEnvironment
<1>14. CASE Insert(b)
  <2>1. ASSUME NEW i \in Previews, GoWith(b, "domain", i)
        PROVE  BranchesOK'
      BY <1>4, <2>1 DEF Places, Asking, Services
  <2>2. BranchesOK' /\ DoubtOK'
      BY <1>5, <1>6, <1>14, <2>1 DEF Insert
  <2>3. services' \in [Services -> Row]
    <3>1. [NoRow EXCEPT !.status = "created", !.of = b.target, !.pr = b.pr] \in Row
        BY <1>1 DEF NoRow, Row, Branch, RESOURCE_STATUSES
    <3> QED BY <1>1, <1>5, <1>14, <3>1 DEF Insert
  <2> QED BY <1>1, <1>5, <1>7, <1>8, <1>14, <2>2, <2>3 DEF Insert
<1>15. CASE InsertDomain(b)
  <2>1. b.service \in Services
      BY <1>1, <1>15 DEF InsertDomain, Asking
  <2>2. BranchesOK' /\ DoubtOK'
      BY <1>3, <1>5, <1>6, <1>15 DEF InsertDomain, Places, Asking
  <2>3. [services[b.service] EXCEPT !.domain = TRUE] \in Row
      BY <1>1, <2>1, RowsStayRows
  <2>4. services' \in [Services -> Row]
      BY <1>1, <1>5, <1>15, <2>1, <2>3 DEF InsertDomain
  <2> QED BY <1>1, <1>5, <1>7, <1>15, <2>2, <2>4 DEF InsertDomain
<1>16. CASE CopyEnvVars(b)
  <2>1. b.service \in Services
      BY <1>1, <1>16 DEF CopyEnvVars, Asking
  <2>2. BranchesOK' /\ DoubtOK'
      BY <1>3, <1>5, <1>6, <1>16 DEF CopyEnvVars, Places, Asking
  <2>3. [services[b.service] EXCEPT !.env = TRUE] \in Row
      BY <1>1, <2>1, RowsStayRows
  <2>4. services' \in [Services -> Row]
      BY <1>1, <1>5, <1>16, <2>1, <2>3 DEF CopyEnvVars
  <2> QED BY <1>1, <1>5, <1>7, <1>16, <2>2, <2>4 DEF CopyEnvVars
<1>17. CASE QueueDeploy(b)
  <2>1. BranchesOK' /\ DoubtOK'
      BY <1>3, <1>5, <1>6, <1>17 DEF QueueDeploy, Places, Asking
  <2> QED BY <1>1, <1>5, <1>7, <1>17, <2>1 DEF QueueDeploy
<1>18. CASE MarkPreview(b)
  <2>1. BranchesOK'
      BY <1>3, <1>18 DEF MarkPreview, Places, Asking
  <2>2. DoubtOK'
      BY <1>6, <1>18 DEF MarkPreview
  <2>3. b.service \in Services
      BY <1>1, <1>18 DEF MarkPreview, Asking
  <2>4. services' \in [Services -> Row]
      BY <1>1, <1>18, <2>3, RowsStayRows, UpdateKeeps DEF MarkPreview
  <2> QED BY <1>1, <1>7, <1>18, <2>1, <2>2, <2>4 DEF MarkPreview
<1>19. CASE EnqueueDeploy(b)
  <2>1. [kind |-> "deploy", arg |-> b.service, again |-> FALSE] \in Job
      BY <1>1, <1>19 DEF EnqueueDeploy, Asking, Job, JobKinds
  <2>2. queue' \in Seq(Job) /\ UNCHANGED active
      BY <1>1, <1>19, <2>1 DEF EnqueueDeploy, Enqueue
  <2> QED BY <1>1, <1>2, <1>6, <1>19, <2>2 DEF EnqueueDeploy
<1>20. CASE LookForClosed(b)
  <2>1. ASSUME NEW i \in Previews, GoWith(b, "deleting", i)
        PROVE  BranchesOK'
      BY <1>4, <2>1 DEF Places, Asking, Services
  <2>2. BranchesOK'
      BY <1>2, <1>20, <2>1 DEF LookForClosed, PreviewsOf
  <2> QED BY <1>1, <1>6, <1>7, <1>20, <2>2 DEF LookForClosed
<1>21. CASE MarkDeleted(b)
  <2>1. BranchesOK'
      BY <1>3, <1>21 DEF MarkDeleted, Places, Asking
  <2>2. b.service \in Services
      BY <1>1, <1>21 DEF MarkDeleted, Asking
  <2>3. services' \in [Services -> Row]
      BY <1>1, <1>21, <2>2, RowsStayRows, UpdateKeeps DEF MarkDeleted
  <2> QED BY <1>1, <1>6, <1>7, <1>21, <2>1, <2>3 DEF MarkDeleted
<1>22. CASE EnqueueDelete(b)
  <2>1. [kind |-> "delete", arg |-> b.service, again |-> FALSE] \in Job
      BY <1>1, <1>22 DEF EnqueueDelete, Asking, Job, JobKinds
  <2>2. queue' \in Seq(Job) /\ UNCHANGED active
      BY <1>1, <1>22, <2>1 DEF EnqueueDelete, Enqueue
  <2> QED BY <1>1, <1>2, <1>6, <1>22, <2>2 DEF EnqueueDelete
<1>23. CASE Throw(b)
  <2>1. DoubtOK'
      BY <1>6, <1>23 DEF Throw
  <2> QED BY <1>1, <1>2, <1>7, <1>23, <2>1 DEF Throw
<1> QED BY <1>9, <1>10, <1>11, <1>12, <1>13, <1>14, <1>15, <1>16, <1>17, <1>18, <1>19, <1>20,
           <1>21, <1>22, <1>23 DEF Handle

LEMMA WorkTypes ==
    ASSUME TypeOK, Work
    PROVE  TypeOK'
<1>1. CASE TakeJob
  <2>1. Head(queue) \in Job /\ Tail(queue) \in Seq(Job)
      BY <1>1 DEF TypeOK, TakeJob, Take
  <2>2. Head(queue).kind \in {"deploy", "delete", "lifecycle"}
      BY <2>1 DEF Job, JobKinds
  <2>3. queue' \in Seq(Job) /\ active' \in Job /\ place' \in {"deploy", "delete", "lifecycle"}
      BY <1>1, <2>1, <2>2 DEF TakeJob, Take
  <2> QED BY <1>1, <2>3 DEF TypeOK, TakeJob, idle, forge
<1>2. CASE Deploy
  <2>1. active \in Job /\ active.arg \in Services
      BY <1>2 DEF TypeOK, Deploy, Job
  <2>2. served' \in [Services -> {"no", "partial", "whole"}]
      BY <1>2 DEF TypeOK, Deploy
  <2>3. /\ queue' \in Seq(Job) /\ active' \in Job \cup {NoJob}
        /\ place' \in {"idle", "record", "failed"} /\ (place' # "idle" => active' \in Job)
      BY <1>2, <2>1 DEF TypeOK, Deploy, Finish, jobs
  <2> QED BY <1>2, <2>2, <2>3 DEF TypeOK, Deploy, idle, forge
<1>3. CASE Record
  <2>1. active \in Job /\ active.arg \in Services
      BY <1>3 DEF TypeOK, Record, Job
  <2>2. services[active.arg] \in Row
      BY <2>1 DEF TypeOK
  <2>3. services' \in [Services -> Row]
      BY <1>3, <2>1, <2>2, RowsStayRows, UpdateKeeps DEF TypeOK, Record
  <2>4. doubt' \subseteq doubt \cup {"late"}
      BY <1>3 DEF Record, Note
  <2> QED BY <1>3, <2>3, <2>4 DEF TypeOK, Record, Finish, idle, forge
<1>4. CASE RemoveService
  <2>1. active \in Job /\ active.arg \in Services
      BY <1>4 DEF TypeOK, RemoveService, Job
  <2>2. served' \in [Services -> {"no", "partial", "whole"}]
      BY <1>4 DEF TypeOK, RemoveService
  <2>3. /\ queue' \in Seq(Job) /\ active' \in Job \cup {NoJob}
        /\ place' \in {"idle", "erase"} /\ (place' # "idle" => active' \in Job)
      BY <1>4, <2>1 DEF TypeOK, RemoveService, Finish, jobs
  <2> QED BY <1>4, <2>2, <2>3 DEF TypeOK, RemoveService, idle, forge
<1>5. CASE EraseRow
  <2>1. Erased \in Row
      BY DEF Erased, NoRow, Row
  <2>2. services' \in [Services -> Row]
      BY <1>5, <2>1 DEF TypeOK, EraseRow
  <2> QED BY <1>5, <2>2 DEF TypeOK, EraseRow, Finish, idle, forge
<1>6. CASE ApplyLifecycle
  <2>1. active.arg \in Services /\ services[active.arg] \in Row
      BY <1>6 DEF TypeOK, ApplyLifecycle, Job
  <2>2. services' \in [Services -> Row]
      BY <1>6, <2>1, RowsStayRows, UpdateKeeps DEF TypeOK, ApplyLifecycle
  <2>3. doubt' \subseteq doubt \cup {"late"}
      BY <1>6 DEF ApplyLifecycle, Note
  <2> QED BY <1>6, <2>2, <2>3 DEF TypeOK, ApplyLifecycle, Finish, idle, forge
<1>7. CASE TeardownThrows
  <2>1. active.arg \in Services /\ services[active.arg] \in Row
      BY <1>7 DEF TypeOK, TeardownThrows, Job
  <2>2. services' \in [Services -> Row]
      BY <1>7, <2>1, RowsStayRows, UpdateKeeps DEF TypeOK, TeardownThrows
  <2>3. served' \in [Services -> {"no", "partial", "whole"}]
      BY <1>7 DEF TypeOK, TeardownThrows
  <2>4. doubt' = doubt \cup {"stuck"}
      BY <1>7 DEF TeardownThrows, Note
  <2> QED BY <1>7, <2>2, <2>3, <2>4 DEF TypeOK, TeardownThrows, Finish, idle, forge
<1> QED BY <1>1, <1>2, <1>3, <1>4, <1>5, <1>6, <1>7 DEF Work

LEMMA NextTypes == TypeOK /\ [Next]_vars => TypeOK'
<1> SUFFICES ASSUME TypeOK, [Next]_vars PROVE TypeOK'
    OBVIOUS
<1>1. CASE UNCHANGED vars
    BY <1>1 DEF TypeOK, vars, forge, jobs
<1> QED BY <1>1, ForgeTypes, ReceiveTypes, RequestDeleteTypes, OperateTypes, HandleTypes, WorkTypes
       DEF Next, Services

\* The types of Previews' variables hold throughout, among them that a branch
\* knows the pull request, or the service, that its next step is about.
THEOREM TypeCorrect == Spec => []TypeOK
<1> QED BY InitTypes, NextTypes, PTL DEF Spec

-----------------------------------------------------------------------------
(* The limit *)

Unsure == doubt \cap {"overlap", "revived", "late"} # {}

\* One branch at most has counted and not yet inserted, and there is room for
\* its preview.
Room ==
    Unsure \/
      /\ Cardinality(Live) <= PREVIEW_LIMIT
      /\ \A b \in Counted, c \in Counted : b = c
      /\ Counted # {} => Cardinality(Live) < PREVIEW_LIMIT

LEMMA LiveIsFinite ==
    /\ IsFiniteSet(Live)
    /\ Cardinality(Live) \in Nat
<1>1. IsFiniteSet(Previews)
    BY FS_Interval, PreviewsAssumption DEF Previews
<1>2. Live \in SUBSET Previews
    BY DEF Live
<1> QED BY <1>1, <1>2, FS_Subset, FS_CardinalityType

\* A step that adds no live preview and lets no further branch past the count.
LEMMA RoomStays ==
    ASSUME Room, Live' \subseteq Live, doubt \subseteq doubt',
           \/ Counted' \subseteq Counted
           \/ \E b \in Counted : \E c : Counted' \subseteq (Counted \ {b}) \cup {c}
    PROVE  Room'
<1>1. Unsure => Unsure'
    BY DEF Unsure
<1>2. /\ Cardinality(Live) \in Nat /\ Cardinality(Live') \in Nat
      /\ Cardinality(Live') <= Cardinality(Live)
    BY LiveIsFinite, FS_Subset, FS_CardinalityType
<1>3. PREVIEW_LIMIT \in Nat
    BY PreviewsAssumption
<1>4. ASSUME ~Unsure
      PROVE  /\ \A b \in Counted', c \in Counted' : b = c
             /\ Counted' # {} => Counted # {}
    BY <1>4 DEF Room
<1> QED BY <1>1, <1>2, <1>3, <1>4 DEF Room

Counting == {"environment", "environments", "insert"}

\* What the moves of a branch do to the ones that have counted.
LEMMA CountedMoves ==
    ASSUME TypeOK, NEW b \in branches
    PROVE  /\ Leave(b) => Counted' \subseteq Counted
           /\ \A pc \in Places \ Counting : Go(b, pc) => Counted' \subseteq Counted
           /\ \A pc \in Places \ Counting, i \in Services : GoWith(b, pc, i) => Counted' \subseteq Counted \ {b}
           /\ \A pc \in Counting : Go(b, pc) => Counted' \subseteq (Counted \ {b}) \cup {[b EXCEPT !.pc = pc]}
<1>1. b \in Branch
    BY DEF TypeOK
<1>2. \A pc : [b EXCEPT !.pc = pc].pc = pc
    BY <1>1 DEF Branch
<1>3. \A pc, i : [b EXCEPT !.pc = pc, !.service = i].pc = pc
    BY <1>1 DEF Branch
<1>4. Leave(b) => Counted' \subseteq Counted
    BY DEF Leave, Counted
<1>5. ASSUME NEW pc \in Places \ Counting, Go(b, pc)
      PROVE  Counted' \subseteq Counted
    BY <1>2, <1>5 DEF Go, Counted, Counting
<1>6. ASSUME NEW pc \in Places \ Counting, NEW i \in Services, GoWith(b, pc, i)
      PROVE  Counted' \subseteq Counted \ {b}
    BY <1>3, <1>6 DEF GoWith, Counted, Counting
<1>7. ASSUME NEW pc \in Counting, Go(b, pc)
      PROVE  Counted' \subseteq (Counted \ {b}) \cup {[b EXCEPT !.pc = pc]}
    BY <1>7 DEF Go, Counted
<1> QED BY <1>4, <1>5, <1>6, <1>7

\* Live is read off the rows, ...
LEMMA LiveStays ==
    ASSUME UNCHANGED services
    PROVE  Live' = Live
    BY DEF Live, Exists

\* ... and an update that leaves a row as it was, or marks it deleting, adds
\* none to it.
LEMMA LiveShrinks ==
    ASSUME TypeOK, NEW i \in Services, NEW row \in Row, Update(i, row),
           \/ row.status = "deleting"
           \/ row.status = services[i].status
           \/ services[i].status # "deleting"
    PROVE  Live' \subseteq Live
<1>1. services \in [Services -> Row] /\ Previews \subseteq Services
    BY DEF TypeOK, Services
<1>2. CASE ~Exists(i)
    BY <1>2 DEF Update, Live, Exists
<1>3. CASE Exists(i)
  <2>1. services' = [services EXCEPT ![i] = row]
      BY <1>3 DEF Update
  <2>2. ASSUME NEW j \in Live'
        PROVE  j \in Live
    <3>1. j \in Previews /\ services'[j].status \notin {"absent", "gone", "deleting"}
        BY DEF Live, Exists
    <3>2. CASE j = i
      <4>1. row.status \notin {"absent", "gone", "deleting"}
          BY <1>1, <2>1, <3>1, <3>2
      <4> QED BY <1>3, <3>1, <3>2, <4>1 DEF Live, Exists
    <3>3. CASE j # i
        BY <1>1, <2>1, <3>1, <3>3 DEF Live, Exists
    <3> QED BY <3>2, <3>3
  <2> QED BY <2>2
<1> QED BY <1>2, <1>3

\* The one step that adds a preview had room for it.
LEMMA InsertRoom ==
    ASSUME TypeOK, Room, NEW b \in branches, Insert(b)
    PROVE  Room'
<1>1. CASE Rejected(b)
  <2>1. doubt \subseteq doubt' /\ UNCHANGED services /\ Counted' \subseteq Counted
      BY <1>1, CountedMoves DEF Rejected, Note
  <2> QED BY <2>1, LiveStays, RoomStays
<1>2. CASE ~Rejected(b)
  <2>1. PICK i \in Previews :
          /\ services' = [services EXCEPT ![i] =
               [NoRow EXCEPT !.status = "created", !.of = b.target, !.pr = b.pr]]
          /\ GoWith(b, "domain", i)
      BY <1>2 DEF Insert
  <2>2. doubt \subseteq doubt'
      BY <1>2 DEF Insert, Note
  <2>3. b \in Counted
      BY DEF Insert, Counted
  <2>4. Counted' \subseteq Counted \ {b}
      BY <2>1, CountedMoves DEF Places, Counting, Services
  <2>5. Live' \subseteq Live \cup {i}
      BY <2>1 DEF TypeOK, Live, Exists, Services
  <2>6. CASE Unsure
      BY <2>2, <2>6 DEF Room, Unsure
  <2>7. CASE ~Unsure
    <3>1. Counted' = {} /\ Cardinality(Live) < PREVIEW_LIMIT
        BY <2>3, <2>4, <2>7 DEF Room
    <3>2. /\ IsFiniteSet(Live \cup {i})
          /\ Cardinality(Live \cup {i}) <= Cardinality(Live) + 1
        BY LiveIsFinite, FS_AddElement
    <3>3. Cardinality(Live') <= Cardinality(Live \cup {i}) /\ Cardinality(Live') \in Nat
          /\ Cardinality(Live \cup {i}) \in Nat
        BY <2>5, <3>2, FS_Subset, FS_CardinalityType
    <3> QED BY <3>1, <3>2, <3>3, LiveIsFinite, PreviewsAssumption DEF Room
  <2> QED BY <2>6, <2>7
<1> QED BY <1>1, <1>2

\* A count lets a branch past when there is room and no other one is past it,
\* or the limit is in doubt.
LEMMA CountRoom ==
    ASSUME TypeOK, Room, NEW b \in branches, Count(b)
    PROVE  Room'
<1>1. doubt \subseteq doubt' /\ Live' = Live
    BY LiveStays DEF Count, Note
<1>2. CASE Leave(b)
    BY <1>1, <1>2, CountedMoves, RoomStays
<1>3. CASE Cardinality(Live) < PREVIEW_LIMIT /\ Go(b, "environment")
            /\ IF Counted = {} THEN UNCHANGED doubt ELSE Note("overlap")
  <2>1. Counted' \subseteq (Counted \ {b}) \cup {[b EXCEPT !.pc = "environment"]}
      BY <1>3, CountedMoves DEF Counting
  <2>2. CASE Counted = {}
      BY <1>1, <1>3, <2>1, <2>2, LiveIsFinite, PreviewsAssumption DEF Room
  <2>3. CASE Counted # {}
      BY <1>3, <2>3 DEF Room, Unsure, Note
  <2> QED BY <2>2, <2>3
<1> QED BY <1>2, <1>3 DEF Count

LEMMA HandleRoom ==
    ASSUME TypeOK, Room, NEW b \in branches, Handle(b)
    PROVE  Room'
<1>1. /\ b \in Branch /\ IF b.pc \in Asking THEN b.pr \in PullRequests ELSE b.service \in Services
      /\ services \in [Services -> Row]
    BY DEF TypeOK
<1>2. ASSUME UNCHANGED <<services, doubt>> \/ (UNCHANGED services /\ \E cause : Note(cause)),
             \/ Leave(b)
             \/ \E pc \in Places \ Counting : Go(b, pc)
             \/ \E pc \in Places \ Counting, i \in Services : GoWith(b, pc, i)
             \/ b \in Counted /\ \E pc \in Counting : Go(b, pc)
      PROVE  Room'
  <2>1. Live' = Live /\ doubt \subseteq doubt'
      BY <1>2, LiveStays DEF Note
  <2>2. \/ Counted' \subseteq Counted
        \/ b \in Counted /\ \E c : Counted' \subseteq (Counted \ {b}) \cup {c}
      BY <1>2, CountedMoves
  <2> QED BY <2>1, <2>2, RoomStays
<1>3. ASSUME NEW row \in Row, b.service \in Services, Update(b.service, row), doubt \subseteq doubt',
             \/ row.status = "deleting"
             \/ row.status = services[b.service].status
             \/ services[b.service].status # "deleting",
             NEW pc \in Places \ Counting, Go(b, pc)
      PROVE  Room'
    BY <1>3, LiveShrinks, CountedMoves, RoomStays
<1>4. CASE LookAtParent(b)
    BY <1>2, <1>4 DEF LookAtParent, Places, Counting
<1>5. CASE LookForExisting(b)
  <2>1. PreviewsOf(b.target, b.pr) \subseteq Services
      BY DEF PreviewsOf, Services
  <2>2. CASE Go(b, "count") /\ UNCHANGED doubt
      BY <1>2, <1>5, <2>2 DEF LookForExisting, Places, Counting
  <2>3. CASE \E i \in Services : GoWith(b, "queue", i) /\ (UNCHANGED doubt \/ Note("revived"))
      BY <1>2, <1>5, <2>3 DEF LookForExisting, Places, Counting
  <2> QED BY <1>5, <2>1, <2>2, <2>3 DEF LookForExisting
<1>6. CASE LookForEnvironment(b)
  <2>1. b \in Counted /\ \E pc \in Counting \cup (Places \ Counting) : Go(b, pc)
      BY <1>6 DEF LookForEnvironment, Counted, Counting
  <2> QED BY <1>2, <1>6, <2>1 DEF LookForEnvironment
<1>7. CASE InsertEnvironment(b)
  <2>1. b \in Counted
      BY <1>7 DEF InsertEnvironment, Counted
  <2>2. CASE Rejected(b)
      BY <1>2, <2>2 DEF Rejected
  <2>3. CASE Go(b, "insert") /\ UNCHANGED <<services, doubt>>
      BY <1>2, <2>1, <2>3 DEF Counting
  <2> QED BY <1>7, <2>2, <2>3 DEF InsertEnvironment
<1>8. CASE InsertDomain(b)
  <2>1. b.service \in Services
      BY <1>1, <1>8 DEF InsertDomain, Asking
  <2> DEFINE row == [services[b.service] EXCEPT !.domain = TRUE]
  <2>2. row \in Row /\ row.status = services[b.service].status
    <3>1. services[b.service] \in Row
        BY <1>1, <2>1
    <3> QED BY <3>1, RowsStayRows, ColumnsKeepStatus
  <2>3. CASE Rejected(b)
      BY <1>2, <2>3 DEF Rejected
  <2>4. CASE ~Rejected(b)
    <3>1. Update(b.service, row) /\ doubt \subseteq doubt' /\ Go(b, "env")
        BY <1>1, <1>8, <2>1, <2>4 DEF InsertDomain, Update
    <3> HIDE DEF row
    <3> QED BY <1>3, <2>1, <2>2, <3>1 DEF Places, Counting
  <2> QED BY <2>3, <2>4
<1>9. CASE CopyEnvVars(b)
  <2>1. b.service \in Services
      BY <1>1, <1>9 DEF CopyEnvVars, Asking
  <2> DEFINE row == [services[b.service] EXCEPT !.env = TRUE]
  <2>2. row \in Row /\ row.status = services[b.service].status
    <3>1. services[b.service] \in Row
        BY <1>1, <2>1
    <3> QED BY <3>1, RowsStayRows, ColumnsKeepStatus
  <2>3. CASE Rejected(b)
      BY <1>2, <2>3 DEF Rejected
  <2>4. CASE ~Rejected(b)
    <3>1. Update(b.service, row) /\ doubt \subseteq doubt' /\ Go(b, "queue")
        BY <1>1, <1>9, <2>1, <2>4 DEF CopyEnvVars, Update
    <3> HIDE DEF row
    <3> QED BY <1>3, <2>1, <2>2, <3>1 DEF Places, Counting
  <2> QED BY <2>3, <2>4
<1>10. CASE QueueDeploy(b)
  <2>1. CASE Rejected(b)
      BY <1>2, <2>1 DEF Rejected
  <2>2. CASE Go(b, "mark") /\ UNCHANGED <<services, environment, doubt>>
      BY <1>2, <2>2 DEF Places, Counting
  <2> QED BY <1>10, <2>1, <2>2 DEF QueueDeploy
<1>11. CASE MarkPreview(b)
  <2>1. b.service \in Services
      BY <1>1, <1>11 DEF MarkPreview, Asking
  <2>2. MarkDeploying(services[b.service]) \in Row
      BY <1>1, <2>1, RowsStayRows
  <2>3. CASE services[b.service].status = "deleting"
    <3>1. "revived" \in doubt'
        BY <1>11, <2>3 DEF MarkPreview, GoingOut, Note
    <3> QED BY <3>1 DEF Room, Unsure
  <2>4. CASE services[b.service].status # "deleting"
    <3>1. doubt \subseteq doubt'
        BY <1>11 DEF MarkPreview, Note
    <3> QED BY <1>3, <1>11, <2>1, <2>2, <2>4, <3>1 DEF MarkPreview, Places, Counting
  <2> QED BY <2>3, <2>4
<1>12. CASE EnqueueDeploy(b)
    BY <1>2, <1>12 DEF EnqueueDeploy
<1>13. CASE LookForClosed(b)
  <2>1. PreviewsOf(b.target, b.pr) \subseteq Services
      BY DEF PreviewsOf, Services
  <2>2. UNCHANGED <<services, doubt>>
      BY <1>13 DEF LookForClosed
  <2>3. Leave(b) \/ \E i \in Services : GoWith(b, "deleting", i)
      BY <1>13, <2>1 DEF LookForClosed
  <2>4. "deleting" \in Places \ Counting
      BY DEF Places, Counting
  <2> QED BY <1>2, <2>2, <2>3, <2>4
<1>14. CASE MarkDeleted(b)
  <2>1. b.service \in Services
      BY <1>1, <1>14 DEF MarkDeleted, Asking
  <2>2. MarkDeleting(services[b.service]) \in Row /\ MarkDeleting(services[b.service]).status = "deleting"
      BY <1>1, <2>1, RowsStayRows, MarksDeleting
  <2> QED BY <1>3, <1>14, <2>1, <2>2 DEF MarkDeleted, Places, Counting
<1>15. CASE EnqueueDelete(b)
    BY <1>2, <1>15 DEF EnqueueDelete
<1>16. CASE Throw(b)
    BY <1>2, <1>16 DEF Throw
<1> QED BY <1>4, <1>5, <1>6, <1>7, <1>8, <1>9, <1>10, <1>11, <1>12, <1>13, <1>14, <1>15, <1>16,
           CountRoom, InsertRoom DEF Handle

\* The worker adds a live preview only by a record that comes late.
LEMMA WorkRoom ==
    ASSUME TypeOK, Room, Work
    PROVE  Room'
<1>1. Counted' = Counted
    BY DEF Work, TakeJob, Deploy, Record, ApplyLifecycle, RemoveService, EraseRow, TeardownThrows,
           idle, Counted
<1>2. doubt \subseteq doubt'
    BY DEF Work, TakeJob, Deploy, Record, ApplyLifecycle, RemoveService, EraseRow, TeardownThrows, Note
<1>3. CASE UNCHANGED services
    BY <1>1, <1>2, <1>3, LiveStays, RoomStays
<1>4. CASE Record
  <2>1. active.arg \in Services /\ services[active.arg] \in Row
      BY <1>4 DEF TypeOK, Record, Job
  <2>2. CASE services[active.arg].status = "deleting"
      BY <1>4, <2>2 DEF Record, Note, Room, Unsure
  <2>3. CASE services[active.arg].status # "deleting"
      BY <1>1, <1>2, <1>4, <2>1, <2>3, RowsStayRows, LiveShrinks, RoomStays DEF Record
  <2> QED BY <2>2, <2>3
<1>5. CASE TeardownThrows
  <2>1. active.arg \in Services /\ services[active.arg] \in Row
      BY <1>5 DEF TypeOK, TeardownThrows, Job
  <2>2. MarkStuck(services[active.arg]) \in Row /\ MarkStuck(services[active.arg]).status = "deleting"
      BY <2>1, RowsStayRows, MarksDeleting
  <2>3. Update(active.arg, MarkStuck(services[active.arg]))
      BY <1>5 DEF TeardownThrows
  <2> QED BY <1>1, <1>2, <2>1, <2>2, <2>3, LiveShrinks, RoomStays
<1>7. CASE ApplyLifecycle
  <2>1. active.arg \in Services /\ services[active.arg] \in Row
      BY <1>7 DEF TypeOK, ApplyLifecycle, Job
  <2>2. CASE services[active.arg].status = "deleting" /\ "late" \in doubt'
      BY <2>2 DEF Room, Unsure
  <2>3. ASSUME services[active.arg].status # "deleting", NEW row \in Row, Update(active.arg, row)
        PROVE  Room'
      BY <1>1, <1>2, <2>1, <2>3, LiveShrinks, RoomStays
  <2>4. MarkRunning(services[active.arg]) \in Row /\ MarkStopped(services[active.arg]) \in Row
      BY <2>1, RowsStayRows
  <2> QED BY <1>3, <1>7, <2>2, <2>3, <2>4 DEF ApplyLifecycle, Note
<1>6. CASE EraseRow
  <2>1. \A i \in Services : services'[i] = Erased \/ services'[i] = services[i]
      BY <1>6 DEF EraseRow
  <2>2. Erased.status = "gone"
      BY DEF Erased, NoRow
  <2>3. Live' \subseteq Live
      BY <2>1, <2>2 DEF Live, Exists, Services
  <2> QED BY <1>1, <1>2, <2>3, RoomStays
<1> QED BY <1>3, <1>4, <1>5, <1>6, <1>7 DEF Work, TakeJob, Deploy, RemoveService

LEMMA NextRoom == TypeOK /\ Room /\ [Next]_vars => Room'
<1> SUFFICES ASSUME TypeOK, Room, [Next]_vars PROVE Room'
    OBVIOUS
<1>1. CASE UNCHANGED <<services, branches, doubt>>
    BY <1>1, LiveStays, RoomStays DEF Counted
<1>2. ASSUME NEW p \in PullRequests, Open(p) \/ Push(p) \/ Close(p)
      PROVE  Room'
    BY <1>1, <1>2 DEF Open, Push, Close, Announce
<1>3. ASSUME NEW d \in sent, Receive(d)
      PROVE  Room'
  <2>1. Counted' \subseteq Counted /\ doubt \subseteq doubt' /\ UNCHANGED services
      BY <1>3 DEF Receive, Counted, Note
  <2> QED BY <2>1, LiveStays, RoomStays
<1>4. ASSUME NEW i \in Services, RequestDelete(i)
      PROVE  Room'
  <2>1. Counted' \subseteq Counted /\ doubt \subseteq doubt' /\ UNCHANGED services
      BY <1>4 DEF RequestDelete, Counted, Note
  <2> QED BY <2>1, LiveStays, RoomStays
<1>5. CASE UNCHANGED vars
    BY <1>1, <1>5 DEF vars
<1>6. ASSUME NEW i \in Services, RequestDeploy(i) \/ RequestLifecycle(i)
      PROVE  Room'
  <2>1. Counted' \subseteq Counted /\ doubt \subseteq doubt' /\ UNCHANGED services
      BY <1>6 DEF RequestDeploy, RequestLifecycle, Counted, Note
  <2> QED BY <2>1, LiveStays, RoomStays
<1> QED BY <1>2, <1>3, <1>4, <1>5, <1>6, HandleRoom, WorkRoom DEF Next, Services

LEMMA InitRoom == Init => Room
<1> SUFFICES ASSUME Init PROVE Room
    OBVIOUS
<1>1. Live = {} /\ Counted = {}
    BY DEF Init, Live, Counted, Exists, Previews, Services, Production, NoRow
<1> QED BY <1>1, FS_EmptySet, PreviewsAssumption DEF Room

\* The limit of previews holds, over all the services they belong to, for any
\* limit and however deliveries, deletions and jobs interleave: unless two
\* branches counted before either inserted (ensurePreview counts and inserts
\* in two steps), or a preview marked deleting was marked again, by a delivery,
\* by the operator, or by a job that ended late.
THEOREM LimitHolds == Spec => []CapHolds
<1>1. Room => CapHolds
    BY DEF Room, Unsure, CapHolds
<1> QED BY <1>1, InitTypes, NextTypes, InitRoom, NextRoom, PTL DEF Spec

-----------------------------------------------------------------------------
(* The previews follow the pull requests *)

\* Nothing happened yet that sets the previews and the pull requests apart.
Sure == doubt \subseteq {"overlap", "late"}

\* The previews of a pull request.
Of(p) == PreviewsOf(Production, p)

\* A delivery of p is under way; somebody handles one.
Awaited(p)     == \E d \in sent : d.pr = p
Handles(b, p)  == b.target = Production /\ b.pr = p
Handled(p)     == ~Awaited(p) /\ \A b \in branches : ~Handles(b, p)

\* The steps of ensurePreview, and what they know of the preview.
Looked   == {"count", "environment", "environments", "insert"}
Knowing  == {"domain", "env", "queue", "mark", "enqueue"}
Opening  == {"parent", "existing"} \cup Looked \cup Knowing
Removing == {"deleting", "removing"}

\* There is the service that is previewed; every preview is one of it, and
\* none of the same pull request as another.
Rows ==
    /\ Exists(Production) /\ services[Production].domain
    /\ \A i \in Previews :
         /\ services[i].of \in {Production, NoService}
         /\ Exists(i) => services[i].of = Production /\ services[i].pr \in PullRequests
    /\ \A i, j \in Previews : Exists(i) /\ Exists(j) /\ services[i].pr = services[j].pr => i = j

\* A job is about a preview that was once inserted, a deployment about one that
\* is complete, nobody asked for a start or a stop, and what Swarm runs has a row.
Works ==
    /\ \A i \in Services : ~Pending("lifecycle", i)
    /\ place = "lifecycle" => active.kind = "lifecycle"
    /\ \A kind \in JobKinds, i \in Services :
         Pending(kind, i) => i \in Previews /\ services[i].status # "absent"
    /\ \A i \in Previews : Pending("deploy", i) /\ Exists(i) => services[i].domain /\ services[i].env
    /\ \A i \in Previews : served[i] # "no" => Exists(i)
    /\ place \in {"deploy", "record", "failed"} => active.kind = "deploy"
    /\ place \in {"delete", "erase"} => active.kind = "delete"
    /\ place = "record" /\ Exists(active.arg) => served[active.arg] = "whole"
    /\ place = "erase" => served[active.arg] = "no"

\* The newest delivery of a pull request says what became of it.
Newest ==
    /\ \A d \in sent : d.n <= events
    /\ \A d, e \in sent : d.n = e.n => d = e
    /\ \A d \in sent : (\A e \in sent : e.pr = d.pr => e.n <= d.n) => (d.closed <=> pull[d.pr] # "open")

\* One branch at a time handles a pull request for the service itself, and
\* when no delivery is to come it does what the newest one said.
Alone ==
    /\ \A b \in branches : b.pr \in PullRequests
    /\ \A b, c \in branches : b.target = Production /\ Handles(c, b.pr) => b = c
    /\ \A b \in branches : b.target = Production /\ ~Awaited(b.pr) =>
         (b.pc \in Opening <=> pull[b.pr] = "open")

\* A preview that nobody removes.
Staying(i, p) == i \in Of(p) /\ services[i].status # "deleting" /\ ~Pending("delete", i)

\* What a branch found stays so until it acts on it.
Knows(b) ==
    /\ b.pc \in Looked /\ b.target = Production => Of(b.pr) = {}
    /\ b.pc \in Knowing =>
         /\ b.target = Production /\ Staying(b.service, b.pr)
         /\ b.pc # "domain" => services[b.service].domain
         /\ b.pc \notin {"domain", "env"} => services[b.service].env
    /\ b.pc \in Removing =>
         /\ b.target = Production /\ b.service \in Previews /\ services[b.service].status # "absent"
         /\ Of(b.pr) \subseteq {b.service}
         /\ Exists(b.service) => services[b.service].pr = b.pr
Informed == \A b \in branches : Knows(b)

\* A preview is complete, or being completed, and one that was refused is none.
Made(i) ==
    \/ services[i].domain /\ services[i].env
    \/ \E b \in branches : b.pc \in {"domain", "env"} /\ b.service = i
Complete ==
    /\ \A i \in Previews : Exists(i) => Made(i)
    /\ \A p \in refused : Of(p) = {}

\* Once the newest delivery is handled, a pull request has what it should, or
\* the worker will see to it.
Right(p) ==
    IF pull[p] = "open"
    THEN \/ p \in refused
         \/ \E i \in Previews :
              /\ Staying(i, p)
              /\ Pending("deploy", i) \/ served[i] = "whole" \/ services[i].status = "crashed"
    ELSE \A i \in Of(p) : Pending("delete", i)
Answered == \A p \in PullRequests : Handled(p) => Right(p)

InStep == Rows /\ Works /\ Newest /\ Alone /\ Informed /\ Complete /\ Answered
Follow == Sure => InStep

LEMMA InitFollow == Init => Follow
<1> SUFFICES ASSUME Init PROVE Follow
    OBVIOUS
<1>0. Production \in Services /\ Production \notin Previews /\ Previews \subseteq Services
    BY DEF Production, Previews, Services
<1>1. \A i \in Previews : services[i] = NoRow
    BY <1>0 DEF Init
<1>2. \A i \in Previews : ~Exists(i) /\ services[i].of = NoService
    BY <1>1 DEF NoRow, Exists
<1>3. \A p : Of(p) = {}
    BY <1>2 DEF Of, PreviewsOf
<1>4. services[Production].status = "running" /\ services[Production].domain
    BY <1>0 DEF Init, NoRow
<1>5. \A kind \in JobKinds : \A i : ~Pending(kind, i)
    BY DEF Init, QueueInit, Pending, NoJob, JobKinds
<1>6. Rows
    BY <1>2, <1>4 DEF Rows, Exists
<1>7. Works
    BY <1>0, <1>5 DEF Works, Init, JobKinds
<1>8. Newest /\ Alone /\ Informed
    BY DEF Newest, Alone, Informed, Init
<1>9. Complete /\ Answered
    BY <1>2, <1>3 DEF Complete, Answered, Right, Init
<1> QED BY <1>6, <1>7, <1>8, <1>9 DEF Follow, InStep

-----------------------------------------------------------------------------
(* The jobs that are pending *)

LEMMA PendingStays ==
    ASSUME UNCHANGED jobs
    PROVE  \A kind, i : Pending(kind, i)' <=> Pending(kind, i)
    BY DEF jobs, Pending

LEMMA PendingEnqueue ==
    ASSUME TypeOK, NEW kind, NEW arg, Enqueue(kind, arg)
    PROVE  \A k, i : Pending(k, i)' <=> Pending(k, i) \/ (k = kind /\ i = arg)
<1> DEFINE job == [kind |-> kind, arg |-> arg, again |-> FALSE]
<1>1. Waiting' = Waiting \cup {job} /\ active' = active /\ stalled' = stalled
    BY EnqueueWaiting DEF TypeOK, Enqueue
<1>2. job.kind = kind /\ job.arg = arg
    OBVIOUS
<1> HIDE DEF job
<1>3. \A k, i : Pending(k, i) <=> \E x \in {active} \cup stalled \cup Waiting : x.kind = k /\ x.arg = i
    BY DEF Pending, Waiting
<1>4. \A k, i : Pending(k, i)' <=> \E x \in {active'} \cup stalled' \cup Waiting' : x.kind = k /\ x.arg = i
    BY DEF Pending, Waiting
<1> QED BY <1>1, <1>2, <1>3, <1>4

LEMMA PendingTake ==
    ASSUME TypeOK, Take
    PROVE  \A k \in JobKinds : \A i : Pending(k, i)' <=> Pending(k, i)
<1>1. Waiting = Waiting' \cup {active'} /\ stalled' = stalled /\ active = NoJob
    BY TakeWaiting DEF TypeOK, Take
<1>2. NoJob.kind \notin JobKinds
    BY DEF NoJob, JobKinds
<1> QED BY <1>1, <1>2 DEF Pending, Waiting

LEMMA PendingFinish ==
    ASSUME Finish
    PROVE  \A k \in JobKinds : \A i :
             Pending(k, i) <=> Pending(k, i)' \/ (active.kind = k /\ active.arg = i)
<1>1. active' = NoJob /\ Waiting' = Waiting /\ stalled' = stalled
    BY DEF Finish, Waiting
<1>2. NoJob.kind \notin JobKinds
    BY DEF NoJob, JobKinds
<1> QED BY <1>1, <1>2 DEF Pending, Waiting

-----------------------------------------------------------------------------
(* Steps that insert no row and remove none *)

SameRows ==
    \A j \in Services :
        /\ services'[j].of = services[j].of /\ services'[j].pr = services[j].pr
        /\ services[j].status \in {"absent", "gone"} \/ services'[j].status \in {"absent", "gone"}
             => services'[j].status = services[j].status
        /\ services[j].domain => services'[j].domain
        /\ services[j].env => services'[j].env

LEMMA SameOf ==
    ASSUME SameRows
    PROVE  /\ \A p : Of(p)' = Of(p)
           /\ \A i \in Services : Exists(i)' <=> Exists(i)
<1>1. Previews \subseteq Services
    BY DEF Services
<1>2. \A i \in Services : Exists(i)' <=> Exists(i)
    BY DEF SameRows, Exists
<1> QED BY <1>1, <1>2 DEF SameRows, Of, PreviewsOf

LEMMA RowsStay ==
    ASSUME Rows, SameRows
    PROVE  Rows'
<1>1. Production \in Services /\ Previews \subseteq Services
    BY DEF Services
<1> QED BY <1>1, SameOf DEF Rows, SameRows

\* An update that is a patch of the status, or sets a column.
LEMMA UpdateStays ==
    ASSUME TypeOK, NEW i \in Services, NEW row \in Row, Update(i, row),
           row.of = services[i].of, row.pr = services[i].pr, row.status \notin {"absent", "gone"},
           services[i].domain => row.domain, services[i].env => row.env
    PROVE  /\ SameRows
           /\ \A j \in Services : j # i => services'[j] = services[j]
           /\ Exists(i) => services'[i] = row
<1>1. services \in [Services -> Row]
    BY DEF TypeOK
<1>2. CASE Exists(i)
    BY <1>1, <1>2 DEF Update, SameRows, Exists
<1>3. CASE ~Exists(i)
    BY <1>3 DEF Update, SameRows
<1> QED BY <1>2, <1>3

\* What a branch knows stays while nobody removes its preview.
LEMMA KnowsStays ==
    ASSUME SameRows, NEW b \in Branch, Knows(b),
           b.pc \in Knowing =>
             /\ services'[b.service].status = "deleting" => services[b.service].status = "deleting"
             /\ Pending("delete", b.service)' => Pending("delete", b.service)
    PROVE  Knows(b)'
<1>1. Previews \subseteq Services /\ \A p : Of(p) \subseteq Previews
    BY DEF Services, Of, PreviewsOf
<1>2. b.pc \in Knowing => b.service \in Services /\ Staying(b.service, b.pr)'
    BY <1>1, SameOf DEF Knows, Staying
<1>3. b.pc \in Removing => b.service \in Services
    BY <1>1 DEF Knows
<1>4. b.pc \in Looked /\ b.target = Production => Of(b.pr)' = {}
    BY SameOf DEF Knows
<1>5. b.pc \in Knowing =>
         /\ b.target = Production
         /\ b.pc # "domain" => services'[b.service].domain
         /\ b.pc \notin {"domain", "env"} => services'[b.service].env
    BY <1>2 DEF Knows, SameRows
<1>6. b.pc \in Removing =>
         /\ b.target = Production /\ b.service \in Previews /\ services'[b.service].status # "absent"
         /\ Of(b.pr)' \subseteq {b.service}
         /\ Exists(b.service)' => services'[b.service].pr = b.pr
    BY <1>3, SameOf DEF Knows, SameRows
<1> QED BY <1>2, <1>4, <1>5, <1>6 DEF Knows

\* Two branches that know of the same preview are one.
LEMMA OneKnows ==
    ASSUME Alone, NEW b \in branches, NEW c \in branches, Knows(b), Knows(c),
           b.pc \in Knowing \cup Removing, c.pc \in Knowing, b.service = c.service
    PROVE  b = c
<1>1. c.target = Production /\ Exists(c.service) /\ services[c.service].pr = c.pr
    BY DEF Knows, Staying, Of, PreviewsOf
<1>2. b.target = Production /\ services[b.service].pr = b.pr
    BY <1>1 DEF Knows, Staying, Of, PreviewsOf
<1> QED BY <1>1, <1>2 DEF Alone, Handles

-----------------------------------------------------------------------------
(* A branch goes on *)

\* b became c, or is gone: c is about the same pull request and target.
Moves(b, c) ==
    /\ c.pr = b.pr /\ c.target = b.target
    /\ c.pc \in Opening <=> b.pc \in Opening
    /\ branches' \subseteq (branches \ {b}) \cup {c}
    /\ branches \ {b} \subseteq branches'
    /\ UNCHANGED <<sent, pull, events>>

LEMMA MailStays ==
    ASSUME Newest, Alone, NEW b \in branches, NEW c, Moves(b, c)
    PROVE  Newest' /\ Alone'
<1>1. Newest'
    BY DEF Newest, Moves
<1>2. \A p : Awaited(p)' <=> Awaited(p)
    BY DEF Awaited, Moves
<1>3. \A x \in branches' : x \in branches \ {b} \/ x = c
    BY DEF Moves
<1>4. \A x \in branches' : x.pr \in PullRequests
    BY <1>3 DEF Alone, Moves
<1>5. ASSUME NEW x \in branches', NEW y \in branches', x.target = Production, Handles(y, x.pr)
      PROVE  x = y
    BY <1>3, <1>5 DEF Alone, Moves, Handles
<1>6. ASSUME NEW x \in branches', x.target = Production, ~Awaited(x.pr)
      PROVE  x.pc \in Opening <=> pull'[x.pr] = "open"
    BY <1>3, <1>6 DEF Alone, Moves
<1> QED BY <1>1, <1>2, <1>4, <1>5, <1>6 DEF Alone

\* Whoever was handled before, or is by this branch.
LEMMA HandledStays ==
    ASSUME NEW b \in branches, NEW c, Moves(b, c), NEW p \in PullRequests, Handled(p)'
    PROVE  /\ ~Handles(b, p) => Handled(p)
           /\ c \in branches' => ~Handles(b, p)
           /\ ~Awaited(p)
    BY DEF Handled, Awaited, Moves, Handles

\* The step of a branch that leaves the jobs alone and changes at most the row
\* of the preview it knows of.
LEMMA MovesFollow ==
    ASSUME TypeOK, InStep, NEW b \in branches, NEW c \in Branch, Moves(b, c), c \in branches' => Knows(c)',
           SameRows, UNCHANGED <<jobs, place, served>>,
           \A j \in Services : services'[j].status = services[j].status
                               \/ (j = b.service /\ b.pc \in Knowing \cup Removing),
           b.pc \in {"domain", "env"} => Made(b.service)',
           \A p \in refused' \ refused : Of(p) = {},
           \A p \in refused \ refused' : Handles(b, p),
           \A p \in PullRequests : Handled(p)' /\ Handles(b, p) => Right(p)'
    PROVE  InStep'
<1> USE DEF InStep
<1>0. Previews \subseteq Services /\ Production \in Services /\ branches \subseteq Branch
    BY DEF Services, TypeOK
<1>1. Rows' /\ Newest' /\ Alone'
    BY RowsStay, MailStays
<1>2. \A kind, i : Pending(kind, i)' <=> Pending(kind, i)
    BY PendingStays
<1>3. Works'
  <2>1. active' = active /\ place' = place /\ served' = served
      BY DEF jobs
  <2>2. \A i \in Services : /\ services'[i].status = "absent" => services[i].status = "absent"
                            /\ services[i].domain => services'[i].domain
                            /\ services[i].env => services'[i].env
      BY DEF SameRows
  <2>3. place = "record" => active.arg \in Services
      BY DEF TypeOK, Job
  <2> QED BY <1>0, <1>2, <2>1, <2>2, <2>3, SameOf DEF Works
<1>4. ASSUME NEW x \in branches', x # c
      PROVE  Knows(x)'
  <2>1. x \in branches /\ x # b /\ Knows(x) /\ Knows(b)
      BY <1>4 DEF Moves, Informed
  <2>2. x.pc \in Knowing => x.service \in Services
      BY <1>0, <2>1 DEF Knows, Staying, Of, PreviewsOf
  <2>3. x.pc \in Knowing => ~(x.service = b.service /\ b.pc \in Knowing \cup Removing)
      BY <2>1, OneKnows
  <2>4. x.pc \in Knowing => services'[x.service].status = services[x.service].status
      BY <2>2, <2>3
  <2> QED BY <1>0, <1>2, <2>1, <2>4, KnowsStays
<1>5. Informed'
    BY <1>4 DEF Informed
<1>6. ASSUME NEW i \in Previews, Exists(i)'
      PROVE  Made(i)'
  <2>1. Made(i)
      BY <1>0, <1>6, SameOf DEF Complete
  <2>2. CASE services[i].domain /\ services[i].env
      BY <1>0, <2>2 DEF SameRows, Made
  <2>3. CASE \E x \in branches : x.pc \in {"domain", "env"} /\ x.service = i
    <3>1. PICK x \in branches : x.pc \in {"domain", "env"} /\ x.service = i
        BY <2>3
    <3>2. x = b \/ x \in branches'
        BY DEF Moves
    <3> QED BY <3>1, <3>2 DEF Made
  <2> QED BY <2>1, <2>2, <2>3 DEF Made
<1>7. ASSUME NEW p \in refused'
      PROVE  Of(p)' = {}
    BY SameOf DEF Complete
<1>8. Complete'
    BY <1>6, <1>7 DEF Complete
<1>9. ASSUME NEW p \in PullRequests, Handled(p)', ~Handles(b, p)
      PROVE  Right(p)'
  <2>1. Right(p) /\ pull' = pull
      BY <1>9, HandledStays DEF Answered, Moves
  <2>2. CASE pull[p] # "open"
      BY <1>2, <2>1, <2>2, SameOf DEF Right
  <2>3. CASE p \in refused /\ pull[p] = "open"
      BY <1>9, <2>1, <2>3 DEF Right
  <2>4. CASE p \notin refused /\ pull[p] = "open"
    <3>1. PICK i \in Previews :
            /\ Staying(i, p)
            /\ Pending("deploy", i) \/ served[i] = "whole" \/ services[i].status = "crashed"
        BY <2>1, <2>4 DEF Right
    <3>2. ~(i = b.service /\ b.pc \in Knowing \cup Removing)
      <4>1. Exists(i) /\ services[i].pr = p
          BY <3>1 DEF Staying, Of, PreviewsOf
      <4>2. Knows(b)
          BY DEF Informed
      <4> QED BY <1>9, <4>1, <4>2 DEF Knows, Staying, Of, PreviewsOf, Handles
    <3>3. services'[i].status = services[i].status
        BY <1>0, <3>2
    <3>4. Staying(i, p)'
        BY <1>2, <3>1, <3>3, SameOf DEF Staying
    <3> QED BY <1>2, <2>1, <2>4, <3>1, <3>3, <3>4 DEF Right
  <2> QED BY <2>2, <2>3, <2>4
<1>10. Answered'
    BY <1>9 DEF Answered
<1> QED BY <1>1, <1>3, <1>5, <1>8, <1>10

\* It goes on to another step.
LEMMA GoesFollow ==
    ASSUME TypeOK, InStep, NEW b \in branches, NEW c \in Branch,
           c.pr = b.pr, c.target = b.target, c.pc \in Opening <=> b.pc \in Opening, Knows(c)',
           branches' = (branches \ {b}) \cup {c},
           SameRows, UNCHANGED <<sent, pull, events, jobs, place, served>>,
           \A j \in Services : services'[j].status = services[j].status
                               \/ (j = b.service /\ b.pc \in Knowing \cup Removing),
           b.pc \in {"domain", "env"} => Made(b.service)',
           refused' \subseteq refused, \A p \in refused \ refused' : Handles(b, p)
    PROVE  InStep'
<1>1. Moves(b, c) /\ c \in branches'
    BY DEF Moves
<1>2. \A p \in PullRequests : ~(Handled(p)' /\ Handles(b, p))
    BY <1>1, HandledStays
<1> QED BY <1>1, <1>2, MovesFollow

\* It returns, and the rows stay.
LEMMA LeavesFollow ==
    ASSUME TypeOK, InStep, NEW b \in branches, Leave(b), b.pc \notin {"domain", "env"},
           UNCHANGED <<services, sent, pull, events, jobs, place, served>>,
           \A p \in refused' \ refused : Of(p) = {},
           \A p \in refused \ refused' : Handles(b, p),
           \A p \in PullRequests : Handled(p)' /\ Handles(b, p) => Right(p)'
    PROVE  InStep'
<1>1. Moves(b, b) /\ b \notin branches' /\ b \in Branch
    BY DEF Moves, Leave, TypeOK
<1>2. SameRows
    BY DEF SameRows
<1> QED BY <1>1, <1>2, MovesFollow

-----------------------------------------------------------------------------
(* The steps of a branch *)

\* What becomes of a branch.
LEMMA OfBranch ==
    ASSUME TypeOK, NEW b \in branches
    PROVE  /\ b \in Branch
           /\ \A pc : /\ [b EXCEPT !.pc = pc].pc = pc
                      /\ [b EXCEPT !.pc = pc].pr = b.pr
                      /\ [b EXCEPT !.pc = pc].target = b.target
                      /\ [b EXCEPT !.pc = pc].service = b.service
           /\ \A pc \in Places : [b EXCEPT !.pc = pc] \in Branch
           /\ \A pc \in Places : \A i \in Services : [b EXCEPT !.pc = pc, !.service = i] \in Branch
    BY DEF TypeOK, Branch

\* It opens a pull request that is open, and removes what is of a closed one.
LEMMA AsTold ==
    ASSUME TypeOK, Alone, NEW b \in branches, NEW p \in PullRequests, Handles(b, p),
           Handled(p)', UNCHANGED <<sent, pull>>
    PROVE  b.pc \in Opening <=> pull'[p] = "open"
    BY DEF Alone, Handles, Handled, Awaited

LEMMA LookAtParentFollow ==
    ASSUME TypeOK, InStep, NEW b \in branches, LookAtParent(b)
    PROVE  InStep'
<1> DEFINE c == [b EXCEPT !.pc = "existing"]
<1>1. UNCHANGED <<services, sent, pull, events, jobs, place, served, refused>>
    BY DEF LookAtParent, rest, forge
<1>2. b.pc = "parent"
    BY DEF LookAtParent
<1>3. CASE Leave(b) /\ ~(Exists(b.target) /\ services[b.target].domain)
  <2>1. b.target # Production
      BY <1>3 DEF InStep, Rows
  <2> QED BY <1>1, <1>2, <1>3, <2>1, LeavesFollow DEF Handles
<1>4. CASE Go(b, "existing")
  <2>1. c \in Branch /\ c.pc = "existing" /\ c.pr = b.pr /\ c.target = b.target
      BY OfBranch DEF Places
  <2>2. Knows(c)'
      BY <2>1 DEF Knows, Looked, Knowing, Removing
  <2>3. c.pc \in Opening /\ b.pc \in Opening
      BY <1>2, <2>1 DEF Opening
  <2>4. branches' = (branches \ {b}) \cup {c} /\ SameRows
      BY <1>1, <1>4 DEF Go, SameRows
  <2> HIDE DEF c
  <2> QED BY <1>1, <1>2, <2>1, <2>2, <2>3, <2>4, GoesFollow
<1> QED BY <1>3, <1>4 DEF LookAtParent

LEMMA LookForExistingFollow ==
    ASSUME TypeOK, InStep, Sure', NEW b \in branches, LookForExisting(b)
    PROVE  InStep'
<1>1. UNCHANGED <<services, sent, pull, events, jobs, place, served, refused>>
    BY DEF LookForExisting, rest, forge
<1>2. b.pc = "existing" /\ b.pc \in Opening /\ SameRows
    BY <1>1 DEF LookForExisting, Opening, SameRows
<1>3. CASE PreviewsOf(b.target, b.pr) = {} /\ Go(b, "count")
  <2> DEFINE c == [b EXCEPT !.pc = "count"]
  <2>1. c \in Branch /\ c.pc = "count" /\ c.pr = b.pr /\ c.target = b.target
      BY OfBranch DEF Places
  <2>2. Knows(c)'
    <3>1. b.target = Production => Of(b.pr)' = {}
        BY <1>1, <1>3 DEF Of, PreviewsOf, Exists
    <3> QED BY <2>1, <3>1 DEF Knows, Looked, Knowing, Removing
  <2>3. c.pc \in Opening
      BY <2>1 DEF Opening, Looked
  <2>4. branches' = (branches \ {b}) \cup {c}
      BY <1>3 DEF Go
  <2> HIDE DEF c
  <2> QED BY <1>1, <1>2, <2>1, <2>2, <2>3, <2>4, GoesFollow
<1>4. ASSUME NEW i \in PreviewsOf(b.target, b.pr), GoWith(b, "queue", i), ~GoingOut(i)
      PROVE  InStep'
  <2> DEFINE c == [b EXCEPT !.pc = "queue", !.service = i]
  <2>0. i \in Previews /\ i \in Services /\ Exists(i) /\ services[i].of = b.target /\ services[i].pr = b.pr
      BY <1>4 DEF PreviewsOf, Services
  <2>1. c \in Branch /\ c.pc = "queue" /\ c.pr = b.pr /\ c.target = b.target /\ c.service = i
    <3>1. "queue" \in Places
        BY DEF Places
    <3>2. c \in Branch
        BY <2>0, <3>1, OfBranch
    <3>3. c.pc = "queue" /\ c.pr = b.pr /\ c.target = b.target /\ c.service = i
        BY DEF TypeOK, Branch
    <3> QED BY <3>2, <3>3
  <2>2. b.target = Production /\ i \in Of(b.pr)
      BY <1>4, <2>0 DEF InStep, Rows, Of
  <2>3. services[i].domain /\ services[i].env
    <3>1. SUFFICES ASSUME NEW x \in branches, x.pc \in {"domain", "env"}, x.service = i
                   PROVE  FALSE
        BY <2>0 DEF InStep, Complete, Made
    <3>2. x.target = Production /\ services[i].pr = x.pr
        BY <3>1 DEF InStep, Informed, Knows, Knowing, Staying, Of, PreviewsOf
    <3>3. x = b
        BY <2>0, <2>2, <3>2 DEF InStep, Alone, Handles
    <3> QED BY <1>2, <3>1, <3>3
  <2>4. Staying(i, b.pr)'
      BY <1>1, <1>4, <2>2, PendingStays DEF Staying, GoingOut, Of, PreviewsOf, Exists
  <2>5. Knows(c)'
      BY <1>1, <2>1, <2>2, <2>3, <2>4 DEF Knows, Looked, Knowing, Removing
  <2>6. c.pc \in Opening
      BY <2>1 DEF Opening, Knowing
  <2>7. branches' = (branches \ {b}) \cup {c}
      BY <1>4 DEF GoWith
  <2> HIDE DEF c
  <2> QED BY <1>1, <1>2, <2>1, <2>5, <2>6, <2>7, GoesFollow
<1>5. ~Note("revived")
    BY DEF Sure, Note
<1> QED BY <1>3, <1>4, <1>5 DEF LookForExisting

LEMMA CountFollow ==
    ASSUME TypeOK, InStep, NEW b \in branches, Count(b)
    PROVE  InStep'
<1>1. UNCHANGED <<services, sent, pull, events, jobs, place, served>>
    BY DEF Count, rest, forge
<1>2. b.pc = "count" /\ b.pc \in Opening /\ SameRows
    BY <1>1 DEF Count, Opening, Looked, SameRows
<1>3. b.target = Production => Of(b.pr) = {}
    BY <1>2 DEF InStep, Informed, Knows, Looked
<1>4. CASE Leave(b) /\ refused' = refused \cup Asked(b)
  <2>1. \A p \in refused' \ refused : Of(p) = {}
      BY <1>3, <1>4 DEF Asked
  <2>2. ASSUME NEW p \in PullRequests, Handled(p)', Handles(b, p)
        PROVE  Right(p)'
    <3>1. p \in refused'
        BY <1>4, <2>2 DEF Asked, Handles
    <3>2. pull'[p] = "open"
        BY <1>1, <1>2, <2>2, AsTold DEF InStep
    <3> QED BY <3>1, <3>2 DEF Right
  <2> QED BY <1>1, <1>2, <1>4, <2>1, <2>2, LeavesFollow
<1>5. CASE Go(b, "environment") /\ refused' = refused
  <2> DEFINE c == [b EXCEPT !.pc = "environment"]
  <2>1. c \in Branch /\ c.pc = "environment" /\ c.pr = b.pr /\ c.target = b.target
      BY OfBranch DEF Places
  <2>2. Knows(c)'
    <3>1. b.target = Production => Of(b.pr)' = {}
        BY <1>3, <1>2, SameOf
    <3> QED BY <2>1, <3>1 DEF Knows, Looked, Knowing, Removing
  <2>3. c.pc \in Opening
      BY <2>1 DEF Opening, Looked
  <2>4. branches' = (branches \ {b}) \cup {c}
      BY <1>5 DEF Go
  <2> HIDE DEF c
  <2> QED BY <1>1, <1>2, <1>5, <2>1, <2>2, <2>3, <2>4, GoesFollow
<1> QED BY <1>4, <1>5 DEF Count

LEMMA EnvironmentFollow ==
    ASSUME TypeOK, InStep, Sure', NEW b \in branches, LookForEnvironment(b) \/ InsertEnvironment(b)
    PROVE  InStep'
<1>1. UNCHANGED <<sent, pull, events, jobs, place, served, refused>>
    BY DEF LookForEnvironment, InsertEnvironment, rest, forge
<1>2. ~Rejected(b)
    BY DEF Rejected, Note, Sure
<1>3. UNCHANGED services /\ b.pc \in Looked
    BY <1>2 DEF LookForEnvironment, InsertEnvironment, Looked
<1>4. PICK pc \in {"insert", "environments"} : Go(b, pc)
    BY <1>2 DEF LookForEnvironment, InsertEnvironment
<1> DEFINE c == [b EXCEPT !.pc = pc]
<1>5. c \in Branch /\ c.pc = pc /\ c.pr = b.pr /\ c.target = b.target
    BY OfBranch DEF Places
<1>6. SameRows
    BY <1>3 DEF SameRows
<1>7. b.target = Production => Of(b.pr)' = {}
    BY <1>3, <1>6, SameOf DEF InStep, Informed, Knows
<1>8. Knows(c)'
    BY <1>5, <1>7 DEF Knows, Looked, Knowing, Removing
<1>9. c.pc \in Opening /\ b.pc \in Opening /\ b.pc \notin {"domain", "env"}
    BY <1>3, <1>5 DEF Opening, Looked
<1>10. branches' = (branches \ {b}) \cup {c}
    BY <1>4 DEF Go
<1> HIDE DEF c
<1> QED BY <1>1, <1>3, <1>5, <1>6, <1>8, <1>9, <1>10, GoesFollow

\* The row it inserts is the one preview of its pull request.
LEMMA InsertFollow ==
    ASSUME TypeOK, InStep, Sure', NEW b \in branches, Insert(b)
    PROVE  InStep'
<1>0. Previews \subseteq Services /\ Production \in Services /\ Production \notin Previews
    BY DEF Services, Previews, Production
<1>1. ~Rejected(b) /\ ~Note("nested")
    BY DEF Rejected, Note, Sure
<1>2. /\ b.pc = "insert" /\ b.pc \in Opening /\ b.pc \notin Knowing \cup Removing
      /\ b.target = Production /\ Of(b.pr) = {}
      /\ refused' = refused \ Asked(b)
      /\ UNCHANGED <<jobs, sent, pull, events, place, served>>
    BY <1>1 DEF Insert, Of, Opening, Looked, Knowing, Removing, rest, forge
<1>3. PICK i \in Previews :
        /\ services[i].status = "absent"
        /\ services' = [services EXCEPT ![i] =
             [NoRow EXCEPT !.status = "created", !.of = b.target, !.pr = b.pr]]
        /\ GoWith(b, "domain", i)
    BY <1>1 DEF Insert
<1> DEFINE c == [b EXCEPT !.pc = "domain", !.service = i]
<1>4. c \in Branch /\ c.pc = "domain" /\ c.pr = b.pr /\ c.target = Production /\ c.service = i
  <2>1. "domain" \in Places
      BY DEF Places
  <2>2. c \in Branch
      BY <1>0, <2>1, OfBranch
  <2>3. c.pc = "domain" /\ c.pr = b.pr /\ c.target = b.target /\ c.service = i
      BY DEF TypeOK, Branch
  <2> QED BY <1>2, <2>2, <2>3
<1>5. branches' = (branches \ {b}) \cup {c}
    BY <1>3 DEF GoWith
<1> HIDE DEF c
<1>6. /\ services'[i].status = "created" /\ services'[i].of = Production /\ services'[i].pr = b.pr
      /\ \A j \in Services : j # i => services'[j] = services[j]
    BY <1>0, <1>2, <1>3 DEF TypeOK, NoRow
<1>7. /\ ~Exists(i) /\ Exists(i)'
      /\ \A j \in Services : j # i => (Exists(j)' <=> Exists(j))
    BY <1>3, <1>6 DEF Exists
<1>8. /\ \A p : p # b.pr => Of(p)' = Of(p)
      /\ Of(b.pr)' = {i}
    BY <1>0, <1>2, <1>6, <1>7 DEF Of, PreviewsOf
<1>9. \A kind, j : Pending(kind, j)' <=> Pending(kind, j)
    BY <1>2, PendingStays
<1>10. \A kind \in JobKinds : ~Pending(kind, i)
    BY <1>0, <1>3 DEF InStep, Works
<1>11. b.pr \in PullRequests
    BY DEF InStep, Alone
<1>12. Rows'
  <2>1. Exists(Production)' /\ services'[Production].domain
      BY <1>0, <1>6, <1>7 DEF InStep, Rows
  <2>2. ASSUME NEW j \in Previews
        PROVE  /\ services'[j].of \in {Production, NoService}
               /\ Exists(j)' => services'[j].of = Production /\ services'[j].pr \in PullRequests
      BY <1>0, <1>6, <1>7, <1>11 DEF InStep, Rows
  <2>3. ASSUME NEW j \in Previews, NEW k \in Previews, Exists(j)', Exists(k)',
               services'[j].pr = services'[k].pr
        PROVE  j = k
    <3>1. \A x \in Previews : x \in Of(b.pr) <=> Exists(x) /\ services[x].of = Production /\ services[x].pr = b.pr
        BY DEF Of, PreviewsOf
    <3>2. \A x \in Previews : x # i /\ Exists(x)' => services'[x].pr # b.pr
        BY <1>0, <1>2, <1>6, <1>7, <3>1 DEF InStep, Rows
    <3>3. CASE j # i /\ k # i
        BY <1>0, <1>6, <1>7, <2>3, <3>3 DEF InStep, Rows
    <3> QED BY <1>6, <2>3, <3>2, <3>3
  <2> QED BY <2>1, <2>2, <2>3 DEF Rows
<1>13. Works'
  <2>1. active' = active /\ place' = place /\ served' = served
      BY <1>2 DEF jobs
  <2>2. \A kind \in JobKinds, j \in Services :
           Pending(kind, j)' => j \in Previews /\ services'[j].status # "absent"
      BY <1>6, <1>9 DEF InStep, Works
  <2>3. \A j \in Previews : Pending("deploy", j)' /\ Exists(j)' => services'[j].domain /\ services'[j].env
      BY <1>0, <1>6, <1>7, <1>9, <1>10 DEF InStep, Works, JobKinds
  <2>4. \A j \in Previews : served'[j] # "no" => Exists(j)'
      BY <1>0, <1>7, <2>1 DEF InStep, Works
  <2>5. place = "record" => active.arg \in Services /\ Pending("deploy", active.arg)
      BY DEF InStep, Works, Pending, TypeOK, Job
  <2>6. place' = "record" /\ Exists(active.arg)' => served'[active.arg] = "whole"
      BY <1>7, <1>10, <2>1, <2>5 DEF InStep, Works, JobKinds
  <2>7. \A j \in Services : ~Pending("lifecycle", j)'
      BY <1>9 DEF InStep, Works
  <2> QED BY <2>1, <2>2, <2>3, <2>4, <2>6, <2>7 DEF InStep, Works
<1>14. Newest' /\ Alone'
  <2>1. Moves(b, c)
      BY <1>2, <1>4, <1>5 DEF Moves, Opening, Knowing
  <2> QED BY <2>1, MailStays DEF InStep
<1>15. ASSUME NEW x \in branches'
       PROVE  Knows(x)'
  <2>1. CASE x = c
      BY <1>4, <1>6, <1>8, <1>9, <1>10, <2>1
         DEF Knows, Looked, Knowing, Removing, Staying, JobKinds
  <2>2. CASE x # c
    <3>1. x \in branches /\ x # b /\ Knows(x)
        BY <1>5, <2>2 DEF InStep, Informed
    <3>2. x.target = Production => x.pr # b.pr
        BY <1>2, <3>1 DEF InStep, Alone, Handles
    <3>3. x.pc \in Knowing \cup Removing => x.target = Production /\ x.service \in Previews /\ x.service # i
        BY <1>3, <1>7, <3>1 DEF Knows, Staying, Of, PreviewsOf
    <3>4. x.pc \in Knowing \cup Removing =>
             services'[x.service] = services[x.service] /\ (Exists(x.service)' <=> Exists(x.service))
        BY <1>0, <1>6, <1>7, <3>3
    <3>5. x.target = Production => Of(x.pr)' = Of(x.pr)
        BY <1>8, <3>2
    <3> QED BY <1>9, <3>1, <3>3, <3>4, <3>5 DEF Knows, Staying
  <2> QED BY <2>1, <2>2
<1>16. Complete'
  <2>1. ASSUME NEW j \in Previews, Exists(j)'
        PROVE  Made(j)'
    <3>1. CASE j = i
        BY <1>4, <1>5, <3>1 DEF Made
    <3>2. CASE j # i
      <4>1. Made(j) /\ services'[j] = services[j]
          BY <1>0, <1>6, <1>7, <2>1, <3>2 DEF InStep, Complete
      <4>2. \A x \in branches : x.pc \in {"domain", "env"} => x \in branches'
          BY <1>2, <1>5
      <4> QED BY <4>1, <4>2 DEF Made
    <3> QED BY <3>1, <3>2
  <2>2. ASSUME NEW p \in refused'
        PROVE  Of(p)' = {}
    <3>1. p \in refused /\ p # b.pr
        BY <1>2, <1>11, <2>2 DEF Asked
    <3> QED BY <1>8, <3>1 DEF InStep, Complete
  <2> QED BY <2>1, <2>2 DEF Complete
<1>17. ASSUME NEW p \in PullRequests, Handled(p)'
       PROVE  Right(p)'
  <2>1. p # b.pr
      BY <1>4, <1>5, <1>17 DEF Handled, Handles
  <2>2. Handled(p)
      BY <1>2, <1>5, <1>17, <2>1 DEF Handled, Awaited, Handles
  <2>3. Right(p) /\ Of(p)' = Of(p) /\ pull' = pull /\ served' = served
      BY <1>2, <1>8, <2>1, <2>2 DEF InStep, Answered
  <2>4. p \in refused => p \in refused'
      BY <1>2, <2>1 DEF Asked
  <2>5. \A j \in Of(p) : j \in Services /\ services'[j] = services[j]
      BY <1>0, <1>6, <1>7 DEF Of, PreviewsOf
  <2>6. \A j \in Previews : Staying(j, p) => Staying(j, p)' /\ services'[j] = services[j]
      BY <1>9, <2>3, <2>5 DEF Staying
  <2> QED BY <1>9, <2>3, <2>4, <2>6 DEF Right
<1> QED BY <1>12, <1>13, <1>14, <1>15, <1>16, <1>17 DEF InStep, Informed, Answered

\* The columns it fills in, in this order.
LEMMA ColumnsFollow ==
    ASSUME TypeOK, InStep, Sure', NEW b \in branches, InsertDomain(b) \/ CopyEnvVars(b)
    PROVE  InStep'
<1> DEFINE pc == IF b.pc = "domain" THEN "env" ELSE "queue"
           c  == [b EXCEPT !.pc = pc]
           row == IF b.pc = "domain" THEN [services[b.service] EXCEPT !.domain = TRUE]
                                     ELSE [services[b.service] EXCEPT !.env = TRUE]
<1>0. Previews \subseteq Services /\ services \in [Services -> Row]
    BY DEF Services, TypeOK
<1>1. ~Rejected(b)
    BY DEF Rejected, Note, Sure
<1>2. /\ UNCHANGED <<sent, pull, events, jobs, place, served, refused>>
      /\ b.pc \in {"domain", "env"} /\ Exists(b.service) /\ Go(b, pc)
      /\ services' = [services EXCEPT ![b.service] = row]
    BY <1>1 DEF InsertDomain, CopyEnvVars, rest, forge
<1>3. /\ b.pc \in Knowing /\ b.pc \in Opening /\ b.target = Production
      /\ b.service \in Previews /\ b.service \in Services /\ Staying(b.service, b.pr)
      /\ b.pc = "env" => services[b.service].domain
    BY <1>0, <1>2 DEF InStep, Informed, Knows, Knowing, Opening, Staying, Of, PreviewsOf
<1>4. services[b.service] \in Row
    BY <1>0, <1>3
<1>5. /\ row.status = services[b.service].status /\ row.of = services[b.service].of
      /\ row.pr = services[b.service].pr /\ row.domain
      /\ services[b.service].env \/ b.pc = "env" => row.env
    BY <1>3, <1>4, <1>2 DEF Row
<1>6. pc \in {"env", "queue"} /\ (pc = "queue" => b.pc = "env")
    BY <1>2
<1>7. c \in Branch /\ c.pc = pc /\ c.pr = b.pr /\ c.target = b.target /\ c.service = b.service
  <2>1. pc \in Places
      BY <1>6 DEF Places
  <2> HIDE DEF pc
  <2> QED BY <2>1, OfBranch
<1>8. branches' = (branches \ {b}) \cup {c}
    BY <1>2 DEF Go
<1>9. services'[b.service] = row /\ \A j \in Services : j # b.service => services'[j] = services[j]
    BY <1>0, <1>2, <1>3
<1> HIDE DEF c, row, pc
<1>10. SameRows
    BY <1>5, <1>9 DEF SameRows
<1>11. \A j \in Services : services'[j].status = services[j].status
    BY <1>5, <1>9
<1>12. Staying(b.service, b.pr)'
    BY <1>2, <1>3, <1>10, <1>11, SameOf, PendingStays DEF Staying
<1>13. Knows(c)'
    BY <1>3, <1>5, <1>6, <1>7, <1>9, <1>12 DEF Knows, Looked, Knowing, Removing
<1>14. c.pc \in Opening
    BY <1>6, <1>7 DEF Opening, Knowing
<1>15. Made(b.service)'
  <2>1. CASE pc = "env"
      BY <1>7, <1>8, <2>1 DEF Made
  <2>2. CASE pc = "queue"
      BY <1>5, <1>6, <1>9, <2>2 DEF Made
  <2> QED BY <1>6, <2>1, <2>2
<1> QED BY <1>2, <1>3, <1>7, <1>8, <1>10, <1>11, <1>13, <1>14, <1>15, GoesFollow

LEMMA QueueDeployFollow ==
    ASSUME TypeOK, InStep, Sure', NEW b \in branches, QueueDeploy(b)
    PROVE  InStep'
<1> DEFINE c == [b EXCEPT !.pc = "mark"]
<1>1. ~Rejected(b)
    BY DEF Rejected, Note, Sure
<1>2. /\ UNCHANGED <<services, sent, pull, events, jobs, place, served, refused>>
      /\ b.pc = "queue" /\ Go(b, "mark")
    BY <1>1 DEF QueueDeploy, rest, forge
<1>3. c \in Branch /\ c.pc = "mark" /\ c.pr = b.pr /\ c.target = b.target /\ c.service = b.service
    BY OfBranch DEF Places
<1>4. branches' = (branches \ {b}) \cup {c} /\ SameRows
    BY <1>2 DEF Go, SameRows
<1> HIDE DEF c
<1>5. Staying(b.service, b.pr)'
    BY <1>2, PendingStays DEF InStep, Informed, Knows, Knowing, Staying, Of, PreviewsOf, Exists
<1>6. Knows(c)'
    BY <1>2, <1>3, <1>5 DEF InStep, Informed, Knows, Looked, Knowing, Removing
<1>7. c.pc \in Opening /\ b.pc \in Opening
    BY <1>2, <1>3 DEF Opening, Knowing
<1> QED BY <1>2, <1>3, <1>4, <1>6, <1>7, GoesFollow

LEMMA MarkPreviewFollow ==
    ASSUME TypeOK, InStep, Sure', NEW b \in branches, MarkPreview(b)
    PROVE  InStep'
<1> DEFINE c   == [b EXCEPT !.pc = "enqueue"]
           row == MarkDeploying(services[b.service])
<1>1. ~Note("revived")
    BY DEF Note, Sure
<1>2. /\ UNCHANGED <<sent, pull, events, jobs, place, served, refused>>
      /\ b.pc = "mark" /\ Go(b, "enqueue") /\ Update(b.service, row)
    BY <1>1 DEF MarkPreview, rest, forge
<1>3. c \in Branch /\ c.pc = "enqueue" /\ c.pr = b.pr /\ c.target = b.target /\ c.service = b.service
    BY OfBranch DEF Places
<1>4. branches' = (branches \ {b}) \cup {c}
    BY <1>2 DEF Go
<1>5. /\ b.pc \in Knowing /\ b.pc \in Opening /\ b.target = Production
      /\ b.service \in Previews /\ b.service \in Services /\ Exists(b.service) /\ Staying(b.service, b.pr)
      /\ services[b.service].domain /\ services[b.service].env
    BY <1>2 DEF InStep, Informed, Knows, Knowing, Opening, Staying, Of, PreviewsOf, Services
<1>6. services[b.service] \in Row
    BY <1>5 DEF TypeOK
<1>7. /\ row \in Row /\ row.status = "deploying" /\ row.of = services[b.service].of
      /\ row.pr = services[b.service].pr /\ row.domain = services[b.service].domain
      /\ row.env = services[b.service].env
    BY <1>6 DEF MarkDeploying, Row, RESOURCE_STATUSES
<1> HIDE DEF c, row
<1>8. /\ SameRows /\ services'[b.service] = row
      /\ \A j \in Services : j # b.service => services'[j] = services[j]
    BY <1>2, <1>5, <1>7, UpdateStays
<1>9. Staying(b.service, b.pr)'
    BY <1>2, <1>5, <1>7, <1>8, SameOf, PendingStays DEF Staying
<1>10. Knows(c)'
    BY <1>3, <1>5, <1>7, <1>8, <1>9 DEF Knows, Looked, Knowing, Removing
<1>11. c.pc \in Opening
    BY <1>3 DEF Opening, Knowing
<1> QED BY <1>2, <1>3, <1>4, <1>5, <1>8, <1>10, <1>11, GoesFollow

LEMMA EnqueueDeployFollow ==
    ASSUME TypeOK, InStep, NEW b \in branches, EnqueueDeploy(b)
    PROVE  InStep'
<1>0. Previews \subseteq Services
    BY DEF Services
<1>1. /\ UNCHANGED <<services, sent, pull, events, active, place, served, refused>>
      /\ b.pc = "enqueue" /\ Enqueue("deploy", b.service) /\ branches' = branches \ {b}
    BY DEF EnqueueDeploy, Enqueue, Leave, rest, forge
<1>2. /\ b.target = Production /\ Staying(b.service, b.pr)
      /\ services[b.service].domain /\ services[b.service].env
      /\ b.service \in Previews /\ Exists(b.service) /\ b.pc \in Opening
    BY <1>1 DEF InStep, Informed, Knows, Knowing, Staying, Of, PreviewsOf, Opening
<1>3. \A k, i : Pending(k, i)' <=> Pending(k, i) \/ (k = "deploy" /\ i = b.service)
    BY <1>1, PendingEnqueue
<1>4. SameRows
    BY <1>1 DEF SameRows
<1>5. \A i : Pending("delete", i)' <=> Pending("delete", i)
    BY <1>3
<1>6. Rows'
    BY <1>4, RowsStay DEF InStep
<1>7. Works'
  <2>1. services[b.service].status # "absent"
      BY <1>2 DEF Exists
  <2> QED BY <1>0, <1>1, <1>2, <1>3, <2>1 DEF InStep, Works, Exists
<1>8. Newest' /\ Alone'
  <2>1. Moves(b, b)
      BY <1>1 DEF Moves
  <2> QED BY <2>1, MailStays DEF InStep
<1>9. Informed'
  <2>1. ASSUME NEW x \in branches' PROVE Knows(x)'
    <3>1. x \in Branch /\ Knows(x)
        BY <1>1 DEF InStep, Informed, TypeOK
    <3> QED BY <1>1, <1>4, <1>5, <3>1, KnowsStays
  <2> QED BY <2>1 DEF Informed
<1>10. Complete'
  <2>1. \A x \in branches : x.pc \in {"domain", "env"} => x \in branches'
      BY <1>1
  <2> QED BY <1>0, <1>1, <1>4, <2>1, SameOf DEF InStep, Complete, Made
<1>11. ASSUME NEW p \in PullRequests, Handled(p)'
       PROVE  Right(p)'
  <2>1. Of(p)' = Of(p) /\ \A i : Staying(i, p)' <=> Staying(i, p)
      BY <1>1, <1>4, <1>5, SameOf DEF Staying
  <2>2. CASE Handles(b, p)
    <3>1. pull'[p] = "open" /\ p = b.pr
        BY <1>1, <1>2, <1>11, <2>2, AsTold DEF InStep, Handles
    <3> QED BY <1>2, <1>3, <2>1, <3>1 DEF Right
  <2>3. CASE ~Handles(b, p)
    <3>1. Handled(p)
        BY <1>1, <1>11, <2>3 DEF Handled, Awaited
    <3>2. Right(p)
        BY <3>1 DEF InStep, Answered
    <3> QED BY <1>1, <1>3, <2>1, <3>2 DEF Right
  <2> QED BY <2>2, <2>3
<1> QED BY <1>6, <1>7, <1>8, <1>9, <1>10, <1>11 DEF InStep, Answered

LEMMA EnqueueDeleteFollow ==
    ASSUME TypeOK, InStep, NEW b \in branches, EnqueueDelete(b)
    PROVE  InStep'
<1>0. Previews \subseteq Services
    BY DEF Services
<1>1. /\ UNCHANGED <<services, sent, pull, events, active, place, served, refused>>
      /\ b.pc = "removing" /\ Enqueue("delete", b.service) /\ branches' = branches \ {b}
    BY DEF EnqueueDelete, Enqueue, Leave, rest, forge
<1>2. /\ b.target = Production /\ b.service \in Previews /\ services[b.service].status # "absent"
      /\ Of(b.pr) \subseteq {b.service} /\ b.pc \notin Opening /\ b.pc \in Removing
      /\ Exists(b.service) => services[b.service].pr = b.pr
    BY <1>1 DEF InStep, Informed, Knows, Knowing, Looked, Removing, Opening
<1>3. \A k, i : Pending(k, i)' <=> Pending(k, i) \/ (k = "delete" /\ i = b.service)
    BY <1>1, PendingEnqueue
<1>4. SameRows
    BY <1>1 DEF SameRows
<1>5. /\ \A i : Pending("deploy", i)' <=> Pending("deploy", i)
      /\ \A i : i # b.service => (Pending("delete", i)' <=> Pending("delete", i))
      /\ Pending("delete", b.service)'
    BY <1>3
<1>6. Rows'
    BY <1>4, RowsStay DEF InStep
<1>7. Works'
  <2>1. \A i \in Previews : Pending("deploy", i)' /\ Exists(i)' => services'[i].domain /\ services'[i].env
      BY <1>1, <1>5 DEF InStep, Works, Exists
  <2> QED BY <1>0, <1>1, <1>2, <1>3, <2>1 DEF InStep, Works, Exists
<1>8. Newest' /\ Alone'
  <2>1. Moves(b, b)
      BY <1>1 DEF Moves
  <2> QED BY <2>1, MailStays DEF InStep
<1>9. Informed'
  <2>1. ASSUME NEW x \in branches' PROVE Knows(x)'
    <3>1. x \in Branch /\ x \in branches /\ x # b /\ Knows(x) /\ Knows(b)
        BY <1>1 DEF InStep, Informed, TypeOK
    <3>2. x.pc \in Knowing => x.service # b.service
        BY <1>2, <3>1, OneKnows DEF InStep
    <3> QED BY <1>1, <1>4, <1>5, <3>1, <3>2, KnowsStays
  <2> QED BY <2>1 DEF Informed
<1>10. Complete'
  <2>1. \A x \in branches : x.pc \in {"domain", "env"} => x \in branches'
      BY <1>1
  <2> QED BY <1>0, <1>1, <1>4, <2>1, SameOf DEF InStep, Complete, Made
<1>11. ASSUME NEW p \in PullRequests, Handled(p)'
       PROVE  Right(p)'
  <2>1. Of(p)' = Of(p)
      BY <1>4, SameOf
  <2>2. CASE Handles(b, p)
    <3>1. pull'[p] # "open" /\ p = b.pr
        BY <1>1, <1>2, <1>11, <2>2, AsTold DEF InStep, Handles
    <3> QED BY <1>2, <1>5, <2>1, <3>1 DEF Right
  <2>3. CASE ~Handles(b, p)
    <3>1. Handled(p)
        BY <1>1, <1>11, <2>3 DEF Handled, Awaited
    <3>2. Right(p)
        BY <3>1 DEF InStep, Answered
    <3>3. b.service \notin Of(p)
        BY <1>2, <2>3 DEF Of, PreviewsOf, Handles
    <3>4. \A i : Staying(i, p) => Staying(i, p)'
        BY <1>1, <1>5, <2>1, <3>3 DEF Staying
    <3>5. \A i : Pending("delete", i) => Pending("delete", i)'
        BY <1>3
    <3> QED BY <1>1, <1>5, <2>1, <3>2, <3>4, <3>5 DEF Right
  <2> QED BY <2>2, <2>3
<1> QED BY <1>6, <1>7, <1>8, <1>9, <1>10, <1>11 DEF InStep, Answered

LEMMA LookForClosedFollow ==
    ASSUME TypeOK, InStep, NEW b \in branches, LookForClosed(b)
    PROVE  InStep'
<1>0. Previews \subseteq Services
    BY DEF Services
<1>1. UNCHANGED <<services, sent, pull, events, jobs, place, served>> /\ refused' = refused \ Asked(b)
    BY DEF LookForClosed, rest, forge
<1>2. b.pc = "closed" /\ b.pc \notin Opening /\ SameRows
    BY <1>1 DEF LookForClosed, Opening, Looked, Knowing, SameRows
<1>3. refused' \subseteq refused /\ \A p \in refused \ refused' : Handles(b, p)
    BY <1>1 DEF Asked, Handles
<1>4. CASE PreviewsOf(b.target, b.pr) = {} /\ Leave(b)
  <2>1. ASSUME NEW p \in PullRequests, Handled(p)', Handles(b, p)
        PROVE  Right(p)'
    <3>1. pull'[p] # "open"
        BY <1>1, <1>2, <2>1, AsTold DEF InStep
    <3>2. Of(p)' = {}
        BY <1>4, <1>2, <2>1, SameOf DEF Of, Handles
    <3> QED BY <3>1, <3>2 DEF Right
  <2> QED BY <1>1, <1>2, <1>3, <1>4, <2>1, LeavesFollow
<1>5. ASSUME NEW i \in PreviewsOf(b.target, b.pr), GoWith(b, "deleting", i)
      PROVE  InStep'
  <2> DEFINE c == [b EXCEPT !.pc = "deleting", !.service = i]
  <2>1. /\ i \in Previews /\ i \in Services /\ Exists(i) /\ services[i].of = b.target
        /\ services[i].pr = b.pr
      BY <1>0, <1>5 DEF PreviewsOf
  <2>2. b.target = Production
      BY <2>1 DEF InStep, Rows
  <2>3. c \in Branch /\ c.pc = "deleting" /\ c.pr = b.pr /\ c.target = b.target /\ c.service = i
    <3>1. "deleting" \in Places
        BY DEF Places
    <3>2. c \in Branch
        BY <2>1, <3>1, OfBranch
    <3>3. c.pc = "deleting" /\ c.pr = b.pr /\ c.target = b.target /\ c.service = i
        BY DEF TypeOK, Branch
    <3> QED BY <3>2, <3>3
  <2>4. branches' = (branches \ {b}) \cup {c}
      BY <1>5 DEF GoWith
  <2> HIDE DEF c
  <2>5. Of(b.pr) \subseteq {i}
      BY <2>1 DEF InStep, Rows, Of, PreviewsOf
  <2>6. Of(b.pr)' \subseteq {i}
      BY <1>2, <2>5, SameOf
  <2>7. services'[i].status # "absent" /\ services'[i].pr = b.pr
      BY <1>1, <2>1 DEF Exists
  <2>8. Knows(c)'
      BY <2>1, <2>2, <2>3, <2>6, <2>7 DEF Knows, Looked, Knowing, Removing
  <2>9. c.pc \notin Opening
      BY <2>3 DEF Opening, Looked, Knowing
  <2> QED BY <1>1, <1>2, <1>3, <2>3, <2>4, <2>8, <2>9, GoesFollow
<1> QED BY <1>4, <1>5 DEF LookForClosed

LEMMA MarkDeletedFollow ==
    ASSUME TypeOK, InStep, NEW b \in branches, MarkDeleted(b)
    PROVE  InStep'
<1> DEFINE c   == [b EXCEPT !.pc = "removing"]
           row == MarkDeleting(services[b.service])
<1>1. /\ UNCHANGED <<sent, pull, events, jobs, place, served, refused>>
      /\ b.pc = "deleting" /\ Go(b, "removing") /\ Update(b.service, row)
    BY DEF MarkDeleted, rest, forge
<1>2. c \in Branch /\ c.pc = "removing" /\ c.pr = b.pr /\ c.target = b.target /\ c.service = b.service
    BY OfBranch DEF Places
<1>3. branches' = (branches \ {b}) \cup {c}
    BY <1>1 DEF Go
<1>4. /\ b.pc \in Removing /\ b.pc \notin Opening /\ b.target = Production
      /\ b.service \in Previews /\ b.service \in Services /\ services[b.service].status # "absent"
      /\ Of(b.pr) \subseteq {b.service}
      /\ Exists(b.service) => services[b.service].pr = b.pr
    BY <1>1 DEF InStep, Informed, Knows, Knowing, Looked, Opening, Removing, Services
<1>5. services[b.service] \in Row
    BY <1>4 DEF TypeOK
<1>6. /\ row \in Row /\ row.status = "deleting" /\ row.of = services[b.service].of
      /\ row.pr = services[b.service].pr /\ row.domain = services[b.service].domain
      /\ row.env = services[b.service].env
    BY <1>5 DEF MarkDeleting, Row, RESOURCE_STATUSES
<1> HIDE DEF c, row
<1>7. /\ SameRows /\ \A j \in Services : j # b.service => services'[j] = services[j]
    BY <1>1, <1>4, <1>6, UpdateStays
<1>8. /\ Of(b.pr)' \subseteq {b.service}
      /\ services'[b.service].status # "absent"
      /\ Exists(b.service)' => services'[b.service].pr = b.pr
  <2>1. Of(b.pr)' = Of(b.pr) /\ (Exists(b.service)' <=> Exists(b.service))
      BY <1>4, <1>7, SameOf
  <2>2. /\ services'[b.service].pr = services[b.service].pr
        /\ services'[b.service].status = "absent" => services[b.service].status = "absent"
      BY <1>4, <1>7 DEF SameRows
  <2> QED BY <1>4, <2>1, <2>2
<1>9. Knows(c)'
    BY <1>2, <1>4, <1>8 DEF Knows, Looked, Knowing, Removing
<1>10. c.pc \notin Opening
    BY <1>2 DEF Opening, Looked, Knowing
<1> QED BY <1>1, <1>2, <1>3, <1>4, <1>7, <1>9, <1>10, GoesFollow

LEMMA HandleFollow ==
    ASSUME TypeOK, InStep, Sure', NEW b \in branches, Handle(b)
    PROVE  InStep'
<1>1. ~Throw(b)
    BY DEF Throw, Note, Sure
<1> QED BY <1>1, LookAtParentFollow, LookForExistingFollow, CountFollow, EnvironmentFollow, InsertFollow,
           ColumnsFollow, QueueDeployFollow, MarkPreviewFollow, EnqueueDeployFollow, LookForClosedFollow,
           MarkDeletedFollow, EnqueueDeleteFollow
    DEF Handle

-----------------------------------------------------------------------------
(* The steps of the worker *)

\* A step of the worker that removes no row, and ends at most the job it is at.
LEMMA WorkerFollow ==
    ASSUME TypeOK, InStep, SameRows, Works',
           UNCHANGED <<sent, pull, events, branches, refused>>,
           \A i \in Services : services'[i].status = "deleting" => services[i].status = "deleting",
           \A i \in Services : Pending("delete", i)' => Pending("delete", i),
           \A i \in Previews : Exists(i) /\ Pending("delete", i) => Pending("delete", i)',
           \A i \in Previews :
             /\ Exists(i) /\ ~Pending("delete", i)
             /\ Pending("deploy", i) \/ served[i] = "whole" \/ services[i].status = "crashed"
             => Pending("deploy", i)' \/ served'[i] = "whole" \/ services'[i].status = "crashed"
    PROVE  InStep'
<1>0. Previews \subseteq Services
    BY DEF Services
<1>1. Rows'
    BY RowsStay DEF InStep
<1>2. Newest' /\ Alone'
    BY DEF InStep, Newest, Alone, Awaited, Handles
<1>3. ASSUME NEW x \in branches'
      PROVE  Knows(x)'
  <2>1. x \in Branch /\ Knows(x)
      BY DEF InStep, Informed, TypeOK
  <2>2. x.pc \in Knowing => x.service \in Services
      BY <1>0, <2>1 DEF Knows, Staying, Of, PreviewsOf
  <2> QED BY <2>1, <2>2, KnowsStays
<1>4. Complete'
    BY <1>0, SameOf DEF InStep, Complete, Made, SameRows
<1>5. ASSUME NEW p \in PullRequests, Handled(p)'
      PROVE  Right(p)'
  <2>1. Right(p)
      BY <1>5 DEF InStep, Answered, Handled, Awaited
  <2>2. Of(p)' = Of(p)
      BY SameOf
  <2>3. \A i \in Previews : Staying(i, p) => Staying(i, p)' /\ Exists(i) /\ ~Pending("delete", i)
      BY <1>0, <2>2 DEF Staying, Of, PreviewsOf
  <2>4. \A i \in Of(p) : i \in Previews /\ Exists(i)
      BY DEF Of, PreviewsOf
  <2> QED BY <2>1, <2>2, <2>3, <2>4 DEF Right
<1> QED BY <1>1, <1>2, <1>3, <1>4, <1>5 DEF InStep, Informed, Answered

LEMMA TakeJobFollow ==
    ASSUME TypeOK, InStep, TakeJob
    PROVE  InStep'
<1>0. Previews \subseteq Services
    BY DEF Services
<1>1. UNCHANGED <<services, sent, pull, events, branches, refused, served>> /\ Take
    BY DEF TakeJob, idle, forge
<1>2. SameRows
    BY <1>1 DEF SameRows
<1>3. \A k \in JobKinds : \A i : Pending(k, i)' <=> Pending(k, i)
    BY <1>1, PendingTake
<1>4. active' \in Job /\ place' = active'.kind
    BY <1>1 DEF TakeJob, Take, TypeOK
<1>5. place' \in JobKinds
    BY <1>4 DEF Job
<1>6. Works'
    BY <1>0, <1>1, <1>3, <1>4, <1>5 DEF InStep, Works, JobKinds, Exists
<1> QED BY <1>0, <1>1, <1>2, <1>3, <1>6, WorkerFollow DEF JobKinds

LEMMA DeployFollow ==
    ASSUME TypeOK, InStep, Deploy
    PROVE  InStep'
<1>0. Previews \subseteq Services
    BY DEF Services
<1>1. /\ UNCHANGED <<services, sent, pull, events, branches, refused>> /\ place = "deploy"
      /\ active \in Job /\ active.kind = "deploy" /\ active.arg \in Services
    BY DEF Deploy, idle, forge, TypeOK, InStep, Works, Job
<1>2. SameRows /\ \A i : Exists(i)' <=> Exists(i)
    BY <1>1 DEF SameRows, Exists
<1>3. Pending("deploy", active.arg) /\ active.arg \in Previews
  <2>1. Pending("deploy", active.arg)
      BY <1>1 DEF Pending
  <2> QED BY <1>1, <2>1 DEF InStep, Works, JobKinds
<1>4. CASE ~Exists(active.arg) /\ Finish /\ place' = "idle" /\ served' = served
  <2>1. \A k \in JobKinds : \A i :
           Pending(k, i) <=> Pending(k, i)' \/ (active.kind = k /\ active.arg = i)
      BY <1>4, PendingFinish
  <2>2. /\ \A i : Pending("delete", i)' <=> Pending("delete", i)
        /\ \A i : Pending("deploy", i)' => Pending("deploy", i)
        /\ \A i : Exists(i) /\ Pending("deploy", i) => Pending("deploy", i)'
        /\ \A i : Pending("lifecycle", i)' => Pending("lifecycle", i)
      BY <1>1, <1>4, <2>1 DEF JobKinds
  <2>3. Works'
      BY <1>0, <1>1, <1>2, <1>4, <2>2 DEF InStep, Works, JobKinds
  <2> QED BY <1>0, <1>1, <1>2, <1>4, <2>2, <2>3, WorkerFollow
<1>5. CASE place' = "failed" /\ UNCHANGED <<served, jobs>>
  <2>1. (\A k, i : Pending(k, i)' <=> Pending(k, i)) /\ active' = active
      BY <1>5, PendingStays DEF jobs
  <2>2. Works'
      BY <1>0, <1>1, <1>2, <1>5, <2>1 DEF InStep, Works, JobKinds
  <2> QED BY <1>0, <1>1, <1>2, <1>5, <2>1, <2>2, WorkerFollow
<1>6. ASSUME Exists(active.arg), place' = "record", UNCHANGED jobs,
             served' = [served EXCEPT ![active.arg] =
               IF services[active.arg].domain /\ services[active.arg].env
               THEN "whole" ELSE "partial"]
      PROVE  InStep'
  <2>1. (\A k, i : Pending(k, i)' <=> Pending(k, i)) /\ active' = active
      BY <1>6, PendingStays DEF jobs
  <2>2. services[active.arg].domain /\ services[active.arg].env
      BY <1>3, <1>6 DEF InStep, Works
  <2>3. served'[active.arg] = "whole" /\ \A i \in Services : i # active.arg => served'[i] = served[i]
      BY <1>1, <1>6, <2>2 DEF TypeOK
  <2>4. Works'
      BY <1>0, <1>1, <1>2, <1>6, <2>1, <2>3 DEF InStep, Works, JobKinds
  <2>5. \A i \in Previews : served[i] = "whole" => served'[i] = "whole"
      BY <1>0, <2>3
  <2> QED BY <1>0, <1>1, <1>2, <2>1, <2>4, <2>5, WorkerFollow
<1> QED BY <1>4, <1>5, <1>6 DEF Deploy

LEMMA RecordFollow ==
    ASSUME TypeOK, InStep, Record
    PROVE  InStep'
<1> DEFINE row == IF place = "record" THEN MarkRunning(services[active.arg])
                                      ELSE MarkCrashed(services[active.arg])
<1>0. Previews \subseteq Services
    BY DEF Services
<1>1. /\ UNCHANGED <<sent, pull, events, branches, refused, served>> /\ place \in {"record", "failed"}
      /\ active \in Job /\ active.kind = "deploy" /\ active.arg \in Services
      /\ Update(active.arg, row) /\ Finish /\ place' = "idle"
    BY DEF Record, idle, forge, TypeOK, InStep, Works, Job
<1>2. services[active.arg] \in Row
    BY <1>1 DEF TypeOK
<1>3. /\ row \in Row /\ row.status \in {"running", "crashed"}
      /\ place = "failed" => row.status = "crashed"
      /\ row.of = services[active.arg].of /\ row.pr = services[active.arg].pr
      /\ row.domain = services[active.arg].domain /\ row.env = services[active.arg].env
    BY <1>1, <1>2 DEF MarkRunning, MarkCrashed, Row, RESOURCE_STATUSES
<1> HIDE DEF row
<1>4. /\ SameRows
      /\ \A j \in Services : j # active.arg => services'[j] = services[j]
      /\ Exists(active.arg) => services'[active.arg] = row
    BY <1>1, <1>3, UpdateStays
<1>5. \A i \in Services : Exists(i)' <=> Exists(i)
    BY <1>4, SameOf
<1>6. \A k \in JobKinds : \A i :
         Pending(k, i) <=> Pending(k, i)' \/ (active.kind = k /\ active.arg = i)
    BY <1>1, PendingFinish
<1>7. /\ \A i : Pending("delete", i)' <=> Pending("delete", i)
      /\ \A i : Pending("deploy", i)' => Pending("deploy", i)
      /\ \A i : i # active.arg /\ Pending("deploy", i) => Pending("deploy", i)'
      /\ \A i : Pending("lifecycle", i)' => Pending("lifecycle", i)
    BY <1>1, <1>6 DEF JobKinds
<1>8. /\ \A i \in Services : services'[i].status = "deleting" => services[i].status = "deleting"
      /\ \A i \in Services : services'[i].status = "absent" => services[i].status = "absent"
  <2>1. ~Exists(active.arg) => services' = services
      BY <1>1 DEF Update
  <2> QED BY <1>3, <1>4, <2>1
<1>9. Works'
    BY <1>0, <1>1, <1>4, <1>5, <1>7, <1>8 DEF InStep, Works, JobKinds, SameRows
<1>10. ASSUME NEW i \in Previews, Exists(i),
              Pending("deploy", i) \/ served[i] = "whole" \/ services[i].status = "crashed"
       PROVE  Pending("deploy", i)' \/ served'[i] = "whole" \/ services'[i].status = "crashed"
  <2>1. CASE i # active.arg
      BY <1>0, <1>1, <1>4, <1>7, <1>10, <2>1
  <2>2. CASE i = active.arg /\ place = "record"
      BY <1>1, <1>10, <2>2 DEF InStep, Works
  <2>3. CASE i = active.arg /\ place = "failed"
      BY <1>3, <1>4, <1>10, <2>3
  <2> QED BY <1>1, <2>1, <2>2, <2>3
<1> QED BY <1>0, <1>1, <1>4, <1>7, <1>8, <1>9, <1>10, WorkerFollow

LEMMA RemoveServiceFollow ==
    ASSUME TypeOK, InStep, RemoveService
    PROVE  InStep'
<1>0. Previews \subseteq Services
    BY DEF Services
<1>1. /\ UNCHANGED <<sent, pull, events, branches, refused>> /\ place = "delete"
      /\ active \in Job /\ active.kind = "delete" /\ active.arg \in Services
    BY DEF RemoveService, idle, forge, TypeOK, InStep, Works, Job
<1>3. UNCHANGED services
    BY DEF RemoveService
<1>4. SameRows /\ \A i : Exists(i)' <=> Exists(i)
    BY <1>3 DEF SameRows, Exists
<1>5. Pending("delete", active.arg) /\ active.arg \in Previews
  <2>1. Pending("delete", active.arg)
      BY <1>1 DEF Pending
  <2> QED BY <1>1, <2>1 DEF InStep, Works, JobKinds
<1>6. CASE ~Exists(active.arg) /\ Finish /\ place' = "idle" /\ served' = served
  <2>1. \A k \in JobKinds : \A i :
           Pending(k, i) <=> Pending(k, i)' \/ (active.kind = k /\ active.arg = i)
      BY <1>6, PendingFinish
  <2>2. /\ \A i : Pending("deploy", i)' <=> Pending("deploy", i)
        /\ \A i : Pending("delete", i)' => Pending("delete", i)
        /\ \A i : Exists(i) /\ Pending("delete", i) => Pending("delete", i)'
        /\ \A i : Pending("lifecycle", i)' => Pending("lifecycle", i)
      BY <1>1, <1>6, <2>1 DEF JobKinds
  <2>3. Works'
      BY <1>0, <1>1, <1>3, <1>4, <1>6, <2>2 DEF InStep, Works, JobKinds
  <2> QED BY <1>0, <1>1, <1>3, <1>4, <1>6, <2>2, <2>3, WorkerFollow
<1>7. ASSUME served' = [served EXCEPT ![active.arg] = "no"], place' = "erase", UNCHANGED jobs
      PROVE  InStep'
  <2>1. (\A k, i : Pending(k, i)' <=> Pending(k, i)) /\ active' = active
      BY <1>7, PendingStays DEF jobs
  <2>2. served'[active.arg] = "no" /\ \A i \in Services : i # active.arg => served'[i] = served[i]
      BY <1>1, <1>7 DEF TypeOK
  <2>3. Works'
      BY <1>0, <1>1, <1>3, <1>4, <1>7, <2>1, <2>2 DEF InStep, Works, JobKinds
  <2>4. \A i \in Previews : ~Pending("delete", i) => served'[i] = served[i]
      BY <1>0, <1>5, <2>2
  <2> QED BY <1>0, <1>1, <1>3, <1>4, <2>1, <2>3, <2>4, WorkerFollow
<1> QED BY <1>6, <1>7 DEF RemoveService

\* Until the operator asks for a start or a stop the worker is at none.
LEMMA NoLifecycle ==
    ASSUME TypeOK, InStep
    PROVE  ~ApplyLifecycle
<1> SUFFICES ASSUME place = "lifecycle" PROVE FALSE
    BY DEF ApplyLifecycle
<1>1. active \in Job /\ active.kind = "lifecycle"
    BY DEF TypeOK, InStep, Works
<1>2. active.arg \in Services /\ Pending("lifecycle", active.arg)
    BY <1>1 DEF Job, Pending
<1> QED BY <1>2 DEF InStep, Works

\* Nothing is a preview of a preview.
LEMMA NoneUnder ==
    ASSUME Rows, NEW i \in Previews
    PROVE  Under(i) = {}
<1> DEFINE Meets(f) == f = [j \in Previews |->
             \/ services[j].of = i
             \/ services[j].of \in Previews /\ services[j].of < j /\ f[services[j].of]]
           under == CHOOSE f : Meets(f)
<1>1. \A j \in Previews : services[j].of # i /\ services[j].of \notin Previews
    BY DEF Rows, Production, NoService, Previews
<1>2. Meets([j \in Previews |-> FALSE])
    BY <1>1
<1>3. Meets(under)
    BY <1>2
<1>4. \A j \in Previews : ~under[j]
    BY <1>1, <1>3
<1>5. Under(i) = {j \in Previews : under[j]}
    BY DEF Under
<1> QED BY <1>4, <1>5

LEMMA EraseRowFollow ==
    ASSUME TypeOK, InStep, EraseRow
    PROVE  InStep'
<1>a. PICK a : a = active.arg
    OBVIOUS
<1>0. Previews \subseteq Services /\ Production \notin Previews /\ Production \in Services
    BY DEF Services, Previews, Production
<1>1. /\ UNCHANGED <<sent, pull, events, branches, refused, served>> /\ place = "erase" /\ place' = "idle"
      /\ active \in Job /\ active.kind = "delete" /\ a \in Services /\ Finish
    BY <1>a DEF EraseRow, idle, forge, TypeOK, InStep, Works, Job
<1>2. Pending("delete", a) /\ a \in Previews
  <2>1. Pending("delete", a)
      BY <1>a, <1>1 DEF Pending
  <2> QED BY <1>1, <2>1 DEF InStep, Works, JobKinds
<1>3. Under(a) = {}
    BY <1>2, NoneUnder DEF InStep
<1>4. /\ services'[a].status = "gone" /\ services'[a].of = NoService
      /\ \A j \in Services : j # a => services'[j] = services[j]
    BY <1>a, <1>1, <1>3 DEF EraseRow, Erased, NoRow
<1>5. ~Exists(a)' /\ \A j \in Services : j # a => (Exists(j)' <=> Exists(j))
    BY <1>4 DEF Exists
<1>6. \A p : Of(p)' = Of(p) \ {a}
    BY <1>0, <1>2, <1>4, <1>5 DEF Of, PreviewsOf
<1>7. \A k \in JobKinds : \A i :
         Pending(k, i) <=> Pending(k, i)' \/ (active.kind = k /\ a = i)
    BY <1>a, <1>1, PendingFinish
<1>8. /\ \A i : Pending("deploy", i)' <=> Pending("deploy", i)
      /\ \A i : Pending("delete", i)' => Pending("delete", i)
      /\ \A i : i # a /\ Pending("delete", i) => Pending("delete", i)'
      /\ \A i : Pending("lifecycle", i)' => Pending("lifecycle", i)
    BY <1>1, <1>7 DEF JobKinds
<1>9. Rows'
    BY <1>0, <1>2, <1>4, <1>5 DEF InStep, Rows
<1>10. Works'
  <2>1. \A k \in JobKinds, i \in Services : Pending(k, i)' => i \in Previews /\ services'[i].status # "absent"
      BY <1>4, <1>8 DEF InStep, Works, JobKinds
  <2>2. \A i \in Previews : Pending("deploy", i)' /\ Exists(i)' => services'[i].domain /\ services'[i].env
      BY <1>0, <1>4, <1>5, <1>8 DEF InStep, Works
  <2>3. \A i \in Previews : served'[i] # "no" => Exists(i)'
      BY <1>0, <1>a, <1>1, <1>5 DEF InStep, Works
  <2>4. \A i \in Services : ~Pending("lifecycle", i)'
      BY <1>8 DEF InStep, Works
  <2> QED BY <1>1, <2>1, <2>2, <2>3, <2>4 DEF Works
<1>11. Newest' /\ Alone'
    BY <1>1 DEF InStep, Newest, Alone, Awaited, Handles
<1>12. ASSUME NEW x \in branches'
       PROVE  Knows(x)'
  <2>1. Knows(x)
      BY <1>1 DEF InStep, Informed
  <2>2. CASE x.pc \in Looked
      BY <1>6, <2>1, <2>2 DEF Knows, Looked, Knowing, Removing
  <2>3. CASE x.pc \in Knowing
    <3>1. x.service # a /\ x.service \in Services
        BY <1>0, <1>2, <2>1, <2>3 DEF Knows, Staying, Of, PreviewsOf
    <3>2. Staying(x.service, x.pr)' /\ services'[x.service] = services[x.service]
        BY <1>4, <1>6, <1>8, <2>1, <2>3, <3>1 DEF Knows, Staying
    <3> QED BY <2>1, <2>3, <3>2 DEF Knows, Looked, Knowing, Removing
  <2>4. CASE x.pc \in Removing
    <3>1. x.service \in Services
        BY <1>0, <2>1, <2>4 DEF Knows
    <3> QED BY <1>4, <1>5, <1>6, <2>1, <2>4, <3>1 DEF Knows, Looked, Knowing, Removing
  <2>5. CASE x.pc \notin Looked \cup Knowing \cup Removing
      BY <2>5 DEF Knows
  <2> QED BY <2>2, <2>3, <2>4, <2>5
<1>13. Complete'
    BY <1>0, <1>1, <1>4, <1>5, <1>6 DEF InStep, Complete, Made
<1>14. ASSUME NEW p \in PullRequests, Handled(p)'
       PROVE  Right(p)'
  <2>1. Right(p)
      BY <1>1, <1>14 DEF InStep, Answered, Handled, Awaited
  <2>2. \A i \in Previews : Staying(i, p) => Staying(i, p)' /\ services'[i] = services[i]
      BY <1>0, <1>2, <1>4, <1>6, <1>8 DEF Staying
  <2> QED BY <1>1, <1>6, <1>8, <2>1, <2>2 DEF Right
<1> QED BY <1>9, <1>10, <1>11, <1>12, <1>13, <1>14 DEF InStep, Informed, Answered

-----------------------------------------------------------------------------
(* The steps of the forge *)

LEMMA AnnounceFollow ==
    ASSUME TypeOK, InStep, NEW p \in PullRequests, Open(p) \/ Push(p) \/ Close(p)
    PROVE  InStep'
<1>1. PICK closed \in BOOLEAN :
        /\ sent' = sent \cup {[n |-> events + 1, pr |-> p, closed |-> closed]}
        /\ events' = events + 1
        /\ UNCHANGED <<services, branches, jobs, place, served, refused>>
        /\ closed <=> pull'[p] # "open"
        /\ \A q \in PullRequests : q # p => pull'[q] = pull[q]
    BY DEF Open, Push, Close, Announce, TypeOK
<1> DEFINE d == [n |-> events + 1, pr |-> p, closed |-> closed]
<1>2. /\ events \in Int /\ sent \subseteq Delivery /\ \A e \in sent : e.n \in Int /\ e.pr \in PullRequests
      /\ d.n = events + 1 /\ d.pr = p /\ d.closed = closed
    BY PreviewsAssumption DEF TypeOK, Delivery
<1> HIDE DEF d
<1>3. sent' = sent \cup {d}
    BY <1>1 DEF d
<1>4. Newest'
  <2>1. \A e \in sent : e.n <= events
      BY DEF InStep, Newest
  <2>2. \A e \in sent' : e.n <= events'
      BY <1>1, <1>2, <1>3, <2>1
  <2>3. \A e, f \in sent' : e.n = f.n => e = f
      BY <1>2, <1>3, <2>1 DEF InStep, Newest
  <2>4. ASSUME NEW e \in sent', \A f \in sent' : f.pr = e.pr => f.n <= e.n
        PROVE  e.closed <=> pull'[e.pr] # "open"
    <3>1. CASE e = d
        BY <1>1, <1>2, <3>1
    <3>2. CASE e # d
      <4>1. e \in sent /\ e.n <= events /\ e.n \in Int
          BY <1>2, <1>3, <2>1, <3>2
      <4>2. e.pr # p
          BY <1>2, <1>3, <2>4, <4>1
      <4>3. \A f \in sent : f.pr = e.pr => f.n <= e.n
          BY <1>3, <2>4
      <4>4. e.closed <=> pull[e.pr] # "open"
          BY <4>1, <4>3 DEF InStep, Newest
      <4> QED BY <1>1, <1>2, <4>1, <4>2, <4>4
    <3> QED BY <3>1, <3>2
  <2> QED BY <2>2, <2>3, <2>4 DEF Newest
<1>5. \A q : Awaited(q)' <=> Awaited(q) \/ q = p
    BY <1>2, <1>3 DEF Awaited
<1>6. Alone'
  <2>1. \A x \in branches' : x.pr \in PullRequests
      BY <1>1 DEF InStep, Alone
  <2>2. \A x, y \in branches' : x.target = Production /\ Handles(y, x.pr) => x = y
      BY <1>1 DEF InStep, Alone, Handles
  <2>3. ASSUME NEW x \in branches', x.target = Production, ~Awaited(x.pr)'
        PROVE  x.pc \in Opening <=> pull'[x.pr] = "open"
    <3>1. x.pr # p /\ ~Awaited(x.pr) /\ pull'[x.pr] = pull[x.pr]
        BY <1>1, <1>5, <2>1, <2>3
    <3> QED BY <1>1, <2>3, <3>1 DEF InStep, Alone
  <2> QED BY <2>1, <2>2, <2>3 DEF Alone
<1>7. /\ \A k, i : Pending(k, i)' <=> Pending(k, i)
      /\ \A i : Exists(i)' <=> Exists(i)
      /\ \A q : Of(q)' = Of(q)
      /\ \A i, q : Staying(i, q)' <=> Staying(i, q)
      /\ active' = active
    BY <1>1, PendingStays DEF jobs, Exists, Of, PreviewsOf, Staying
<1>8. Rows' /\ Works'
    BY <1>1, <1>7 DEF InStep, Rows, Works
<1>9. Informed' /\ Complete'
    BY <1>1, <1>7 DEF InStep, Informed, Knows, Complete, Made
<1>10. ASSUME NEW q \in PullRequests, Handled(q)'
       PROVE  Right(q)'
  <2>1. q # p /\ Handled(q) /\ pull'[q] = pull[q]
      BY <1>1, <1>5, <1>10 DEF Handled, Handles
  <2> QED BY <1>1, <1>7, <2>1 DEF InStep, Answered, Right
<1> QED BY <1>4, <1>6, <1>8, <1>9, <1>10 DEF InStep, Answered

\* The deliveries of a pull request come one after the other, and in order.
LEMMA ReceiveFollow ==
    ASSUME TypeOK, InStep, Sure', NEW d \in sent, Receive(d)
    PROVE  InStep'
<1>1. ~Note("order")
    BY DEF Note, Sure
<1>2. /\ \A e \in sent : e.pr = d.pr => ~(e.n < d.n)
      /\ \A b \in branches : b.pr # d.pr
      /\ UNCHANGED <<services, pull, events, jobs, place, served, refused>>
      /\ sent' = sent \ {d}
    BY <1>1 DEF Receive
<1>3. /\ d.n \in Int /\ d.pr \in PullRequests /\ \A e \in sent : e.n \in Int
    BY DEF TypeOK, Delivery
<1> DEFINE pc == IF d.closed THEN "closed" ELSE "parent"
           new(i) == [n |-> d.n, pr |-> d.pr, target |-> i, service |-> NoService, pc |-> pc]
<1>4. PICK targets \in SUBSET Services :
        Production \in targets /\ branches' = branches \cup {new(i) : i \in targets}
  <2>1. Exists(Production) /\ Production \in Services
      BY DEF InStep, Rows, Services
  <2> DEFINE targets == {i \in Services : Exists(i) /\ (instance.route = "provider" \/ i = Production)}
  <2>2. Production \in targets
      BY <2>1
  <2>3. branches' = branches \cup {new(i) : i \in targets}
      BY DEF Receive
  <2> QED BY <2>2, <2>3
<1>5. \A x \in branches' \ branches : x = new(x.target) /\ x.pr = d.pr /\ x.pc = pc
    BY <1>4
<1>6. new(Production) \in branches' /\ Handles(new(Production), d.pr)
    BY <1>4 DEF Handles
<1>7. pc \in {"closed", "parent"} /\ (pc \in Opening <=> ~d.closed)
    BY DEF Opening, Looked, Knowing
<1> HIDE DEF new, pc
<1>8. branches \subseteq branches'
    BY <1>4
<1>9. \A q : q # d.pr => (Awaited(q)' <=> Awaited(q))
    BY <1>2 DEF Awaited
<1>10. Newest'
  <2>1. ASSUME NEW e \in sent', \A f \in sent' : f.pr = e.pr => f.n <= e.n
        PROVE  e.closed <=> pull'[e.pr] # "open"
    <3>1. d.pr = e.pr => d.n <= e.n
        BY <1>2, <1>3
    <3>2. \A f \in sent : f.pr = e.pr => f.n <= e.n
        BY <1>2, <2>1, <3>1
    <3> QED BY <1>2, <3>2 DEF InStep, Newest
  <2> QED BY <1>2, <2>1 DEF InStep, Newest
<1>11. Alone'
  <2>1. \A x \in branches' : x.pr \in PullRequests
      BY <1>3, <1>5 DEF InStep, Alone
  <2>2. ASSUME NEW x \in branches', NEW y \in branches', x.target = Production, Handles(y, x.pr)
        PROVE  x = y
    <3>1. CASE x \in branches /\ y \in branches
        BY <2>2, <3>1 DEF InStep, Alone
    <3>2. CASE x \notin branches \/ y \notin branches
      <4>1. x.pr = d.pr /\ y.pr = d.pr /\ y.target = Production
          BY <1>5, <2>2, <3>2 DEF Handles
      <4>2. x \notin branches /\ y \notin branches
          BY <1>2, <4>1
      <4> QED BY <1>5, <2>2, <4>1, <4>2
    <3> QED BY <3>1, <3>2
  <2>3. ASSUME NEW x \in branches', x.target = Production, ~Awaited(x.pr)'
        PROVE  x.pc \in Opening <=> pull'[x.pr] = "open"
    <3>1. CASE x \in branches
        BY <1>2, <1>9, <2>3, <3>1 DEF InStep, Alone
    <3>2. CASE x \notin branches
      <4>1. x.pr = d.pr /\ x.pc = pc
          BY <1>5, <3>2
      <4>2. \A e \in sent : e.pr = d.pr => e = d
          BY <1>2, <2>3, <4>1 DEF Awaited
      <4>3. d.closed <=> pull[d.pr] # "open"
          BY <1>3, <4>2 DEF InStep, Newest
      <4> QED BY <1>2, <1>7, <4>1, <4>3
    <3> QED BY <3>1, <3>2
  <2> QED BY <2>1, <2>2, <2>3 DEF Alone
<1>12. /\ \A k, i : Pending(k, i)' <=> Pending(k, i)
       /\ \A i : Exists(i)' <=> Exists(i)
       /\ \A q : Of(q)' = Of(q)
       /\ \A i, q : Staying(i, q)' <=> Staying(i, q)
       /\ active' = active
    BY <1>2, PendingStays DEF jobs, Exists, Of, PreviewsOf, Staying
<1>13. Rows' /\ Works'
    BY <1>2, <1>12 DEF InStep, Rows, Works
<1>14. ASSUME NEW x \in branches'
       PROVE  Knows(x)'
  <2>1. CASE x \in branches
      BY <1>2, <1>12, <2>1 DEF InStep, Informed, Knows
  <2>2. CASE x \notin branches
      BY <1>5, <1>7, <2>2 DEF Knows, Looked, Knowing, Removing
  <2> QED BY <2>1, <2>2
<1>15. Complete'
    BY <1>2, <1>8, <1>12 DEF InStep, Complete, Made
<1>16. ASSUME NEW q \in PullRequests, Handled(q)'
       PROVE  Right(q)'
  <2>1. q # d.pr
      BY <1>6, <1>16 DEF Handled
  <2>2. Handled(q)
      BY <1>8, <1>9, <1>16, <2>1 DEF Handled, Handles
  <2> QED BY <1>2, <1>12, <2>2 DEF InStep, Answered, Right
<1> QED BY <1>10, <1>11, <1>13, <1>14, <1>15, <1>16 DEF InStep, Informed, Answered

-----------------------------------------------------------------------------
\* Once in doubt, always in doubt.
LEMMA SureBefore == TypeOK /\ [Next]_vars /\ Sure' => Sure
<1> SUFFICES ASSUME TypeOK, [Next]_vars PROVE doubt \subseteq doubt'
    BY DEF Sure
<1>1. CASE UNCHANGED vars
    BY <1>1 DEF vars
<1>2. ASSUME NEW b \in branches, Handle(b) PROVE doubt \subseteq doubt'
    BY <1>2 DEF Handle, LookAtParent, LookForExisting, Count, LookForEnvironment, InsertEnvironment,
                Insert, InsertDomain, CopyEnvVars, QueueDeploy, MarkPreview, EnqueueDeploy, LookForClosed,
                MarkDeleted, EnqueueDelete, Throw, Rejected, Note
<1>3. CASE Work
    BY <1>3 DEF Work, TakeJob, Deploy, Record, ApplyLifecycle, RemoveService, EraseRow, TeardownThrows, Note
<1>4. ASSUME NEW p \in PullRequests, Open(p) \/ Push(p) \/ Close(p) PROVE doubt \subseteq doubt'
    BY <1>4 DEF Open, Push, Close, Announce
<1>5. ASSUME NEW d \in sent, Receive(d) PROVE doubt \subseteq doubt'
    BY <1>5 DEF Receive, Note
<1>6. ASSUME NEW i \in Services, RequestDelete(i) \/ RequestDeploy(i) \/ RequestLifecycle(i)
      PROVE  doubt \subseteq doubt'
    BY <1>6 DEF RequestDelete, RequestDeploy, RequestLifecycle, Note
<1> QED BY <1>1, <1>2, <1>3, <1>4, <1>5, <1>6 DEF Next, Services

LEMMA NextFollow == TypeOK /\ Follow /\ [Next]_vars => Follow'
<1> SUFFICES ASSUME TypeOK, InStep, [Next]_vars, Sure'
             PROVE  InStep'
    BY SureBefore DEF Follow
<1>1. CASE UNCHANGED vars
  <2>1. /\ UNCHANGED <<services, sent, pull, events, branches, refused, place, served, jobs, active>>
        /\ \A k, i : Pending(k, i)' <=> Pending(k, i)
        /\ \A i : Exists(i)' <=> Exists(i)
        /\ \A q : Of(q)' = Of(q)
        /\ \A i, q : Staying(i, q)' <=> Staying(i, q)
      BY <1>1, PendingStays DEF vars, forge, jobs, Exists, Of, PreviewsOf, Staying
  <2>2. Rows' /\ Works' /\ Newest' /\ Alone'
      BY <2>1 DEF InStep, Rows, Works, Newest, Alone, Awaited, Handles
  <2>3. Informed' /\ Complete' /\ Answered'
      BY <2>1 DEF InStep, Informed, Knows, Complete, Made, Answered, Handled, Awaited, Handles, Right
  <2> QED BY <2>2, <2>3 DEF InStep
<1>2. ASSUME NEW p \in PullRequests, Open(p) \/ Push(p) \/ Close(p) PROVE InStep'
    BY <1>2, AnnounceFollow
<1>3. ASSUME NEW d \in sent, Receive(d) PROVE InStep'
    BY <1>3, ReceiveFollow
<1>4. ASSUME NEW b \in branches, Handle(b) PROVE InStep'
    BY <1>4, HandleFollow
<1>5. ASSUME NEW i \in Services, RequestDelete(i) \/ RequestDeploy(i) \/ RequestLifecycle(i)
      PROVE  FALSE
    BY <1>5 DEF RequestDelete, RequestDeploy, RequestLifecycle, Note, Sure
<1>6. CASE Work
  <2>1. ~TeardownThrows
      BY DEF TeardownThrows, Note, Sure
  <2> QED BY <1>6, <2>1, NoLifecycle, TakeJobFollow, DeployFollow, RecordFollow, RemoveServiceFollow,
             EraseRowFollow DEF Work
<1> QED BY <1>1, <1>2, <1>3, <1>4, <1>5, <1>6 DEF Next, Services

LEMMA FollowSuffices == TypeOK /\ Follow => PreviewsFollowRequests
<1> SUFFICES ASSUME TypeOK, InStep, Still
             PROVE  /\ \A i \in Previews :
                         Exists(i) => pull[services[i].pr] = "open" /\ services[i].pr \notin refused
                    /\ \A p \in PullRequests : pull[p] = "open" =>
                         \/ p \in refused
                         \/ \E i \in PreviewsOf(Production, p) :
                              served[i] = "whole" \/ services[i].status = "crashed"
                    /\ \A i \in Previews : served[i] # "no" => Exists(i)
    BY DEF PreviewsFollowRequests, Follow, Sure
<1>1. \A p \in PullRequests : Right(p)
    BY DEF InStep, Answered, Handled, Awaited, Still
<1>2. \A kind \in JobKinds : \A i : ~Pending(kind, i)
    BY DEF Still, Quiet, Pending, NoJob, JobKinds
<1>3. ASSUME NEW i \in Previews, Exists(i)
      PROVE  pull[services[i].pr] = "open" /\ services[i].pr \notin refused
  <2>1. services[i].pr \in PullRequests /\ i \in Of(services[i].pr)
      BY <1>3 DEF InStep, Rows, Of, PreviewsOf
  <2> QED BY <1>1, <1>2, <2>1 DEF Right, JobKinds, InStep, Complete
<1>4. ASSUME NEW p \in PullRequests, pull[p] = "open", p \notin refused
      PROVE  \E i \in PreviewsOf(Production, p) : served[i] = "whole" \/ services[i].status = "crashed"
    BY <1>1, <1>2, <1>4 DEF Right, JobKinds, Staying, Of
<1> QED BY <1>3, <1>4 DEF InStep, Works

\* Once every delivery is handled and every job done, the previews are those of
\* the open pull requests the limit left room for, complete and shipped or
\* crashed, and Swarm runs no other: for any number of pull requests, hooks and
\* deliveries, however their steps and the worker's interleave.
THEOREM PreviewsFollow == Spec => []PreviewsFollowRequests
<1>1. Init => Follow
    BY InitFollow
<1>2. Spec => []Follow
    BY <1>1, TypeCorrect, NextFollow, PTL DEF Spec
<1> QED BY <1>2, TypeCorrect, FollowSuffices, PTL
===============================================================================
