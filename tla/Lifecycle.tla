------------------------------ MODULE Lifecycle ------------------------------
(***************************************************************************)
(* The status of a resource (a service, a stack, a database) and the        *)
(* patches the code writes to it: packages/shared/src/lifecycle.ts.         *)
(*                                                                          *)
(* A row carries `status' and `error' (lastError # null).  The callers in   *)
(* the worker and the dashboard pass `from = null' almost everywhere, and   *)
(* a null `from' skips the transition table.                                *)
(***************************************************************************)

RESOURCE_STATUSES ==
    {"created", "deploying", "running", "stopped", "crashed", "deleting"}

TRANSITIONS ==
    [ crashed   |-> {"deploying", "running", "deleting"},
      created   |-> {"deploying", "deleting"},
      deleting  |-> {"deleting"},
      deploying |-> {"running", "crashed", "deleting"},
      running   |-> {"deploying", "stopped", "crashed", "deleting"},
      stopped   |-> {"deploying", "running", "deleting"} ]

\* The status patches.  Every one of them is unconditional: what the table
\* says of the row's present status is not consulted.
MarkDeploying(row) == [row EXCEPT !.status = "deploying", !.error = FALSE]
MarkRunning(row)   == [row EXCEPT !.status = "running",   !.error = FALSE]
MarkStopped(row)   == [row EXCEPT !.status = "stopped",   !.error = FALSE]
MarkCrashed(row)   == [row EXCEPT !.status = "crashed",   !.error = TRUE]
MarkDeleting(row)  == [row EXCEPT !.status = "deleting",  !.error = FALSE]

\* markFailed("deleting", reason): a teardown that failed keeps `deleting'.
MarkStuck(row)     == [row EXCEPT !.status = "deleting",  !.error = TRUE]

IsStuckDeleting(row) == row.status = "deleting" /\ row.error
=============================================================================
