---------------------------- MODULE MCBackupRuns ----------------------------
(***************************************************************************)
(* The instances of BackupRuns that TLC checks.                             *)
(***************************************************************************)
EXTENDS BackupRuns

\* Dumps of a database, with rows deleted by hand and requests lost; runs of a
\* volume whose configuration is deleted, once beside restores and once with a
\* crash; restores of a volume with a crash, whose service others stop, start
\* and redeploy.
RetentionInstances ==
    { [subject |-> "database", requests |-> {"manual", "delete", "lose"}, crashes |-> 0],
      [subject |-> "volume", requests |-> {"restore", "drop"}, crashes |-> 0],
      [subject |-> "volume", requests |-> {"drop"}, crashes |-> 1],
      [subject |-> "volume", requests |-> {"restore", "serve"}, crashes |-> 1] }

\* Restores of a database, with a crash.
UndoInstances == {[subject |-> "database", requests |-> {"restore"}, crashes |-> 1]}

\* Restores of a volume.
SourceInstances == {[subject |-> "volume", requests |-> {"restore"}, crashes |-> 0]}
=============================================================================
