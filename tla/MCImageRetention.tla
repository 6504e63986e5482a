-------------------------- MODULE MCImageRetention --------------------------
(***************************************************************************)
(* The instances of ImageRetention that TLC checks.                         *)
(***************************************************************************)
EXTENDS ImageRetention, TLC

CONSTANTS h1, h2

TwoHosts == {h1, h2}
AnyHost  == Permutations(TwoHosts)

\* The registry and its sweep, with rollbacks, with a crash of the worker, and
\* with a fourth deployment, which may be swept while a revert to an earlier one
\* is under way; the hosts and their prune, with a host that does not answer.
RetentionInstances ==
    { [hosts |-> {h1}, homes |-> {"embedded"}, rows |-> 3, crashes |-> 0,
       requests |-> {"deploy", "rollback", "prune-registry"}],
      [hosts |-> {h1}, homes |-> {"embedded"}, rows |-> 3, crashes |-> 1,
       requests |-> {"deploy", "prune-registry"}],
      [hosts |-> {h1}, homes |-> {"embedded"}, rows |-> 4, crashes |-> 0,
       requests |-> {"deploy", "prune-registry"}],
      [hosts |-> {h1, h2}, homes |-> {"embedded", "host"}, rows |-> 3, crashes |-> 0,
       requests |-> {"deploy", "stop", "prune-docker"}] }
=============================================================================
