----------------------------- MODULE MCPreviews -----------------------------
(***************************************************************************)
(* The instances of Previews that TLC checks.                               *)
(***************************************************************************)
EXTENDS Previews, TLC

CONSTANTS p1, p2

TwoRequests  == {p1, p2}
AnyTwo       == Permutations(TwoRequests)

\* The service's own hook, with a pull request that is closed and reopened
\* while another comes and goes; the provider's hook, with deletions by the
\* operator and steps that throw; previews the operator deploys, starts and stops.
IntakeInstances ==
    { [route |-> "service",  requests |-> {}, events |-> 4],
      [route |-> "provider", requests |-> {"delete", "throw"}, events |-> 3],
      [route |-> "service",  requests |-> {"operate"}, events |-> 3] }

NestedInstances == { [route |-> "provider", requests |-> {}, events |-> 2] }
=============================================================================
