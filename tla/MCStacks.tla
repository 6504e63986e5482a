------------------------------ MODULE MCStacks ------------------------------
(***************************************************************************)
(* The instance of Stacks that TLC checks: no step tells one service of the  *)
(* file from another.                                                        *)
(***************************************************************************)
EXTENDS Stacks, TLC

CONSTANTS web, db

TwoServices == {web, db}
OneFile     == {TwoServices}
AnyService  == Permutations(TwoServices)
=============================================================================
