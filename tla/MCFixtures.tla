------------------------------- MODULE MCFixtures -------------------------------
(***************************************************************************)
(* Every builder, with a circuit of v2 and one of v1 that get edited, and  *)
(* one verifier that is not in the tree.                                   *)
(***************************************************************************)
EXTENDS Fixtures

SomeCircuits == {"mutate_slot", "solve_shadow"}
MissingVerifier == {"ZIndexCommit"}
================================================================================
