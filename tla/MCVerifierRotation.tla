---------------------------- MODULE MCVerifierRotation --------------------------
(***************************************************************************)
(* Instances of VerifierRotation: ids on both sides of the width of the    *)
(* bitmap, and of the verifiers the contract knows.                        *)
(***************************************************************************)
EXTENDS VerifierRotation

SixAndEight == {6, 8}
OneSlot == {6}
================================================================================
