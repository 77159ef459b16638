------------------------------- MODULE MCBuilders -------------------------------
(* Nothing in the builders tells the slots that a mint fills apart.        *)
EXTENDS Builders, TLC

SlotSymmetry == Permutations(MintSlots)
================================================================================
