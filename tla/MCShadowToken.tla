----------------------------- MODULE MCShadowToken -----------------------------
(* ShadowToken on small instances.                                         *)
EXTENDS ShadowToken, TLC

(* Nothing in the code tells externally owned users, shadows or on-curve   *)
(* keys apart.                                                             *)
Symmetry == Permutations(Users \ Contracts) \cup Permutations(Shadows)
            \cup Permutations(CurveKeys)
--------------------------------------------------------------------------------
(* V2_FLOW.md's claim: the thumbnail of a solved shadow no longer changes, *)
(* whoever minted it.                                                      *)
SolvedT10Forever ==
  [][\A s \in Shadows : shadow[s].solved => shadowT10'[s] = shadowT10[s]]_vars

(* PausableMixin.sol's and SECURITY.md's claim: while ShadowToken is paused*)
(* no call changes its state.                                              *)
PausedTokenFrozen ==
  [][~NotPaused => UNCHANGED tokenVars]_vars

(* The comment on Shadow.zIndexCommit: zero is the identity permutation, so*)
(* a shadow whose commit was never set can be solved like any other.       *)
UnsetCommitIsIdentity ==
  \A u \in Users, s \in Shadows :
    /\ OwnerCall(u, s)
    /\ shadow[s].zIndexCommit = Zero
    /\ \A i \in Occupied(s) : MaySolveSlot(s, i)
    => ENABLED Solve(u, s)
================================================================================
