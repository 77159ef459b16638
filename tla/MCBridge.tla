-------------------------------- MODULE MCBridge --------------------------------
(* Bridge on small instances.                                              *)
EXTENDS Bridge

(* The header of ShadowBridgeL2.sol: a solved shadow carries its lineage   *)
(* per slot, so a mirror names what was revealed.  In an instance with one *)
(* shadow, a carrier that has been revealed was in it when it was solved.  *)
MirrorsCarryLineage ==
  \A s \in Shadows :
    mirrorOwner[s] # Zero /\ (\E f \in Features : feature[f].paletteRevealed) =>
      \E i \in Slots : mirror[s].lineage[i] # Zero
================================================================================
