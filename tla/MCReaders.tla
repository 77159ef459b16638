-------------------------------- MODULE MCReaders --------------------------------
(***************************************************************************)
(* The readers of a chain on a shadow of three slots, two of them filled   *)
(* by its mint, with one carrier of another shadow.                        *)
(***************************************************************************)
EXTENDS Readers

(* "For each occupied slot, pick the LATEST event"                         *)
(* (render_onchain_shadow.py:8): the slots it takes from the events are    *)
(* the occupied ones.                                                      *)
ListedSlotsAreOccupied ==
  pc = "sidecar" /\ chain = atStart /\ ~chain.solved => DOMAIN got.c2 = Occupied

(* "the owner can render their own shadow"                                 *)
(* (render_onchain_shadow.py:25): with the c1 of every slot and nothing    *)
(* changed meanwhile, the sprites are the plaintexts of the slots.         *)
OwnerSeesOwnShadow ==
  pc = "rendered" /\ chain = atStart /\ got.c2 # <<>> /\ ~chain.solved
    /\ got.c1 = [s \in Occupied |-> chain.lsh[s]] =>
       \A s \in Occupied : /\ s \in DOMAIN got.shown
                           /\ got.shown[s][1] = drawing[chain.held[s]]

(* "Anything that fails prints the full diagnostic"                        *)
(* (verify_onchain_mint.py:45): a failed check never ends the verification *)
(* before its summary.                                                     *)
FailurePrintsSummary == pc # "crashed"
=============================================================================
