------------------------------ MODULE FeatureNFT ------------------------------
(***************************************************************************)
(* FeatureNFT.sol: the carriers.  Eight are minted with a shadow and bound *)
(* into its slots; a carrier is either inserted (its host shadow holds its *)
(* live state) or held (its own checkpoint does).                          *)
(*                                                                         *)
(* The functions only ShadowToken may call are written as operators on one *)
(* carrier's record, because ShadowToken calls them in loops; their reverts*)
(* are the predicates MayExtract, MayInsert, MayRotate and MayReveal.      *)
(***************************************************************************)
EXTENDS KeyRegistry

CONSTANTS
  Shadows,    \* shadow ids: image commitments below the field modulus
  NSlots,     \* slots of a manifest, 16 in the code
  NMintAtoms, \* carriers minted with a shadow, 8 in the code
  HeldBound   \* model bound: a held carrier is not transferred past this count

ASSUME SlotsAssumption ==
  NSlots \in Nat \ {0} /\ NMintAtoms \in 1..NSlots
ASSUME ShadowsAssumption == Zero \notin Shadows

Slots     == 0..(NSlots - 1)
MintSlots == 0..(NMintAtoms - 1)

(* A carrier's id is a hash of its birth shadow, birth slot and the mint   *)
(* counter; a shadow is minted once, so shadow and slot identify it.  The  *)
(* immutable typeIdx and originFaceId are functions of the same pair.      *)
Features == Shadows \X MintSlots

VARIABLES
  feature,      \* _features: the mutable part of each record
  featureOwner, \* ERC-721 owner of each carrier, Zero before its mint
  paused        \* the contracts whose PausableMixin flag is set

Pausable == {"ShadowToken", "FeatureNFT"}

Feature == [checkpoint : LiveState \cup {Zero}, isInserted : BOOLEAN,
            hostShadowId : Shadows \cup {Zero}, hostSlotIdx : Slots,
            paletteRevealed : BOOLEAN]

NoFeature == [checkpoint |-> Zero, isInserted |-> FALSE, hostShadowId |-> Zero,
              hostSlotIdx |-> 0, paletteRevealed |-> FALSE]

FeatureTypeOK ==
  /\ feature \in [Features -> Feature]
  /\ featureOwner \in [Features -> Users \cup {Zero}]
  /\ paused \in SUBSET Pausable

FeatureInit ==
  /\ feature = [f \in Features |-> NoFeature]
  /\ featureOwner = [f \in Features |-> Zero]
  /\ paused = {}

(* Faulty variant: the checkpoint is left for the first extract to set.    *)
BornIn_NoCheckpoint(s, i, live) ==
  [checkpoint |-> Zero, isInserted |-> TRUE, hostShadowId |-> s,
   hostSlotIdx |-> i, paletteRevealed |-> FALSE]

(* mintAtShadowMint                                                        *)
BornIn(s, i, live) ==
  [checkpoint |-> live, isInserted |-> TRUE, hostShadowId |-> s,
   hostSlotIdx |-> i, paletteRevealed |-> FALSE]

(* Faulty variant: custody is released without syncing the checkpoint.     *)
Extracted_StaleCheckpoint(rec, live) ==
  [checkpoint |-> rec.checkpoint, isInserted |-> FALSE, hostShadowId |-> Zero,
   hostSlotIdx |-> 0, paletteRevealed |-> rec.paletteRevealed]

(* extractFromShadow                                                       *)
MayExtract(f, s, i) ==
  /\ feature[f].isInserted
  /\ feature[f].hostShadowId = s
  /\ feature[f].hostSlotIdx = i

Extracted(rec, live) ==
  [checkpoint |-> live, isInserted |-> FALSE, hostShadowId |-> Zero,
   hostSlotIdx |-> 0, paletteRevealed |-> rec.paletteRevealed]

(* Faulty variant: custody is taken without asking who has it.             *)
MayInsert_Always(f) == f \in Features

(* insertIntoShadow: the checkpoint is left as it was at the last extract. *)
MayInsert(f) == ~feature[f].isInserted

InsertedInto(rec, s, i) ==
  [checkpoint |-> rec.checkpoint, isInserted |-> TRUE, hostShadowId |-> s,
   hostSlotIdx |-> i, paletteRevealed |-> rec.paletteRevealed]

(* rotateInsertedOwner                                                     *)
MayRotate(f, s) == feature[f].isInserted /\ feature[f].hostShadowId = s

(* revealPaletteAtSolve: a palette opens once.  The caller is taken to know*)
(* an opening of the commitment; one who does not can only fail to solve.  *)
MayReveal(f) == ~feature[f].paletteRevealed

Revealed(rec) == [rec EXCEPT !.paletteRevealed = TRUE]

(* Faulty variant: any owned carrier may be transferred, inserted or not.  *)
TransferFeature_NoCustodyLock(u, to, f) ==
  /\ "FeatureNFT" \notin paused
  /\ featureOwner[f] = u
  /\ OnCurve(to)
  /\ OpensFor(feature[f].checkpoint, pk[u])
  /\ feature[f].checkpoint.count < HeldBound
  /\ feature' = [feature EXCEPT
       ![f].checkpoint = Rekeyed(@, pk[to], "HELD_TRANSFER")]
  /\ featureOwner' = [featureOwner EXCEPT ![f] = to]

(* Faulty variant: a recipient without a key is let through.               *)
TransferFeature_AnyRecipient(u, to, f) ==
  /\ "FeatureNFT" \notin paused
  /\ featureOwner[f] = u
  /\ ~feature[f].isInserted
  /\ OpensFor(feature[f].checkpoint, pk[u])
  /\ feature[f].checkpoint.count < HeldBound
  /\ feature' = [feature EXCEPT
       ![f].checkpoint = Rekeyed(@, pk[to], "HELD_TRANSFER")]
  /\ featureOwner' = [featureOwner EXCEPT ![f] = to]

(* transferFeature: a held carrier's checkpoint is re-encrypted to a       *)
(* registered recipient.  The circuit asks for the secret key the          *)
(* checkpoint is encrypted to, and a caller knows only its own; it counts  *)
(* in the field, not in a uint16: HeldBound only keeps the model finite.   *)
TransferFeature(u, to, f) ==
  /\ "FeatureNFT" \notin paused
  /\ featureOwner[f] = u
  /\ ~feature[f].isInserted
  /\ OnCurve(to)
  /\ OpensFor(feature[f].checkpoint, pk[u])
  /\ feature[f].checkpoint.count < HeldBound
  /\ feature' = [feature EXCEPT
       ![f].checkpoint = Rekeyed(@, pk[to], "HELD_TRANSFER")]
  /\ featureOwner' = [featureOwner EXCEPT ![f] = to]
===============================================================================
