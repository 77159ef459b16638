--------------------------------- MODULE Bridge ---------------------------------
(***************************************************************************)
(* ShadowBridgeL2.sol and ShadowMirrorL1.sol around ShadowToken: a solved  *)
(* shadow goes into the custody of the bridge on L2 while a mirror of it   *)
(* lives on L1, and comes back when the mirror is burned.                  *)
(*                                                                         *)
(* The two chains share nothing but the messages of the OP-Stack messengers*)
(* (external to the repository): a message runs its call at most once with *)
(* success, in no particular order and after any delay; one whose call     *)
(* reverts stays there to be relayed again by anyone.  A message that      *)
(* cannot run yet is therefore simply not delivered yet.                   *)
(***************************************************************************)
EXTENDS ShadowToken

CONSTANTS
  BridgeAddress, \* the account of ShadowBridgeL2
  MaxMessages    \* model bound: messages sent in both directions together

ASSUME BridgeAddressAssumption == BridgeAddress \in Users \ Contracts
ASSUME MaxMessagesAssumption == MaxMessages \in Nat

VARIABLES
  l1MirrorSet,      \* ShadowBridgeL2.l1Mirror is set, to the mirror
  bridged,          \* ShadowBridgeL2.bridged
  l2BridgeSet,      \* ShadowMirrorL1.l2Bridge is set, to the bridge
  mintedFromBridge, \* ShadowMirrorL1.mintedFromBridge
  mirrorOwner,      \* ERC-721 owner of each mirror, Zero when there is none
  mirror,           \* ShadowMirrorL1._mirrors
  toL1, toL2,       \* messages sent and not yet run, one set per direction
  sent              \* messages sent so far; the messenger's nonce

l2Vars == <<l1MirrorSet, bridged>>
l1Vars == <<l2BridgeSet, mintedFromBridge, mirrorOwner, mirror>>
messageVars == <<toL1, toL2, sent>>
bridgeVars == <<l2Vars, l1Vars, messageVars>>
allVars == <<vars, bridgeVars>>

(* The lineage of a carrier (typeIdx, originFaceId, palette commitment) is *)
(* immutable, so the carrier stands for it.                                *)
MirrorState ==
  [ecdhPub : Keys \cup {Zero}, t10 : T10 \cup {Zero},
   zIndexCommit : Perms \cup {Zero}, zIndexRevealed : Perms \cup {Zero},
   manifest : [Slots -> ManifestEntry], lineage : [Slots -> Features \cup {Zero}]]

MintMessage == [nonce : Nat, shadowId : Shadows, recipient : Users,
                state : MirrorState]
UnbridgeMessage == [nonce : Nat, shadowId : Shadows, recipient : Users]

BridgeTypeOK ==
  /\ l1MirrorSet \in BOOLEAN
  /\ bridged \in [Shadows -> {"OWNED_ON_L2", "OWNED_ON_L1"}]
  /\ l2BridgeSet \in BOOLEAN
  /\ mintedFromBridge \in [Shadows -> BOOLEAN]
  /\ mirrorOwner \in [Shadows -> Users \cup {Zero}]
  /\ mirror \in [Shadows -> MirrorState \cup {Zero}]
  /\ toL1 \in SUBSET MintMessage
  /\ toL2 \in SUBSET UnbridgeMessage
  /\ sent \in Nat

BridgeInit ==
  /\ Init
  /\ l1MirrorSet = FALSE
  /\ bridged = [s \in Shadows |-> "OWNED_ON_L2"]
  /\ l2BridgeSet = FALSE
  /\ mintedFromBridge = [s \in Shadows |-> FALSE]
  /\ mirrorOwner = [s \in Shadows |-> Zero]
  /\ mirror = [s \in Shadows |-> Zero]
  /\ toL1 = {}
  /\ toL2 = {}
  /\ sent = 0
--------------------------------------------------------------------------------
(* Everything the users do on L2.  The bridge itself registers no key and  *)
(* approves nobody, so nothing it holds moves but by its own functions.    *)
TokenStep ==
  /\ Next
  /\ pk'[BridgeAddress] = pk[BridgeAddress]
  /\ \A s \in Shadows :
       shadowOwner[s] = BridgeAddress => shadowOwner'[s] = BridgeAddress
  /\ UNCHANGED bridgeVars

(* setL1Mirror and setL2Bridge, once each, by the deployer.                *)
SetL1Mirror ==
  /\ ~l1MirrorSet
  /\ l1MirrorSet' = TRUE
  /\ UNCHANGED <<vars, bridged, l1Vars, messageVars>>

SetL2Bridge ==
  /\ ~l2BridgeSet
  /\ l2BridgeSet' = TRUE
  /\ UNCHANGED <<vars, l2Vars, mintedFromBridge, mirrorOwner, mirror, messageVars>>

(* Faulty variant: the payload of v1, without the permutation.             *)
Payload_NoPermutation(s) ==
  [ecdhPub |-> shadow[s].ecdhPub, t10 |-> shadowT10[s],
   zIndexCommit |-> shadow[s].zIndexCommit, zIndexRevealed |-> Zero,
   manifest |-> manifest[s],
   lineage |-> [i \in Slots |-> IF i \in Occupied(s) THEN manifest[s][i].featureId
                                ELSE Zero]]

(* What bridgeShadow reads into BridgePayload.  The caller's revealedPi is *)
(* checked for its length only and left out here.                          *)
Payload(s) ==
  [ecdhPub |-> shadow[s].ecdhPub, t10 |-> shadowT10[s],
   zIndexCommit |-> shadow[s].zIndexCommit,
   zIndexRevealed |-> shadow[s].zIndexRevealed,
   manifest |-> manifest[s],
   lineage |-> [i \in Slots |-> IF i \in Occupied(s) THEN manifest[s][i].featureId
                                ELSE Zero]]

(* Faulty variant: the caller is not asked to be the owner.                *)
BridgeShadow_AnyCaller(u, s, to) ==
  /\ MayCall(u)
  /\ l1MirrorSet
  /\ to # Zero
  /\ shadow[s].solved
  /\ sent < MaxMessages
  /\ bridged' = [bridged EXCEPT ![s] = "OWNED_ON_L1"]
  /\ TransferFrom(s, BridgeAddress)
  /\ toL1' = toL1 \cup {[nonce |-> sent, shadowId |-> s, recipient |-> to,
                         state |-> Payload(s)]}
  /\ sent' = sent + 1
  /\ UNCHANGED <<l1MirrorSet, l1Vars, toL2>>

(* bridgeShadow, the owner having approved the bridge.                     *)
BridgeShadow(u, s, to) ==
  /\ MayCall(u)
  /\ u # BridgeAddress
  /\ l1MirrorSet
  /\ to # Zero
  /\ shadowOwner[s] = u
  /\ shadow[s].solved
  /\ sent < MaxMessages
  /\ bridged' = [bridged EXCEPT ![s] = "OWNED_ON_L1"]
  /\ TransferFrom(s, BridgeAddress)
  /\ toL1' = toL1 \cup {[nonce |-> sent, shadowId |-> s, recipient |-> to,
                         state |-> Payload(s)]}
  /\ sent' = sent + 1
  /\ UNCHANGED <<l1MirrorSet, l1Vars, toL2>>

(* mintFromBridge, called by the messenger on behalf of the bridge.        *)
MintFromBridge(m) ==
  LET s == m.shadowId IN
  /\ l2BridgeSet
  /\ ~mintedFromBridge[s]
  /\ mirrorOwner[s] = Zero
  /\ mintedFromBridge' = [mintedFromBridge EXCEPT ![s] = TRUE]
  /\ mirror' = [mirror EXCEPT ![s] = m.state]
  /\ mirrorOwner' = [mirrorOwner EXCEPT ![s] = m.recipient]
  /\ toL1' = toL1 \ {m}
  /\ UNCHANGED <<vars, l2Vars, l2BridgeSet, toL2, sent>>

(* transferFrom of the mirror, a plain ERC-721 on L1.                      *)
MirrorTransfer(s, to) ==
  /\ mirrorOwner[s] # Zero
  /\ mirrorOwner' = [mirrorOwner EXCEPT ![s] = to]
  /\ UNCHANGED <<vars, l2Vars, l2BridgeSet, mintedFromBridge, mirror, messageVars>>

(* Faulty variant: the flag set by the mint is never cleared.              *)
BurnAndUnbridge_FlagKept(s, to) ==
  /\ l2BridgeSet
  /\ to # Zero
  /\ mirrorOwner[s] # Zero
  /\ sent < MaxMessages
  /\ mirrorOwner' = [mirrorOwner EXCEPT ![s] = Zero]
  /\ mirror' = [mirror EXCEPT ![s] = Zero]
  /\ toL2' = toL2 \cup {[nonce |-> sent, shadowId |-> s, recipient |-> to]}
  /\ sent' = sent + 1
  /\ UNCHANGED <<vars, l2Vars, l2BridgeSet, mintedFromBridge, toL1>>

(* Faulty variant: the recipient is not looked at.                         *)
BurnAndUnbridge_AnyRecipient(s, to) ==
  /\ l2BridgeSet
  /\ mirrorOwner[s] # Zero
  /\ sent < MaxMessages
  /\ mirrorOwner' = [mirrorOwner EXCEPT ![s] = Zero]
  /\ mirror' = [mirror EXCEPT ![s] = Zero]
  /\ mintedFromBridge' = [mintedFromBridge EXCEPT ![s] = FALSE]
  /\ toL2' = toL2 \cup {[nonce |-> sent, shadowId |-> s, recipient |-> to]}
  /\ sent' = sent + 1
  /\ UNCHANGED <<vars, l2Vars, l2BridgeSet, toL1>>

(* burnAndUnbridge, by the mirror's owner; the caller names any recipient. *)
BurnAndUnbridge(s, to) ==
  /\ l2BridgeSet
  /\ to # Zero
  /\ mirrorOwner[s] # Zero
  /\ sent < MaxMessages
  /\ mirrorOwner' = [mirrorOwner EXCEPT ![s] = Zero]
  /\ mirror' = [mirror EXCEPT ![s] = Zero]
  /\ mintedFromBridge' = [mintedFromBridge EXCEPT ![s] = FALSE]
  /\ toL2' = toL2 \cup {[nonce |-> sent, shadowId |-> s, recipient |-> to]}
  /\ sent' = sent + 1
  /\ UNCHANGED <<vars, l2Vars, l2BridgeSet, toL1>>

(* Faulty variant: the message is kept after its call has succeeded.       *)
UnbridgeShadow_Replayable(m) ==
  LET s == m.shadowId IN
  /\ l1MirrorSet
  /\ m.recipient # Zero
  /\ bridged[s] = "OWNED_ON_L1"
  /\ shadowOwner[s] = BridgeAddress
  /\ bridged' = [bridged EXCEPT ![s] = "OWNED_ON_L2"]
  /\ TransferFrom(s, m.recipient)
  /\ UNCHANGED <<l1MirrorSet, l1Vars, messageVars>>

(* unbridgeShadow, called by the messenger on behalf of the mirror.        *)
UnbridgeShadow(m) ==
  LET s == m.shadowId IN
  /\ l1MirrorSet
  /\ m.recipient # Zero
  /\ bridged[s] = "OWNED_ON_L1"
  /\ shadowOwner[s] = BridgeAddress
  /\ bridged' = [bridged EXCEPT ![s] = "OWNED_ON_L2"]
  /\ TransferFrom(s, m.recipient)
  /\ toL2' = toL2 \ {m}
  /\ UNCHANGED <<l1MirrorSet, l1Vars, toL1, sent>>

RelayToL1(s) == \E m \in toL1 : m.shadowId = s /\ MintFromBridge(m)
RelayToL2(s) == \E m \in toL2 : m.shadowId = s /\ UnbridgeShadow(m)

BridgeNext ==
  \/ TokenStep
  \/ SetL1Mirror
  \/ SetL2Bridge
  \/ \E u, to \in Users, s \in Shadows : BridgeShadow(u, s, to)
  \/ \E s \in Shadows : RelayToL1(s)
  \/ \E s \in Shadows, to \in Users : MirrorTransfer(s, to)
  \/ \E s \in Shadows, to \in Users \cup {Zero} : BurnAndUnbridge(s, to)
  \/ \E s \in Shadows : RelayToL2(s)

BridgeSpec == BridgeInit /\ [][BridgeNext]_allVars

(* Anyone may prove, finalize and relay a message, so one whose call would *)
(* succeed is run in the end.                                              *)
RelayFairness ==
  \A s \in Shadows : WF_allVars(RelayToL1(s)) /\ WF_allVars(RelayToL2(s))

FairBridgeSpec == BridgeSpec /\ RelayFairness
--------------------------------------------------------------------------------
InFlight(s) == {m \in toL1 \cup toL2 : m.shadowId = s}

(* A shadow lives once: the bridge has no claim on one it does not record  *)
(* as bridged, and one it does record is solved, in its custody, and either*)
(* mirrored or the subject of exactly one message, never both or neither.  *)
OneLiveCopy ==
  \A s \in Shadows :
    /\ bridged[s] = "OWNED_ON_L2" => mirrorOwner[s] = Zero /\ InFlight(s) = {}
    /\ bridged[s] = "OWNED_ON_L1" =>
         /\ shadowOwner[s] = BridgeAddress
         /\ shadow[s].solved
         /\ \/ mirrorOwner[s] # Zero /\ InFlight(s) = {}
            \/ mirrorOwner[s] = Zero /\ \E m \in toL1 \cup toL2 : InFlight(s) = {m}

(* No message is stuck behind a flag: whatever round trips came before, a  *)
(* mint that is on its way will not find its shadow minted already, and an *)
(* unbridging will find a recipient and its shadow in custody.             *)
NothingStranded ==
  /\ \A s \in Shadows : mintedFromBridge[s] <=> mirrorOwner[s] # Zero
  /\ \A m \in toL1 : ~mintedFromBridge[m.shadowId]
  /\ \A m \in toL2 :
       /\ l1MirrorSet
       /\ m.recipient # Zero
       /\ bridged[m.shadowId] = "OWNED_ON_L1"
       /\ shadowOwner[m.shadowId] = BridgeAddress

(* A mirror, or a payload on its way, that shows s as it is on L2.         *)
Shows(state, s) ==
  /\ state.ecdhPub = shadow[s].ecdhPub
  /\ state.t10 = shadowT10[s]
  /\ state.zIndexCommit = shadow[s].zIndexCommit
  /\ state.zIndexRevealed = shadow[s].zIndexRevealed
  /\ state.manifest = manifest[s]

(* Nothing about a shadow in custody changes behind its mirror's back, nor *)
(* while the payload is on its way.  This is for externally owned minters: *)
(* a contract can bridge its shadow before its own mint has ended.         *)
MirrorFaithful ==
  /\ \A s \in Shadows : mirrorOwner[s] # Zero => Shows(mirror[s], s)
  /\ \A m \in toL1 : Shows(m.state, m.shadowId)

(* With the mirror wired, a bridged shadow appears on L1.                  *)
BridgedArrives ==
  \A s \in Shadows :
    (l2BridgeSet /\ \E m \in toL1 : m.shadowId = s) ~> mirrorOwner[s] # Zero

(* A burned mirror's shadow leaves the bridge's record.                    *)
BurnedReturns ==
  \A s \in Shadows :
    (\E m \in toL2 : m.shadowId = s) ~> bridged[s] = "OWNED_ON_L2"
--------------------------------------------------------------------------------
PlaceOnChains(s) ==
  IF bridged[s] = "OWNED_ON_L2" THEN "L2"
  ELSE IF \E m \in toL1 : m.shadowId = s THEN "toL1"
  ELSE IF \E m \in toL2 : m.shadowId = s THEN "toL2"
  ELSE "L1"

ControllerOf(s) ==
  CASE PlaceOnChains(s) = "L2" -> shadowOwner[s]
    [] PlaceOnChains(s) = "L1" -> mirrorOwner[s]
    [] OTHER -> (CHOOSE m \in toL1 \cup toL2 : m.shadowId = s).recipient

Asset == INSTANCE BridgedAsset WITH
  Vault <- BridgeAddress, Nobody <- Zero,
  place <- [s \in Shadows |-> PlaceOnChains(s)],
  controller <- [s \in Shadows |-> ControllerOf(s)]

(* The bridge, the mirror and the messages together are one asset that     *)
(* moves between two chains.                                               *)
ImplementsAsset == Asset!Spec
================================================================================
