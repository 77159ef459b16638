------------------------------ MODULE ShadowToken ------------------------------
(***************************************************************************)
(* ShadowToken.sol composed with FeatureNFT.sol and KeyRegistry.sol: the   *)
(* v2 pipeline from `registerImage` to `solve`.                            *)
(*                                                                         *)
(* A transaction is atomic, so one action is one successful call; a call   *)
(* that reverts changes nothing and is no step.  The exception is the      *)
(* mint: `_safeMint` hands control to a recipient that is a contract before*)
(* `mintShadow` has refreshed T10, and that contract may call anything.    *)
(* Such a mint is two actions, MintShadow and RefreshAfterCallback, and    *)
(* `minting` is the stack of mints whose callback is running.              *)
(*                                                                         *)
(* A zero-knowledge proof is the guard that its circuit imposes: a caller  *)
(* can supply one exactly when the witness exists, and what the circuit    *)
(* derives from the witness is what the contract stores.                   *)
(***************************************************************************)
EXTENDS FeatureNFT

CONSTANTS
  Contracts, \* the users that are contracts and re-enter from onERC721Received
  Perms,     \* z-index permutations; sponge_16 is injective, a commit is its perm
  MaxBatch   \* model bound: mutations of one slot in one mutateBatch

ASSUME ContractsAssumption == Contracts \subseteq Users
ASSUME PermsAssumption == Zero \notin Perms
ASSUME MaxBatchAssumption == MaxBatch \in Nat

VARIABLES
  registeredImages, \* image commitments with a face_disc proof
  mintedOrigins,    \* image commitments minted; a shadow's id is its image's
  shadowOwner,      \* ERC-721 owner of each shadow, Zero before its mint
  shadow,           \* _shadows
  manifest,         \* _manifests
  shadowT10,        \* the thumbnail commitment, Zero before the first refresh
  minting           \* stack of shadows whose _safeMint callback is running

featureVars == <<feature, featureOwner>>
tokenVars == <<registeredImages, mintedOrigins, shadowOwner, shadow, manifest,
               shadowT10, minting>>
vars == <<pk, featureVars, paused, tokenVars>>

Shadow == [ecdhPub : Keys \cup {Zero}, solved : BOOLEAN,
           zIndexCommit : Perms \cup {Zero}, zIndexRevealed : Perms \cup {Zero}]

NoShadow == [ecdhPub |-> Zero, solved |-> FALSE,
             zIndexCommit |-> Zero, zIndexRevealed |-> Zero]

(* _applyMintState and solve, on the shadow's own record.                  *)
OpenedFor(key) == [ecdhPub |-> key, solved |-> FALSE,
                   zIndexCommit |-> Zero, zIndexRevealed |-> Zero]

Frozen(rec) == [ecdhPub |-> rec.ecdhPub, solved |-> TRUE,
                zIndexCommit |-> rec.zIndexCommit,
                zIndexRevealed |-> rec.zIndexCommit]

EmptyEntry == [kind |-> "EMPTY", featureId |-> Zero, liveStateHash |-> Zero,
               mutationCount |-> 0, chainTip |-> <<>>]

OccupiedEntry ==
  [kind : {"OCCUPIED"}, featureId : Features, liveStateHash : LiveState,
   mutationCount : Nat, chainTip : Seq(Events)]

ManifestEntry == {EmptyEntry} \cup OccupiedEntry

(* What mint, mutate and insert write: the proof's public inputs bind the  *)
(* count and the tip to the new live state.                                *)
Holding(f, live) ==
  [kind |-> "OCCUPIED", featureId |-> f, liveStateHash |-> live,
   mutationCount |-> live.count, chainTip |-> live.tip]

(* The pair (hi, lo) the shadow_t10 circuit derives from the public inputs.*)
T10 == [zIndexCommit : Perms \cup {Zero},
        liveStateHashes : [Slots -> LiveState \cup {Zero}]]

T10Of(z, slots) ==
  [zIndexCommit |-> z,
   liveStateHashes |-> [i \in Slots |-> slots[i].liveStateHash]]

TypeOK ==
  /\ RegistryTypeOK
  /\ FeatureTypeOK
  /\ registeredImages \in SUBSET Shadows
  /\ mintedOrigins \in SUBSET Shadows
  /\ shadowOwner \in [Shadows -> Users \cup {Zero}]
  /\ shadow \in [Shadows -> Shadow]
  /\ manifest \in [Shadows -> [Slots -> ManifestEntry]]
  /\ shadowT10 \in [Shadows -> T10 \cup {Zero}]
  /\ minting \in Seq(Shadows)

Init ==
  /\ RegistryInit
  /\ FeatureInit
  /\ registeredImages = {}
  /\ mintedOrigins = {}
  /\ shadowOwner = [s \in Shadows |-> Zero]
  /\ shadow = [s \in Shadows |-> NoShadow]
  /\ manifest = [s \in Shadows |-> [i \in Slots |-> EmptyEntry]]
  /\ shadowT10 = [s \in Shadows |-> Zero]
  /\ minting = <<>>
--------------------------------------------------------------------------------
NotPaused == "ShadowToken" \notin paused

(* While a mint's callback runs only contracts can be a call's sender.     *)
MayCall(u) == minting = <<>> \/ u \in Contracts

(* Faulty variant: a solved shadow can still be written.                   *)
OwnsUnsolved_SolvedToo(u, s) == shadowOwner[s] = u

OwnsUnsolved(u, s) == shadowOwner[s] = u /\ ~shadow[s].solved

(* The guards common to the owner's entry points.                          *)
OwnerCall(u, s) == MayCall(u) /\ NotPaused /\ OwnsUnsolved(u, s)

Occupied(s) == {i \in Slots : manifest[s][i].kind = "OCCUPIED"}

(* Faulty variant: only the slots filled at the mint are walked.           *)
CarriersOf_MintSlots(s) ==
  {manifest[s][i].featureId : i \in Occupied(s) \cap MintSlots}

(* The carriers that slots of s refer to, as transferShadow and solve walk *)
(* them.                                                                   *)
CarriersOf(s) == {manifest[s][i].featureId : i \in Occupied(s)}

(* A proof over slot i of s has a witness for the shadow's current key.    *)
SlotOpens(s, i) == OpensFor(manifest[s][i].liveStateHash, shadow[s].ecdhPub)

(* _refreshT10Atomically, called after the other writes: it reads the      *)
(* commit and the manifest the call leaves behind.                         *)
RefreshT10(s) ==
  shadowT10' = [shadowT10 EXCEPT
                  ![s] = T10Of(shadow'[s].zIndexCommit, manifest'[s])]
--------------------------------------------------------------------------------
RegisterKey(u, k) ==
  /\ MayCall(u)
  /\ Register(u, k)
  /\ UNCHANGED <<featureVars, paused, tokenVars>>

(* Anyone may register any image: the face_disc proof is the credential.   *)
RegisterImage(s) ==
  /\ NotPaused
  /\ s \notin registeredImages
  /\ registeredImages' = registeredImages \cup {s}
  /\ UNCHANGED <<pk, featureVars, paused, mintedOrigins, shadowOwner, shadow,
                 manifest, shadowT10, minting>>

(* mintShadow up to the callback, and to its end when there is none.  The  *)
(* verifiers accept only public inputs below the field modulus, so no two  *)
(* images share a shadow id.                                               *)
MintShadow(u, s, pixels) ==
  LET born(i) == MintedState(pixels[i], pk[u]) IN
  /\ MayCall(u)
  /\ NotPaused
  /\ s \notin mintedOrigins
  /\ s \in registeredImages
  /\ OnCurve(u)
  /\ shadowOwner[s] = Zero
  /\ mintedOrigins' = mintedOrigins \cup {s}
  /\ shadow' = [shadow EXCEPT ![s] = OpenedFor(pk[u])]
  /\ manifest' = [manifest EXCEPT ![s] =
       [i \in Slots |-> IF i \in MintSlots THEN Holding(<<s, i>>, born(i))
                        ELSE @[i]]]
  /\ feature' = [f \in Features |->
       IF f[1] = s THEN BornIn(s, f[2], born(f[2])) ELSE feature[f]]
  /\ featureOwner' = [f \in Features |->
       IF f[1] = s THEN u ELSE featureOwner[f]]
  /\ shadowOwner' = [shadowOwner EXCEPT ![s] = u]
  /\ \/ u \notin Contracts /\ RefreshT10(s) /\ UNCHANGED minting
     \/ u \in Contracts /\ minting' = Append(minting, s) /\ UNCHANGED shadowT10
  /\ UNCHANGED <<pk, paused, registeredImages>>

(* Faulty variant: T10 is left to the calls the callback made.             *)
RefreshAfterCallback_Skipped ==
  /\ minting # <<>>
  /\ UNCHANGED <<pk, featureVars, paused, registeredImages, mintedOrigins,
                 shadowOwner, shadow, manifest, shadowT10>>
  /\ minting' = SubSeq(minting, 1, Len(minting) - 1)

(* The rest of mintShadow once the innermost callback has returned.        *)
RefreshAfterCallback ==
  /\ minting # <<>>
  /\ UNCHANGED <<pk, featureVars, paused, registeredImages, mintedOrigins,
                 shadowOwner, shadow, manifest>>
  /\ RefreshT10(minting[Len(minting)])
  /\ minting' = SubSeq(minting, 1, Len(minting) - 1)
--------------------------------------------------------------------------------
(* The loop both mutate entry points run: times[i] entries for slot i, each*)
(* verified against the state the one before it wrote.                     *)
MayMutate(s, times) ==
  \A i \in Slots : times[i] > 0 =>
    /\ i \in Occupied(s)
    /\ SlotOpens(s, i)
    /\ FitsUint16(manifest[s][i].liveStateHash.count + times[i])

MutatedSlots(s, times) ==
  [i \in Slots |->
     LET m == manifest[s][i] IN
     IF times[i] = 0 THEN m
     ELSE Holding(m.featureId, Mutated(m.liveStateHash, times[i]))]

MutateEntries(u, s, times) ==
  /\ OwnerCall(u, s)
  /\ MayMutate(s, times)
  /\ manifest' = [manifest EXCEPT ![s] = MutatedSlots(s, times)]
  /\ UNCHANGED <<pk, featureVars, paused, registeredImages, mintedOrigins,
                 shadowOwner, shadow, minting>>
  /\ RefreshT10(s)

MutateSlot(u, s, i) ==
  MutateEntries(u, s, [j \in Slots |-> IF j = i THEN 1 ELSE 0])

MutateBatch(u, s, times) ==
  /\ \E i \in Slots : times[i] > 0
  /\ MutateEntries(u, s, times)

ExtractSlot(u, s, i) ==
  LET m == manifest[s][i] IN
  /\ OwnerCall(u, s)
  /\ i \in Occupied(s)
  /\ MayExtract(m.featureId, s, i)
  /\ manifest' = [manifest EXCEPT ![s][i] = EmptyEntry]
  /\ feature' = [feature EXCEPT ![m.featureId] = Extracted(@, m.liveStateHash)]
  /\ UNCHANGED <<pk, featureOwner, paused, registeredImages, mintedOrigins,
                 shadowOwner, shadow, minting>>
  /\ RefreshT10(s)

(* The mutate_slot circuit with the carrier's checkpoint as the old state. *)
InsertFeature(u, s, i, f) ==
  LET old == feature[f].checkpoint IN
  /\ OwnerCall(u, s)
  /\ featureOwner[f] = u
  /\ MayInsert(f)
  /\ i \notin Occupied(s)
  /\ OpensFor(old, shadow[s].ecdhPub)
  /\ FitsUint16(old.count + 1)
  /\ manifest' = [manifest EXCEPT ![s][i] = Holding(f, Mutated(old, 1))]
  /\ feature' = [feature EXCEPT ![f] = InsertedInto(@, s, i)]
  /\ UNCHANGED <<pk, featureOwner, paused, registeredImages, mintedOrigins,
                 shadowOwner, shadow, minting>>
  /\ RefreshT10(s)
--------------------------------------------------------------------------------
(* Faulty variant: the contract's own count is not advanced.               *)
TransferredSlot_SameCount(m, key) ==
  LET live == Rekeyed(m.liveStateHash, key, "TRANSFER") IN
  [kind |-> "OCCUPIED", featureId |-> m.featureId, liveStateHash |-> live,
   mutationCount |-> m.mutationCount, chainTip |-> live.tip]

(* _applyOccupiedTransferSlot: the live state and the tip come from the    *)
(* proof, the count from the contract's own copy.                          *)
TransferredSlot(m, key) ==
  LET live == Rekeyed(m.liveStateHash, key, "TRANSFER") IN
  [kind |-> "OCCUPIED", featureId |-> m.featureId, liveStateHash |-> live,
   mutationCount |-> m.mutationCount + 1, chainTip |-> live.tip]

MayTransferSlot(s, i) ==
  /\ SlotOpens(s, i)
  /\ FitsUint16(manifest[s][i].mutationCount + 1)
  /\ MayRotate(manifest[s][i].featureId, s)

TransferShadow(u, s, to) ==
  /\ OwnerCall(u, s)
  /\ OnCurve(to)
  /\ \A i \in Occupied(s) : MayTransferSlot(s, i)
  /\ manifest' = [manifest EXCEPT ![s] =
       [i \in Slots |-> IF i \in Occupied(s) THEN TransferredSlot(@[i], pk[to])
                        ELSE @[i]]]
  /\ featureOwner' = [f \in Features |->
       IF f \in CarriersOf(s) THEN to ELSE featureOwner[f]]
  /\ shadow' = [shadow EXCEPT ![s].ecdhPub = pk[to]]
  /\ shadowOwner' = [shadowOwner EXCEPT ![s] = to]
  /\ UNCHANGED <<pk, feature, paused, registeredImages, mintedOrigins, minting>>
  /\ RefreshT10(s)

(* The zindex_commit circuit accepts any permutation.                      *)
SetZIndexCommit(u, s, perm) ==
  /\ OwnerCall(u, s)
  /\ shadow' = [shadow EXCEPT ![s].zIndexCommit = perm]
  /\ UNCHANGED <<pk, featureVars, paused, registeredImages, mintedOrigins,
                 shadowOwner, manifest, minting>>
  /\ RefreshT10(s)

(* solve_shadow_v2 needs a permutation whose sponge is the stored commit,  *)
(* so it has no witness while the commit is zero.                          *)
HasZIndexWitness(s) == shadow[s].zIndexCommit \in Perms

MaySolveSlot(s, i) ==
  /\ SlotOpens(s, i)
  /\ MayReveal(manifest[s][i].featureId)
  /\ MayExtract(manifest[s][i].featureId, s, i)

(* Reveal every occupied slot, freeze, then auto-extract; T10 is left as it*)
(* is.                                                                     *)
Solve(u, s) ==
  /\ OwnerCall(u, s)
  /\ HasZIndexWitness(s)
  /\ \A i \in Occupied(s) : MaySolveSlot(s, i)
  /\ shadow' = [shadow EXCEPT ![s] = Frozen(@)]
  /\ feature' = [f \in Features |->
       IF f \in CarriersOf(s)
       THEN Revealed(Extracted(feature[f],
              manifest[s][feature[f].hostSlotIdx].liveStateHash))
       ELSE feature[f]]
  /\ manifest' = [manifest EXCEPT ![s] = [i \in Slots |-> EmptyEntry]]
  /\ UNCHANGED <<pk, featureOwner, paused, registeredImages, mintedOrigins,
                 shadowOwner, shadowT10, minting>>

(* transferFrom and safeTransferFrom: open only once solved, to the owner  *)
(* or to anyone it approved, and not gated by pause.                       *)
TransferFrom(s, to) ==
  /\ shadow[s].solved
  /\ shadowOwner' = [shadowOwner EXCEPT ![s] = to]
  /\ UNCHANGED <<pk, featureVars, paused, registeredImages, mintedOrigins,
                 shadow, manifest, shadowT10, minting>>

TransferHeld(u, to, f) ==
  /\ MayCall(u)
  /\ TransferFeature(u, to, f)
  /\ UNCHANGED <<pk, paused, tokenVars>>

(* pause and unpause, by the deployer, who is not one of the contracts.    *)
Pause(c) ==
  /\ minting = <<>>
  /\ c \notin paused
  /\ paused' = paused \cup {c}
  /\ UNCHANGED <<pk, featureVars, tokenVars>>

Unpause(c) ==
  /\ minting = <<>>
  /\ c \in paused
  /\ paused' = paused \ {c}
  /\ UNCHANGED <<pk, featureVars, tokenVars>>

Next ==
  \/ \E u \in Users, k \in Keys : RegisterKey(u, k)
  \/ \E s \in Shadows : RegisterImage(s)
  \/ \E u \in Users, s \in Shadows, pixels \in [MintSlots -> Pixels] :
       MintShadow(u, s, pixels)
  \/ RefreshAfterCallback
  \/ \E u \in Users, s \in Shadows, i \in Slots : MutateSlot(u, s, i)
  \/ \E u \in Users, s \in Shadows, times \in [Slots -> 0..MaxBatch] :
       MutateBatch(u, s, times)
  \/ \E u \in Users, s \in Shadows, i \in Slots : ExtractSlot(u, s, i)
  \/ \E u \in Users, s \in Shadows, i \in Slots, f \in Features :
       InsertFeature(u, s, i, f)
  \/ \E u, to \in Users, s \in Shadows : TransferShadow(u, s, to)
  \/ \E u \in Users, s \in Shadows, perm \in Perms : SetZIndexCommit(u, s, perm)
  \/ \E u \in Users, s \in Shadows : Solve(u, s)
  \/ \E s \in Shadows, to \in Users : TransferFrom(s, to)
  \/ \E u, to \in Users, f \in Features : TransferHeld(u, to, f)
  \/ \E c \in Pausable : Pause(c)
  \/ \E c \in Pausable : Unpause(c)

Spec == Init /\ [][Next]_vars
--------------------------------------------------------------------------------
Minted(s) == shadowOwner[s] # Zero
Unsolved(s) == Minted(s) /\ ~shadow[s].solved
Born(f) == featureOwner[f] # Zero

(* Where the current state of a carrier is kept: in its host's slot while  *)
(* it is inserted, in its own checkpoint while it is held.                 *)
LiveStateOf(f) ==
  IF feature[f].isInserted
  THEN manifest[feature[f].hostShadowId][feature[f].hostSlotIdx].liveStateHash
  ELSE feature[f].checkpoint

(* Before its mint a shadow has no key, no carriers and no slots in use, a *)
(* carrier no record; after it, each of its carriers has an owner and a    *)
(* checkpoint, and the image can never be minted again.                    *)
NothingBeforeMint ==
  /\ \A s \in Shadows :
       /\ Minted(s) <=> s \in mintedOrigins
       /\ ~Minted(s) => shadow[s] = NoShadow /\ Occupied(s) = {}
  /\ \A f \in Features :
       /\ Born(f) <=> Minted(f[1])
       /\ Born(f) => feature[f].checkpoint \in LiveState
       /\ ~Born(f) => feature[f] = NoFeature

(* The two contracts agree on custody: a slot that holds a carrier is the  *)
(* host the carrier names, and a carrier that says it is inserted is in    *)
(* that slot.  So no carrier is in two slots and none is lost.             *)
SingleHost ==
  /\ \A s \in Shadows : \A i \in Occupied(s) :
       LET f == manifest[s][i].featureId IN
       /\ f \in Features
       /\ MayExtract(f, s, i)
  /\ \A f \in Features : feature[f].isInserted =>
       LET s == feature[f].hostShadowId IN
       LET i == feature[f].hostSlotIdx IN
       /\ s \in Shadows
       /\ i \in Occupied(s)
       /\ manifest[s][i].featureId = f

(* A carrier travels with its host: it belongs to the host's owner, and the*)
(* host is not frozen, however the two were bought and assembled.          *)
CarriersFollowHost ==
  \A f \in Features : feature[f].isInserted =>
    /\ featureOwner[f] = shadowOwner[feature[f].hostShadowId]
    /\ ~shadow[feature[f].hostShadowId].solved

(* The key encryption has reached is the key of whoever may act: an        *)
(* unsolved shadow's ecdhPub is its owner's registered key, every occupied *)
(* slot opens for it, and every held carrier opens for its own owner.      *)
KeyFollowsOwner ==
  /\ \A s \in Shadows : Unsolved(s) =>
       /\ shadow[s].ecdhPub = pk[shadowOwner[s]]
       /\ shadow[s].ecdhPub \in CurveKeys
       /\ \A i \in Occupied(s) : SlotOpens(s, i)
  /\ \A f \in Features : Born(f) /\ ~feature[f].isInserted =>
       OpensFor(feature[f].checkpoint, pk[featureOwner[f]])

(* The count and the tip the contract keeps beside a live state are those  *)
(* the live state commits to, and a tip has one event per count plus its   *)
(* mint; the contract advances its copy in transferShadow on its own.      *)
MetadataBound ==
  \A s \in Shadows : \A i \in Occupied(s) :
    LET m == manifest[s][i] IN
    /\ m.mutationCount = m.liveStateHash.count
    /\ m.chainTip = m.liveStateHash.tip
    /\ Len(m.chainTip) = m.mutationCount + 1
    /\ FitsUint16(m.mutationCount)

(* Outside a mint that is still running, the thumbnail of an unsolved      *)
(* shadow is the one its current manifest and z-index commit render to.    *)
T10Fresh ==
  \A s \in Shadows :
    Unsolved(s) /\ (\A n \in 1..Len(minting) : minting[n] # s) =>
      shadowT10[s] = T10Of(shadow[s].zIndexCommit, manifest[s])

(* A carrier's history is append-only: through mutation, extraction,       *)
(* insertion elsewhere and sale, its state is that of a longer tip over the*)
(* same pixels, so no checkpoint that was left behind ever comes back.     *)
CarrierHistory ==
  [][\A f \in Features : Born(f) =>
       LET old == LiveStateOf(f) new == LiveStateOf(f)' IN
       /\ new.pixels = old.pixels
       /\ Len(old.tip) <= Len(new.tip)
       /\ SubSeq(new.tip, 1, Len(old.tip)) = old.tip]_vars

(* A solved shadow is frozen: it stays solved, empty, and shows the        *)
(* permutation it revealed.                                                *)
SolvedIsFinal ==
  [][\A s \in Shadows : shadow[s].solved =>
       /\ shadow'[s] = shadow[s]
       /\ Occupied(s) = {}
       /\ Occupied(s)' = {}]_vars

(* A solved shadow keeps the thumbnail of its solve, unless it is solved    *)
(* inside its own mint callback: the mint writes the thumbnail afterwards. *)
SolvedT10Frozen ==
  [][\A s \in Shadows :
       shadow[s].solved /\ (\A n \in DOMAIN minting : minting[n] # s) =>
         shadowT10'[s] = shadowT10[s]]_vars
--------------------------------------------------------------------------------
(* Possession as the two contracts keep it: where a carrier is, is read    *)
(* from ShadowToken's manifests; whose it is, from FeatureNFT.             *)
SlotsHolding(f) ==
  {x \in Shadows \X Slots : /\ manifest[x[1]][x[2]].kind = "OCCUPIED"
                            /\ manifest[x[1]][x[2]].featureId = f}

PlaceOf(f) ==
  IF ~Born(f) THEN <<"unborn">>
  ELSE IF SlotsHolding(f) = {} THEN <<"held">>
  ELSE CHOOSE x \in SlotsHolding(f) : TRUE

PhaseOf(s) ==
  IF ~Minted(s) THEN "unminted" ELSE IF shadow[s].solved THEN "solved" ELSE "open"

Possession == INSTANCE Custody WITH
  Carriers <- Features, Nobody <- Zero,
  phase <- [s \in Shadows |-> PhaseOf(s)],
  shadowHolder <- shadowOwner, carrierHolder <- featureOwner,
  place <- [f \in Features |-> PlaceOf(f)]

(* The contracts implement the abstract specification of possession.       *)
ImplementsCustody == Possession!Spec
================================================================================
