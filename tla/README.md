# A TLA+ model of the shadow pipeline

This directory models moist_cryptography's v2 pipeline: the contracts under
`src/contracts/src/` together with what the Noir circuits under `src/circuits/` allow a
prover to do, the forge scripts that broadcast the proofs, and the Python tools under
`src/tools/` that build them and read the chain. A *shadow* is an ERC-721 token made of up to
sixteen encrypted slots. Each slot holds a *carrier*, an ERC-721 token of its own.
Carriers can be mutated in place, taken out, sold, put into another shadow, and are
revealed for good when their shadow is solved.

## 1. Inventory

| Part | State it keeps | Operations | What makes it correct |
|---|---|---|---|
| `ShadowToken.sol` | shadows (owner, current key, solved, z-index commit), a 16-slot manifest per shadow, the public thumbnail commitment T10, the registered and minted images | `registerImage`, `mintShadow`, `mutateSlot`, `mutateBatch`, `extractSlot`, `insertFeature`, `transferShadow`, `setZIndexCommit`, `solve`, `transferFrom` | manifest, key, T10 and carriers move together; a solved shadow never changes |
| `FeatureNFT.sol` | each carrier's checkpoint, host shadow and slot, reveal flag, owner | privileged: `mintAtShadowMint`, `extractFromShadow`, `insertIntoShadow`, `rotateInsertedOwner`, `revealPaletteAtSolve`; public: `transferFeature` | a carrier is in one place; its checkpoint is never an old state brought back |
| `KeyRegistry.sol` | one Grumpkin key per address | `register` | the binding never changes |
| circuits (`landmark_regions_v2`, `mutate_slot`, `transfer_shadow_v2`, `transfer_feature_v2`, `solve_shadow_v2`, `zindex_commit`, `shadow_t10`) | none | one relation each between old state, key and new state | only the holder of the key can produce a new state, and only the allowed one |
| `PausableMixin.sol`, `setVerifier` | pause flag, proposed verifiers with their timestamps | `pause`, `unpause`, propose / cancel / apply / apply immediately | a verifier changes only after seven days, or while users are stopped |
| `ShadowBridgeL2.sol`, `ShadowMirrorL1.sol` | which chain a solved shadow is on, the mirror token and its snapshot | `bridgeShadow`, `mintFromBridge`, `burnAndUnbridge`, `unbridgeShadow`, over the OP-Stack messenger | one live token per shadow; nothing stranded |
| `PoseLib.sol` | none | packing of a slot's pose | inverse of each other |
| deploy scripts, one-shot setters | addresses of registries, verifiers, sponges | set once | wired before first use, never rewired |
| on-chain fixture builders (`build_*_onchain.py`, `slot_state.py`, `recipient_b_state.py`) | fixtures on disk | one builder per entry point: rebuild the shadow from seeds, prove, write a fixture | a fixture built from true arguments is accepted when it is broadcast |
| broadcast scripts (`contracts/script/*OnSepolia.s.sol`) | none; transactions in the chain's pool | one per entry point: look whether the step is done, demand, record the calls, send | what is killed or fails can be run again; no step is taken twice or left out |
| proving workspace (the circuits' directories, `secret_inbox.py`) | `Prover.toml`, `target/`, proof directories, fixture files | write witness, execute, key, prove, verify, read back, remove | nothing of another or an earlier process is published; no witness is left behind |
| end-to-end runners (`sepolia_e2e.py`, `anvil_t10_e2e.py`, `run_phase2.py`, `run_bridge.py`) | run directories | a fixed list of v1 transactions and reads | headed "STALE — v1": they deploy the v2 stack and call v1 functions that it does not have (section 5) |
| readers (`render_onchain_shadow.py`, `verify_onchain_mint.py`, `verify_onchain_transfer.py`) | none; many reads of one shadow | render, verify a mint, verify a transfer | the answer is true of some moment although the shadow changes meanwhile |
| test fixture builders (`build_*_fixture.py`), `check_verifier_manifest.py` | circuit directories, fixtures, generated Solidity verifiers | linked witnesses and proofs | a fixture replays from its seeded state to its end, under one verifier |
| verifiers and Poseidon2 Yul files | none | generated code | taken as sound, complete and collision free |

**How they interact.** A user calls `ShadowToken`, which calls a verifier, then
`FeatureNFT`'s privileged functions (in a loop over slots for mint, transfer and
solve) and reads `KeyRegistry`. `transferFeature` goes to `FeatureNFT` directly.
`mintShadow` is the only call that gives up control in the middle: OpenZeppelin's
`_safeMint` calls `onERC721Received` on a recipient that is a contract, before T10
has been written. The bridge takes solved shadows into custody by the ordinary
`transferFrom` and talks to its mirror by asynchronous messages. The tools meet the
contracts only through transactions and views: a broadcast script decides from views what it
sends, a builder reads nothing from the chain, so
its picture of the shadow and the chain's may drift apart; the readers ask the views and the event log. Among themselves the
tools share files, with no lock.

**What is hard here.** A carrier's custody is kept twice, in a manifest entry and in
the carrier's own record, by two contracts. Its encryption key is kept three times
(inside the live state, as the shadow's `ecdhPub`, in the registry). Its count and
tip are kept beside the hash that commits to them. Long sequences of legal calls by
several users (extract, sell, insert elsewhere, sell the host, solve) must keep all
copies in step. The mint callback re-enters in the middle of this. Off chain it is
files and time: builders share directories, runs are killed and resumed, RPC nodes drop
calls, lag and fail after they have broadcast, circuits are edited between two proofs, and
a reader's calls see the shadow at different moments. A broadcast is killed, its transactions are
not, and its script is run again. The hazards are
listed one by one, with source lines, in `PROJECT.json`.

## 2. Modules

| Module | Models | Kind |
|---|---|---|
| `SlotState` | a live state and what each circuit does to it | operators |
| `KeyRegistry` | `KeyRegistry.sol` | state, one action |
| `FeatureNFT` | `FeatureNFT.sol` | state, operators for the privileged calls, one action |
| `ShadowToken` | `ShadowToken.sol` and the composition of the three | specification |
| `Custody` | the abstract specification: who has what, where | specification |
| `Bridge` | `ShadowBridgeL2.sol`, `ShadowMirrorL1.sol` and the messages between them, around `ShadowToken` | specification |
| `BridgedAsset` | the abstract specification: which chain a shadow is on, who controls it | specification |
| `VerifierRotation` | `PausableMixin.sol`'s rotation with `ShadowToken.setVerifier` and its storage | specification |
| `Builders` | the on-chain fixture builders and the broadcasts of what they built | specification |
| `Broadcasts` | the broadcast scripts, `forge script --broadcast` and the chain's pool | specification |
| `Workspace` | the processes that prove, step by step, over the shared directories | specification |
| `Readers` | the renderer and the verifiers, call by call, against a changing shadow | specification |
| `Fixtures` | the test fixture builders, their verifiers and the manifest check | specification |
| `Contracts_proofs`, `Custody_proofs`, `VerifierRotation_proofs` | theorems about the contracts: `Contracts_proofs` about `ShadowToken` and about `Bridge`, which extends it | proofs |
| `Broadcasts_proofs`, `Workspace_proofs`, `Builders_proofs`, `Fixtures_proofs`, `Readers_proofs` | theorems about the tools | proofs |
| `MC...` | small instances of the module of that name | TLC |

Each module extends the one before it (`SlotState`, `KeyRegistry`, `FeatureNFT`,
`ShadowToken`, `Bridge`); `ShadowToken` instantiates `Custody` and `Bridge` instantiates
`BridgedAsset`, each under a refinement mapping. `VerifierRotation` and the five modules
of the tools stand alone: what a tool sees of the contracts is stated in its own module, cut
to what that tool can tell apart, because the whole of `ShadowToken` beside a process model
is beyond TLC.

### How the state corresponds to the code

* A **live state** (`liveStateHash`) is a Poseidon2 hash over a plaintext commitment,
  a ciphertext commitment, an ephemeral key, a count and a chain tip. The hash is
  modelled by the tuple `[pixels, key, count, tip]`: the ciphertext and its ephemeral
  key by the key they are encrypted to, the plaintext by the pixels (the pose, which
  mutation may change, is left out), the tip by the sequence of events it absorbed.
  So hashes are injective by assumption, and everything a property needs is kept.
* **A proof is a guard.** The circuit's witness exists exactly when the guard holds,
  and what the circuit derives from it is what the contract writes. `OpensFor` is the
  demand of every circuit for the secret key of the state it reads. A caller knows
  the secret of its own key only.
* `feature`, `featureOwner`, `shadow`, `manifest`, `shadowOwner`, `shadowT10`,
  `mintedOrigins`, `registeredImages`, `pk` and `paused` are the storage variables of
  the same names. `Zero` is the EVM's zero value.
* A carrier's id is the pair of its birth shadow and birth slot. In the code it is a
  hash of that pair and a counter. A shadow's id is its image commitment.
* T10 is the pair of z-index commit and live states that `shadow_t10` hashes.
* The kind of verifier, its address, gas, event payloads, ciphertext bytes and salts
  are not in the model.

### How the actions correspond to the code

A transaction either succeeds or changes nothing, so an action is a successful call,
with all it changes in every contract it touches; `PROJECT.json` names the lines. The
exception is `mintShadow` called by a contract. `MintShadow` then ends at the
callback, pushes the shadow on the stack `minting`, and `RefreshAfterCallback` is the
rest. While the stack is not empty only contracts may call (`MayCall`), because the
callee is one. An externally owned minter has no callback and the mint is one step.
One simplification: a callback that reverts takes the whole mint with it and is not
shown, for it leaves the state as it was.

`mutateSlot` and `mutateBatch` share `MutateEntries`: entries of a batch for different
slots commute, and those for one slot compose, so a batch is the number of entries it
has for each slot.

`Custody` keeps only the phase of each shadow, the two kinds of holder, and the place
of each carrier. Its seven actions are mint, extract, insert, hand over, give, solve
and sell. `ShadowToken!Possession` reads the place from ShadowToken's manifests and
the holder from FeatureNFT; a mutation, a pause or a T10 refresh is a stutter.

### The bridge

`Bridge` adds the storage of the two bridge contracts (`bridged`, `mintedFromBridge`,
`mirrorOwner`, `mirror`, and whether the one-shot setters have been called) and the
messages that were sent and have not run: `toL1` for `mintFromBridge`, `toL2` for
`unbridgeShadow`. The OP-Stack messengers are external. From how the contracts use
them: a message runs successfully at most once, after any delay and in any order, and
one whose call reverts can be relayed again. So a message is an element of a set, each
with its nonce, and is removed by the action that runs it; a call that would revert is
no step.

`TokenStep` is any step of `ShadowToken` by its users. The bridge is one of the
accounts. It registers no key and approves nobody, hence nothing it holds moves in a
`TokenStep`. `BridgeShadow` and `UnbridgeShadow` use the token's own `TransferFrom`,
which is why the composition is a behaviour of `ShadowToken` alone (`BridgeIsAUser`).
The approval that `bridgeShadow` needs is part of the call. The setters set the right
address: a wrong one is a deployment fault outside the model.

`BridgedAsset` knows two chains, the way between them and one controller per shadow.
Its vault shows what the code does not prevent: a solved shadow sent to the bridge by a
plain transfer, or unbridged to the bridge's own address, is never moved again.

### Verifier rotation

`VerifierRotation` is the storage of seven verifiers (`KnownSlots`; FeatureNFT is the
instance with one), the bitmap of `setVerifier`, and the proposals of `PausableMixin`. Slot
ids are `uint8`s, also ones past the bitmap and past the known slots; the deployer may
propose `address(0)`. `active` is what `_writeVerifierSlot` writes. `sets`, `asked`,
`applied` and `standing` are histories for the properties. `Init` is what the deploy script
leaves, with a set `Unset` of slots it has not come to.

### The tools

* **`Builders`.** A live state is a record of what the hash commits to: carrier, key,
  image, and one event per operation, each event named by the label from which the code
  derives its randomness. That is enough to tell apart the states that two builders
  compute, which is what makes a broadcast revert. A fixture is what its proofs bind. The
  operator's arguments are any of a small set, true to the chain or not; the actions
  `Broadcast...` are the contract's side. `slot_state.py`'s specifications are functions
  from slots to the fixtures that changed them. Not modelled: specifications of inserted
  slots, and the `_b` builders, which start with a loader that always dies
  (`RecipientLoadsTransfer`).
* **`Broadcasts`.** forge executes a script's `run()` against a fork of the chain of that moment,
  to its end (`Simulate`, or `Skip` where the script returns at once), and then sends what it
  recorded, with the account's next nonces (`Send`). A transaction lands, reverts, runs out of gas
  or is dropped, whether the script still waits for it or was killed; one with the nonce of
  another replaces it. The contracts are those that the scripts call, each with what it demands
  (`MayMint` to `MayBridge`) and leaves (`Minted` to `Bridged`), over one shadow and its
  carriers. A live state stands for its hash: it contains its count and its tip, so the states
  of a carrier never repeat (`PastAssumption`, which TLC evaluates). forge and the pool are external, and the
  way back over the bridge is `Bridge`'s. Left out: `pause`, `setApprovalForAll`, the reveal of
  palettes, the owner's key (`KeyFollowsOwner` is about it), and a script started with the key of
  an account its fixture is not for.
* **`Workspace`.** One action per file or command of `prove(...)`: witness, `nargo
  execute`, key, `bb prove`, `bb verify`, read back, remove. The builders that keep a key
  that exists and those that write it anew differ, and so do those that remove their
  witness at exit, in a `finally`, or never. `Fail` is a command that exits with an error,
  `Kill` a process that gets no chance to clean up. A fixture is its proofs and `meta.json`,
  the files that a later step reads; the transfer builder writes `plaintexts.json` after
  `meta.json`, and that file is left out.
* **`Readers`.** A call of a tool is an action against the chain of that moment, and
  the owner's transactions come between any two; views of what cannot change any more, as
  `mintedOrigins` or the type of a carrier, are left out. Live states, ciphertexts and
  plaintexts are numbers never used twice. The renderer is modelled with `--fn` given and the
  log read from block 0.
* **`Fixtures`.** A builder is a script of witnesses, proofs and writes. The live state of
  a slot is the number of its changes. One builder runs at a time (overlap is
  `Workspace`'s subject); it may fail or be killed at any statement, and circuits may be
  edited between any two. `build_transfer_shadow_fixture` stops at its own check of the
  number of inputs against the committed fixture; the remote key of `landmark_regions` is
  taken as built.

## 3. What the runs check

| Run | Instance | Checks |
|---|---|---|
| `shadow_market` | 2 users, 1 key, 2 shadows of 2 slots, one carrier born in each | `TypeOK`, `NothingBeforeMint`, `SingleHost`, `CarriersFollowHost`, `CarrierHistory`, `ImplementsCustody` |
| `shadow_reentry` | one contract and one user, two keys and one off the curve, 1 shadow with both slots filled at the mint, two pixel values, batches of up to 2 per slot | `KeyFollowsOwner`, `MetadataBound`, `T10Fresh`, `SolvedIsFinal`, `SolvedT10Frozen` |
| `custody` | the abstract specification, 2 users, 2 shadows | `OneCarrierPerSlot`, `HeldTogether` |
| `bridge` | 2 users and the bridge, 2 shadows, 3 messages, fair relayer | `BridgeTypeOK`, `OneLiveCopy`, `NothingStranded`, `MirrorFaithful`, `ImplementsAsset`, `BridgedArrives`, `BurnedReturns` |
| `verifier_rotation` | one known slot, unset at first, and an id past the bitmap, 3 verifiers, 2 proposals, timelock 2 | `SetOnce`, `ProposalUsedOnce`, `TimelockHeld` |
| `builders` | 2 mint slots and a free one, two keys, one salt, one permutation | `HonestTransferLands` |
| `broadcasts` | 2 accounts, one shadow of 2 slots, a campaign of 12 steps through all ten scripts, 3 faults | `TypeOK`, `CampaignInOrder`, `RerunGoesThrough`, `Completes` |
| `workspace` | three of the seven tools, in three selections that use every one of them, two at a time, one edit | `ReadsItsOwn`, `FixtureIsWhole`, `WitnessGoesWithItsProcess` |
| `readers` | 2 mint slots and a free one, one foreign carrier, 3 changes | `PassedMintWasIntact`, `PassedTransferWasIntact`, `SolvedRenderIsExact` |
| `fixtures` | all builders, 2 runs, one edit of a v2 and a v1 circuit, a verifier missing at first | `FixtureReplays`, `OneVerifierAccepts`, `VerifierFitsTheProof`, `MadeFromOneRun`, `ManifestSeesV1` |

The two shadow runs split what one instance cannot hold. The market has two shadows and
no callback, so that carriers move between hosts; one key is enough, because where a
carrier is and whose it is does not depend on keys. The re-entry run has one shadow and two
keys, so that keys and counts change under a contract that calls back from its mint.

What the properties say:

* `SingleHost`: a slot that holds a carrier is the host the carrier names, and the
  other way round. The two contracts' books agree, so no carrier is lost or doubled.
* `CarriersFollowHost`: an inserted carrier belongs to its host's owner.
* `KeyFollowsOwner`: whoever owns an open shadow or a held carrier can open it.
* `CarrierHistory`: the state of a carrier, wherever it is kept, only ever extends its
  past. A stale checkpoint cannot come back, in any order of extract, insert, sale.
* `MetadataBound`: the count and tip stored beside a hash are the ones in it, although
  `transferShadow` computes the count on its own and the circuit does so separately.
* `T10Fresh`: outside a running mint, the thumbnail of an open shadow is current.
* `SolvedIsFinal`, `SolvedT10Frozen`: nothing of a solved shadow changes but its owner,
  and its thumbnail if it is solved inside its own mint callback.
* `NothingBeforeMint`: no leftovers before a mint, no second mint, no missing record.
* `ImplementsCustody`: the composition is a possible behaviour of `Custody`.
* `OneLiveCopy`: a shadow the bridge records is solved, in its custody, and either
  mirrored or the subject of exactly one message; one it does not record is neither.
* `NothingStranded`: no pending message waits for a flag that will not change. It is the
  round-trip fix that the comment at `ShadowMirrorL1.sol:134` describes.
* `MirrorFaithful`: mirrors and payloads equal the shadow on L2. With contracts among
  the users this fails, for the reason `solved_thumbnail` shows: a contract can solve and
  bridge its shadow from its mint callback, before `mintShadow` writes T10.
* `BridgedArrives`, `BurnedReturns`: what leaves one chain appears on the other.
* `ImplementsAsset`: the composition is a possible behaviour of `BridgedAsset`.
* `TimelockHeld`: once `setVerifier` has set a slot, and while the contract is not paused,
  its verifier is only replaced by one that stood proposed, with nothing else proposed in
  between, for the whole timelock. `ProposalUsedOnce`, `SetOnce`: no sequence of proposals,
  cancellations, applications and pauses uses a proposal twice or lets `setVerifier` write
  a slot again.
* `HonestTransferLands`: if the fixtures that landed are still on disk, the specification
  that names them rebuilds the manifest of the chain and its transfer is accepted.
* `CampaignInOrder`: whatever is killed, dropped, replaced or run twice, the shadow is where the
  steps whose scripts have exited with 0 lead, or one step further. No script reports a step
  that did not happen, and none happens twice or out of turn.
* `RerunGoesThrough`: at any moment the next step's script skips or goes through, as
  `MintOnSepolia.s.sol:22` promises of itself, unless an account registered another key than
  the one its fixture names. The bridge's script, once its shadow has crossed, is the exception:
  it has no guard and reverts.
* `Completes`: a campaign in which no such key is registered arrives at its last step.
* `ReadsItsOwn`, `FixtureIsWhole`: a process that did not overlap with another publishes
  its own proofs only, whatever earlier processes left; a fixture's files belong together.
* `WitnessGoesWithItsProcess`: a witness outlives only a batch or a process that was killed.
* `PassedMintWasIntact`, `PassedTransferWasIntact`: a verifier that passes read what was
  true of the whole shadow at one moment, with the slots it looked at as that tool wants
  them. `SolvedRenderIsExact`: a render started after the solve shows what was revealed.
* `FixtureReplays`, `OneVerifierAccepts`, `VerifierFitsTheProof`: what a builder writes is
  accepted when it is replayed call by call, although it proves in another order, runs of
  other options came before and circuits were edited. `MadeFromOneRun`, `ManifestSeesV1`:
  the same of fixtures made from fixtures and of the verifiers v1 shares with v2.

Each property has a mutant in `PROJECT.json`: a variant of one definition (named
after it, `Definition_Fault`) that breaks the property in its run.

### Bounds

`HeldBound` (a held carrier is not sold past this count) and `MaxBatch` (entries of
one batch for one slot) are the only bounds the code does not have. `MaxCount` stands
for 65535; with 1 or 2 the limit is reached in the run, so the refusal at the limit is
exercised. Two shadows are enough for a carrier to be at home in one and inserted in
the other; two users for a seller and a buyer, and two keys for a re-encryption to
matter; two slots for one slot to be empty while another is full. `NMintAtoms <
NSlots` in the runs where a carrier moves in beside another. The number of perms,
pixels and shadows is cut to one where a run's properties do not look at them.
Symmetry is used over shadows, externally owned users and on-curve keys, which the
code treats alike; no run that uses it checks liveness.

`MaxMessages` bounds the messages sent in the bridge's runs. Three let a shadow cross,
return and cross again, which is where a flag left over from the first trip would bite;
two shadows let one travel while the other does. Slots and counts are cut to the least
that a shadow needs to be solved, because the bridge does not look at them.

`MaxFaults` bounds the kills, drops and transactions out of gas of a campaign. Three let a script
be killed, its second run lose a transaction and its third fail, all in the same step. The campaign has every
script and, of those whose order matters, more than one: two mutations of one slot, so that a
state can be past the next fixture's; an extraction whose carrier comes back, and one whose carrier
is sold; and a change of the owner between. `Again`, the steps whose scripts the operator may run
once more by mistake, is all of them but the two extractions and the z-index commit; those
three the contracts take again (see `extract_replay`; the z-index by design,
`docs/V2_FLOW.md:267`), and
the theorems ask the same (`AgainIsPast`).

Time in `VerifierRotation` ends two moments after a timelock that began at the start
can have run out, so that a proposal can be replaced while it waits and both can expire.
The tools' bounds are numbers of processes, runs, edits and transactions of the owner. Two of each let the second meet what the first left; the third
process can start while another runs over what a first one left, and three changes let a
shadow be extracted from, inserted into and transferred between two reads. Slots are cut to
three (one that changes, one that does not, one empty).

### Fairness

For the core, none. Nothing obliges a user to act, so it promises no progress. The only
thing that could be demanded, that the owner of an open shadow can always transfer or
solve it, has known exceptions (a slot at count 65535, an unset commit, a revealed
carrier), see the hazards.

For the bridge, `RelayFairness`: weak fairness of running a shadow's pending message.
Proving, finalizing and relaying are open to anyone and a failed message stays
available, so this asks no more than that somebody does it. The deployer's setters are
not fair: `BridgedArrives` is conditional on the mirror being wired.

For the broadcasts: the operator goes on until the last step (`Operate`), blocks are built
(`Mine`), and each account registers its key (`RegisterKey`), without which a transfer to it
is not possible. That forge gives up on a transaction that is gone is part of `Operate`. Faults
are not fair and end with `MaxFaults`.

No other module states fairness. The deployer need not rotate, the operator need not build,
and a process may be killed at any step.

### Disagreements with the documentation

Two runs end in a violation; each checks a sentence of a document or comment against what
the code does.

* `solved_thumbnail` (`SolvedT10Forever`): `docs/V2_FLOW.md:221` says T10 stays at its last
  pre-solve value for ever. A contract that solves inside the mint callback gets T10
  rewritten when `mintShadow` resumes (`ShadowToken.sol:386`). That this is the only
  exception is `SolvedT10Frozen`.
* `extract_replay` (`ReplayResistant`): `docs/V2_FLOW.md:259` says that a replayed extraction has
  public inputs that mismatch, because storage has advanced. `extractSlot` is bound to the live
  states of the slots it leaves and to nothing of the slot it empties. Once the carrier is back
  in its slot, the old proof is accepted again, and so is the script's fixture.

The modules state more such sentences. They are no runs of the project; put in place of the
properties of the run named after its module, TLC finds each violated.

| Definition | What the code does | What is said |
|---|---|---|
| `SlotSpecDrivesSolve` (`Builders`) | the solve builder reads no slot spec (`build_solve_onchain.py:155`): it takes the slots it is told are extracted as empty and the others as minted, so after one landed mutation every solve it can build reverts; the flag `--slot-overrides` of its docstring (line 19) is not there | `docs/SEPOLIA_TEST_MATRIX.md:238`: slot specs drive the transfer and the solve builders for shadows that are not as minted |
| `MirrorsCarryLineage` (`MCBridge`, with one shadow and `MaxCount` 1) | `bridgeShadow` collects lineage from occupied slots (`ShadowBridgeL2.sol:105`), and `solve` has emptied all of them, so no mirror has any | `ShadowBridgeL2.sol:16`: solved shadows carry per-slot lineage to L1 |
| `PostStateOk` (`Broadcasts`) | the lines after `stopBroadcast` run in forge's simulation, before anything is sent; a transaction that then runs out of gas leaves the carrier outside. The transfer, sale and bridge scripts have the same lines | `InsertOnSepolia.s.sol:100`: post-broadcast verification |
| `PausedTokenFrozen` (`MCShadowToken`) | `transferFrom` and `safeTransferFrom` (`ShadowToken.sol:1451`) are not gated | `docs/SECURITY.md:79`: pausing gates all state-changing entries |
| `UnsetCommitIsIdentity` (`MCShadowToken`) | no permutation hashes to zero, so `solve_shadow_v2` has no witness before `setZIndexCommit` | `ShadowToken.sol:68`: a zero commit is the identity permutation |
| `InsertsBuild` (`Builders`) | the insert builder gives the carrier new dimensions, and `mutate_slot` demands the old ones | `docs/SEPOLIA_TEST_MATRIX.md:224`: inserts a held carrier into any slot |
| `RecipientLoadsTransfer` (`Builders`) | `recipient_b_state.py:113` reads a field that the transfer builder does not write | its docstring: the fixtures are all it needs |
| `WitnessDeletedAtExit` (`Workspace`), `WitnessesAreTransient` (`Fixtures`) | the batch builder and the fixture builders leave `Prover.toml` | `AUTHENTICATED_METADATA.md:33`, `check_metadata_authority.py:42` |
| `ListedSlotsAreOccupied` (`MCReaders`) | an extracted slot stays in the renderer's list | `render_onchain_shadow.py:8` |
| `OwnerSeesOwnShadow` (`MCReaders`) | the renderer derives another key than the encryption did (`render_onchain_shadow.py:327`) | `render_onchain_shadow.py:25` |
| `FailurePrintsSummary` (`MCReaders`) | a mint verification of another transaction dies before its summary | `verify_onchain_mint.py:45` |
| `MintFixtureIsWhole` (`Fixtures`) | the v1 mint builder raises between its proof and its `fixture.json` | `build_landmark_mint_fixture.py:22` |
| `RemoteProofsVerify` (`Fixtures`, with `face_disc` among the circuits edited) | the status looked at after the remote `bb verify` is that of `tail` | `build_face_disc_fixture.py:5` |

Two more have no definition. `MutateOnSepolia.s.sol:19` says that the script skips a slot whose count
is past 0; it compares live states, and so a second mutation can be broadcast at all
(`MutateSkips_SinceMint` is what the header says). `PausableMixin.sol:16` describes the timelock for every
rotation after the initial set. The lock bit is set by `setVerifier` only, so a slot first
filled by a rotation can have its verifier replaced at once by `setVerifier`
(`ShadowToken.sol:279`); `TimelockHeld` without `\cap locks` fails. The deploy script fills
every slot by `setVerifier`.

## 4. What is proved

`Contracts_proofs` proves, for any sets of users, contracts, shadows, keys and
pixels and any numbers of slots, that seven of the properties above are invariants:
`TypeCorrect`, `MintedOnce`, `CustodyAgreed`, `CarriersTravel`, `OwnersCanOpen`,
`MetadataAuthentic`, `ThumbnailFresh`. The assumptions are those the modules name:
`Zero` is no user, key, shadow or permutation; at least one slot, and no more carriers
at a mint than slots; contracts are users; keys on the curve are keys.

The argument is one induction (`Inductive`). None of the properties is inductive
alone. `TransferShadow` keeps `KeyFollowsOwner` only if every slot's carrier really is
its own (`SingleHost`); that it hands over all carriers needs `SingleHost` again;
`ExtractSlot` keeps `KeyFollowsOwner` for the now held carrier only because the
carrier's owner is the shadow's (`CarriersFollowHost`) and the shadow's key is that
owner's; the mint keeps `SingleHost` only if nothing was in the slots before
(`NothingBeforeMint`). Their conjunction is inductive without further strengthening.
The proof has one lemma per group of conjuncts and one step per action. The
lemmas about live states that come first say which fields an operation keeps.

`SolvedForGood` proves the action property `SolvedIsFinal` from the same invariant: the
owner's entry points refuse a solved shadow, and the mint cannot meet one because
nothing of a shadow exists before its mint. `SolvedThumbnailStays` proves
`SolvedT10Frozen` the same way; `RefreshAfterCallback` writes the thumbnail of a shadow in
the stack `minting` only. `HistoryAppends` proves `CarrierHistory`: by `SingleHost` a carrier
is in its host's slot or in its checkpoint and never in both, so the state it has now is
one place's, and each action appends to that place or moves it whole. `CustodyImplemented`
proves `ImplementsCustody`: the initial states map to one another, and each of the actions
maps to a step of `Custody` or to a stutter. `SingleHost` and `CarriersFollowHost` are what make
the mapping well defined and give the abstract guards.

Its second half proves, for any number of shadows, users, contracts and messages, that
the composition is a behaviour of `ShadowToken` (`BridgeIsAUser`, so the theorems above
hold with the bridge around), that `OneLiveCopy` and `NothingStranded` are invariants
(`Conserved`, `RoundTripsOpen`), and that it implements `BridgedAsset` (`OneAsset`). It
assumes besides that the bridge's address is an account and no re-entering contract.
The invariants need each other: minting a mirror keeps `OneLiveCopy` because the
message it runs was the only one (`OneLiveCopy`) and because nothing can have left the
bridge's custody meanwhile; a burn is safe because no message was under way. One
strengthening is needed, `Wired`: a shadow is bridged only once the mirror's address is
set, which makes `unbridgeShadow`'s sender check pass. For the refinement,
`MappedLemma` computes the mapping in each of its four cases from `OneLiveCopy`.

`BridgeTyped` adds `BridgeTypeOK`.

`MirrorsShowTheRecord` proves what holds of mirrors whoever the users are: a mirror, or a
mint on its way, shows the record that `bridgeShadow` took. `MirrorsExact` proves
`MirrorFaithful` under the hypothesis that no user is a contract that re-enters the mint. Then
a solved shadow in custody is never inside its own mint, so nothing writes T10 after the
record was taken. Without the hypothesis the property is false (see `solved_thumbnail`), and
the run of `bridge` has no such contract either.

`Custody_proofs` proves the two invariants of the abstract specification, for any number of
slots, shadows and users: a slot never has two carriers and a carrier in a shadow is its
holder's. Both follow from one induction over the places of carriers; the lemmas `Unfolded`
and `UnfoldedNext` restate the properties without their set constructors, which is the form
the steps are proved in.

`VerifierRotation_proofs` proves, for any slot ids, verifiers, timelock and set of slots left
unset, the three properties of its run and two more: that the storage is well typed and that
no rotation leaves a slot without a verifier (`RotationLeavesAVerifier`). The inductive
invariant `Inv` adds three facts to the types: a slot that `setVerifier` has written is locked
(`Locked`), a proposal has stood no shorter than `proposedAt` says (`Stood`), and a pending
proposal has not been applied (`Unused`). `RotationIsTimelocked` follows: `setVerifier`
refuses a locked slot, and `apply` compares with `proposedAt`.

The tools. Each of the following modules has one inductive invariant, which was checked by TLC
before it was proved, and one lemma per action or group of actions.

`Workspace_proofs` holds for any number of processes, any selection of tools and any number
of edits. The invariant (`WorkInv`) adds four facts to the types. `Alone`: when two processes
are awake at once, both are in `overlapped`, so one that is not has met nobody.
`Undisturbed`: the proof lying in the directory of such a process, the witness it was made
from and everything it has read back are its own; the stages of `prove` differ in what of
this is already so, and stale files of an earlier process are why it must be said stage by
stage. `FixtureInv`: as long as no two processes have met, the files on disk are those of the builder
that `meta.json` names, or of one that has yet to write it. `WitnessInv`: a `Prover.toml` has a writer that still owes its removal.
From these follow `UndisturbedReadsItsOwn`, `FixtureOfOneBuilder` and `WitnessesAreRemoved`.

`Broadcasts_proofs` holds for any campaign that the contracts accept step by step, any accounts,
slots and carriers, and any number of faults, if the steps that are run again by mistake are past repeating
(`AgainIsPast`). The invariant (`BroadcastsInv`) says of each transaction in the pool that it
is of a step no later than the next and, if the contracts would take its step again
(not `NeverBack`), that the step is due and the nonce is the next: so at most one such exists,
and it is used up when the step is taken. Of a running script it says that it has still to send its main call, or
waits for it, or the step has been taken (`RunInv`), which is what makes the exit with 0 true. `StepsApart`
and `SkippedAfterwards` show that a script skips exactly when its step has been taken, one case
per script; `MinedInv` is the step that all outcomes of a transaction share. `StepsInOrder`,
`ScriptsCanBeRunAgain` and `PoolIsTyped` follow.

`Builders_proofs` holds for any slots, keys, salts and permutations. The invariant ties the
disk, the broadcasts and the chain: while the minter has the unsolved shadow, a slot is
empty, as minted, or the work of exactly one landed fixture, and that fixture is the one whose
name it bears (`Traced`). `HonestTransfers` needs it: two fixtures that both changed a slot could
not be told apart by a specification that names one.

`Fixtures_proofs` holds for any builders with any options, any runs and any number of edits. Its
hinge is `target/vk`: while a builder that proves here runs, each proof it holds is of the
version the key on disk is of (`Fits`), although other runs left keys of other versions there.
It needs two facts about the scripts: a builder that writes the key before each proof proves
no circuit twice, and one that writes it only if it is missing verifies each proof against it
at once and exits when an edit has made it a key of another version. `OneVerifier`, `FromOneRun`, `VerifiersFit` and `ManifestTellsV1` follow.
`FixturesReplay` adds an invariant keyed on the place in a builder's script: its list has the
proofs of the steps behind it and no others, of the witnesses those steps made (`RunMakes`), so
a whole fixture has one proof for each place (`FixtureMade`, with `Committed` for those of the
repository). The test's calls are replayed by a function that recurses over their number;
`ReplayExists` and `ReplayUnfolds` show that it exists and what one call does, with a set of
numbers for the induction (`SetInduction`), and one lemma per builder (`ReplayMutate` to
`ReplayBatchMax`, the last for any number of slots) follows the states from call to call.

`Readers_proofs` holds for any numbers of slots, foreign carriers and changes. The number a
state is stamped with is never given out again (`StampsAreNew`), so what a slot shows now and
showed when it was read, it showed all the time in between; `SinceStart`, `MintRead` and
`TransferRead` say this of each tool's reads, relative to the moment the tool began.
For the renderer, `LogNamesCarriers`, `RevealedBySolve` and `LogHasSolution` say that the
last palette and the last reveal of a carrier in the log are those of the solve, since solve's
events come after all others of its slots. The list of slots a tool walks is counted by
cardinality (`Place`), and `OrderLemma` shows that it has each slot once.
`PassedMints`, `PassedTransfers` and `SolvedRenders` follow. Assumption on the constants:
a mint fills at least one slot (the contract's `N_MINT_ATOMS` is 8).

What TLC alone shows:

* Liveness (`BridgedArrives`, `BurnedReturns`, `Completes`) and `ENABLED`, out of the prover's reach. Every
  other property of a passing run is stated by a theorem.

## 5. Not modelled, and what is left

* The end-to-end runners. Each is headed "STALE — v1" (`sepolia_e2e.py:2`, `run_bridge.py:2`,
  `anvil_t10_e2e.py:2`): it deploys the v2 stack, or its bridge, and calls v1 functions,
  `mintShadow` with loose arguments, `mutateSlot(uint256,uint8,uint64)`, `setShadowT10`,
  `solved(uint256)`, that v2 does not have, and `run_bridge.py:118` does not pass the
  `FEATURE_NFT` that `DeployShadowBridgeL2.s.sol:14` demands. At this commit each fails at its first
  such call. They await a rewrite, and a model of them would be one of contracts that are
  not here.
* Event history of the contracts: what an indexer reconstructs, in particular whether the
  chain of tips is unbroken when a held carrier is sold, and the salts that a buyer needs.
* `PoseLib` and z-permutation packing: pure functions on bytes. The states of the model carry
  no pose, so nothing here depends on them.
* Address setters of the contracts and the deploy scripts: linear, called once.
* The generated verifiers and Poseidon2 code (soundness and collision freedom are assumed),
  `face_disc` (a fixed convolutional network), the v1 circuits, which no v2 contract uses.
* Drawing, image and landmark tools, demos and generators of constants: no state that
  outlives a call.
* In `Readers`: a slot that a mint or transfer left empty may be filled and emptied before
  it is read, so a verifier's pass is a statement about filled slots. A render that began
  before a solve may mix palettes and slots; `SolvedRenderIsExact` speaks of renders that
  began after it.
* In `Fixtures`: `check_verifier_manifest.py` compares numbers of inputs only, and the hashes
  it computes are not compared with anything; `ManifestSeesV1` claims no more.
