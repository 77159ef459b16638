-------------------------------- MODULE Builders --------------------------------
(***************************************************************************)
(* The on-chain fixture builders (tools/build_*_onchain.py, slot_state.py, *)
(* recipient_b_state.py): every builder rebuilds from seeds what it takes  *)
(* the shadow to be, proves the next operation against that, and leaves a  *)
(* fixture on disk that is broadcast later.  Nothing of it reads the chain.*)
(*                                                                         *)
(* One shadow, minted by Owner.  A live state stands for its hash, a       *)
(* manifest for the thumbnail T10 that a fixture's second proof binds.     *)
(***************************************************************************)
EXTENDS Naturals, Sequences, FiniteSets

CONSTANTS
  Slots,      \* the slots of a manifest
  MintSlots,  \* the slots a mint fills, 0..7
  Salts,      \* --salt of a batch, which also names its fixture here
  Perms,      \* z-order permutations
  Owner,      \* the key of the owner seed that the transfer specs name
  Keys,       \* the keys of every --owner-seed given, Owner's among them
  Recipient,  \* the key of the recipient seed
  Empty,      \* live state of an empty slot
  NoPerm,     \* zIndexCommit zero
  None        \* no fixture, no key

ASSUME SlotsAssumption == MintSlots \subseteq Slots
ASSUME KeysAssumption ==
  Owner \in Keys /\ Recipient \notin Keys /\ None \notin Keys \cup {Recipient}
ASSUME EmptyAssumption == NoPerm \notin Perms

VARIABLES
  mintFixture,  \* the owner key of the mint fixture on disk, None before
  fixtures,     \* the mutate and batch fixtures on disk, by name
  pending,      \* the last extract, zindex, transfer or solve fixture built
  lsh,          \* on chain: the manifest
  zIndexCommit, \* on chain
  ecdhPub,      \* on chain: the owner's key, None before the mint
  solved,       \* on chain
  landed,       \* history: what each named fixture held when it last landed
  died          \* history: builders that died on arguments true to the chain

disk == <<mintFixture, fixtures, pending>>
chain == <<lsh, zIndexCommit, ecdhPub, solved>>
vars == <<disk, chain, landed, died>>

Names == ({"mutate"} \X MintSlots) \cup ({"batch"} \X Salts)

(* --slot-a and --slot-b must differ.                                      *)
Pairs == {pair \in SUBSET MintSlots : Cardinality(pair) = 2}

Overlay(f, g) == [i \in DOMAIN f |-> IF i \in DOMAIN g THEN g[i] ELSE f[i]]
--------------------------------------------------------------------------------
(* Live states.  The chain tip folds one event per operation, whose        *)
(* encryption randomness comes from a label: <<"mutate">> from the seed    *)
(* alone, a batch's from its salt.                                         *)
MintState(s, key) == [face |-> s, key |-> key, image |-> "minted", tip |-> <<>>]

Stepped(state, event) == [state EXCEPT !.tip = Append(@, event)]

MutateWitness(s, key) == Stepped(MintState(s, key), <<"mutate">>)
BatchWitness(s, key, salt) == Stepped(MintState(s, key), <<"batch", salt>>)

(* A new pose and a new 10x10 image, whatever the carrier showed.          *)
InsertWitness(s, key) ==
  [Stepped(MintState(s, key), <<"insert">>) EXCEPT !.image = "inserted"]

TransferWitness(state, to) ==
  [Stepped(state, <<"transfer", to>>) EXCEPT !.key = to]

(* mutate_slot refuses a mutation that changes anything but the pose.      *)
PoseOnly(old, new) == old.image = new.image

MintArray(key) ==
  [i \in Slots |-> IF i \in MintSlots THEN MintState(i, key) ELSE Empty]
--------------------------------------------------------------------------------
(* What a fixture binds: `key` when a proof in it does, the states it      *)
(* replaces and what it puts there, the manifest and the permutation of    *)
(* its T10 proof.                                                          *)
Fixture(kind, key, old, new, post, z) ==
  [kind |-> kind, key |-> key, old |-> old, new |-> new, post |-> post, z |-> z]

(* --pre-mutated-fixture, repeated: later arguments win.                   *)
OnDisk(pre) == \A k \in DOMAIN pre : fixtures[pre[k]] # None
Overrides(pre) ==
  [i \in UNION {DOMAIN fixtures[pre[k]].new : k \in DOMAIN pre} |->
     LET Touching == {k \in DOMAIN pre : i \in DOMAIN fixtures[pre[k]].new}
         last == CHOOSE k \in Touching : \A m \in Touching : m <= k
     IN fixtures[pre[last]].new[i]]

PreLists(names) == {<<>>} \cup {<<n>> : n \in names}
                   \cup {<<p[1], p[2]>> : p \in {q \in names \X names : q[1] # q[2]}}

Singles == {"mutate"} \X MintSlots

MutateFixture(s) ==
  LET new == [i \in {s} |-> MutateWitness(s, mintFixture)]
  IN Fixture("mutate", mintFixture, [i \in {s} |-> MintState(s, mintFixture)], new,
             Overlay(MintArray(mintFixture), new), NoPerm)

(* The batch builder never compares what it rebuilds with the mint fixture.*)
BatchFixture(pair, salt, key, pre) ==
  LET new == [i \in pair |-> BatchWitness(i, key, salt)]
  IN Fixture("mutate", key, [i \in pair |-> MintState(i, key)], new,
             Overlay(Overlay(MintArray(mintFixture), Overrides(pre)), new), NoPerm)

(* An extraction is bound by its T10 proof alone.                          *)
ExtractFixture(s, z, pre) ==
  LET new == [i \in {s} |-> Empty]
  IN Fixture("extract", None, <<>>, new,
             Overlay(Overlay(MintArray(mintFixture), Overrides(pre)), new), z)

ZIndexFixture(array, perm) == Fixture("zindex", None, <<>>, <<>>, array, perm)

TransferFixture(occupied, z) ==
  LET new == [i \in DOMAIN occupied |-> TransferWitness(occupied[i], Recipient)]
      none == [i \in Slots |-> Empty]
  IN Fixture("transfer", Owner, Overlay(none, occupied), new, Overlay(none, new), z)

(* Every slot not extracted is taken to be as minted, all others empty.    *)
SolveArray(extracted, key) ==
  [i \in Slots |-> IF i \in MintSlots \ extracted THEN MintState(i, key) ELSE Empty]

SolveFixture(extracted, perm, key) ==
  LET array == SolveArray(extracted, key)
  IN Fixture("solve", key, array, <<>>, array, perm)
--------------------------------------------------------------------------------
(* slot_state.build_occupied_slots: a spec names the source of each        *)
(* occupied slot, "mint" or a fixture, and each rebuilt state is compared  *)
(* with the new_lsh of that fixture.  The spec carries one owner seed, so  *)
(* a fixture of another key is refused.                                    *)
Sources(s) ==
  {<<"mint">>} \cup
  {n \in Names : fixtures[n] # None /\ s \in DOMAIN fixtures[n].new}

(* Faulty variant: a batch rebuilt with the label of a single mutation.    *)
Rebuilt_BatchAsSingle(s, source, key) ==
  IF source[1] = "mint" THEN MintState(s, key) ELSE MutateWitness(s, key)

Rebuilt(s, source, key) ==
  CASE source[1] = "mint"   -> MintState(s, key)
    [] source[1] = "mutate" -> MutateWitness(s, key)
    [] source[1] = "batch"  -> BatchWitness(s, key, source[2])

Rebuilds(s, source, key) ==
  /\ source \in Sources(s)
  /\ s \in MintSlots
  /\ source \in Names => fixtures[source].new[s] = Rebuilt(s, source, key)

(* The spec of an operator who writes down what has landed.                *)
LandedOn(s) == {n \in Names : landed[n] # None /\ s \in DOMAIN landed[n].new}
HonestSource(s) ==
  IF LandedOn(s) = {} THEN <<"mint">> ELSE CHOOSE n \in LandedOn(s) : TRUE
Carried == {s \in Slots : lsh[s] # Empty}
HonestSpec == [s \in Carried |-> HonestSource(s)]

OccupiedSlots(spec, key) == [s \in DOMAIN spec |-> Rebuilt(s, spec[s], key)]
--------------------------------------------------------------------------------
Init ==
  /\ mintFixture = None
  /\ fixtures = [n \in Names |-> None]
  /\ pending = None
  /\ lsh = [i \in Slots |-> Empty]
  /\ zIndexCommit = NoPerm
  /\ ecdhPub = None
  /\ solved = FALSE
  /\ landed = [n \in Names |-> None]
  /\ died = {}

(* build_atomic_mint_fixture.  The output directory is named after --seed, *)
(* so another --owner-seed overwrites the same fixture.                    *)
BuildMint(key) ==
  /\ mintFixture' = key
  /\ UNCHANGED <<fixtures, pending, chain, landed, died>>

(* build_mutate_slot_onchain: its reconstruction must equal the mint       *)
(* fixture's, so only the seed that fixture was built with gets through.   *)
BuildMutate(s) ==
  /\ mintFixture # None
  /\ PoseOnly(MintState(s, mintFixture), MutateWitness(s, mintFixture))
  /\ fixtures' = [fixtures EXCEPT ![<<"mutate", s>>] = MutateFixture(s)]
  /\ UNCHANGED <<mintFixture, pending, chain, landed, died>>

BuildBatch(pair, salt, key, pre) ==
  /\ mintFixture # None
  /\ OnDisk(pre)
  /\ \A i \in pair : PoseOnly(MintState(i, key), BatchWitness(i, key, salt))
  /\ fixtures' = [fixtures EXCEPT ![<<"batch", salt>>] =
                    BatchFixture(pair, salt, key, pre)]
  /\ UNCHANGED <<mintFixture, pending, chain, landed, died>>

Build(fixture) ==
  /\ pending' = fixture
  /\ UNCHANGED <<mintFixture, fixtures, chain, landed, died>>

BuildExtract(s, z, pre) ==
  /\ mintFixture # None
  /\ OnDisk(pre)
  /\ Build(ExtractFixture(s, z, pre))

(* The array is the mint's, or a full one given on the command line: here  *)
(* one an earlier fixture recorded, or the one on chain.                   *)
BuildZIndex(array, perm) ==
  /\ mintFixture # None
  /\ Build(ZIndexFixture(array, perm))

(* build_insert_onchain proves a new image with the mutate_slot circuit.   *)
BuildInsert(s, host) ==
  /\ mintFixture = Owner
  /\ lsh[host] = Empty
  /\ ecdhPub = Owner
  /\ ~PoseOnly(MintState(s, mintFixture), InsertWitness(s, mintFixture))
  /\ died' = died \cup {"insert"}
  /\ UNCHANGED <<disk, chain, landed>>

BuildTransfer(spec, z) ==
  /\ mintFixture # None
  /\ \A s \in DOMAIN spec : Rebuilds(s, spec[s], Owner)
  /\ Build(TransferFixture(OccupiedSlots(spec, Owner), z))

BuildSolve(extracted, perm, key) ==
  /\ mintFixture # None
  /\ Build(SolveFixture(extracted, perm, key))

(* The loader every recipient-side builder starts with reads the chain id  *)
(* out of the transfer fixture and expects its envelopes to be keyed by    *)
(* poseidon2_hash_2 of the shared point.                                   *)
TransferMeta == {"host_shadow_id", "recipient_seed", "recipient_sk", "new_lsh",
                 "c2_per_slot", "occupied_idxs", "z_index_commit"}
LoaderReads == {"host_shadow_id", "chain_id", "recipient_seed", "recipient_sk",
                "new_lsh", "c2_per_slot", "occupied_idxs", "z_index_commit"}
EnvelopeKey(state) == <<"kdf", "PLAINTEXT", state>>
ExpectedKey(state) == <<"poseidon2_hash_2", state>>

RecipientLoads(f) ==
  /\ LoaderReads \subseteq TransferMeta
  /\ \A i \in DOMAIN f.new : EnvelopeKey(f.new[i]) = ExpectedKey(f.new[i])

RecipientBuild ==
  /\ pending # None
  /\ pending.kind = "transfer"
  /\ ecdhPub = Recipient
  /\ ~RecipientLoads(pending)
  /\ died' = died \cup {"recipient"}
  /\ UNCHANGED <<disk, chain, landed>>
--------------------------------------------------------------------------------
(* The contract's side of a broadcast.                                     *)
Accepts(f) ==
  /\ ~solved
  /\ ecdhPub # None
  /\ f.key \in {None, ecdhPub}
  /\ \A i \in DOMAIN f.old : lsh[i] = f.old[i]
  /\ \A i \in DOMAIN f.new : lsh[i] # Empty

BindsT10(f, z) == f.post = Overlay(lsh, f.new) /\ f.z = z

BroadcastMint ==
  /\ ecdhPub = None
  /\ mintFixture # None
  /\ ecdhPub' = mintFixture
  /\ lsh' = MintArray(mintFixture)
  /\ UNCHANGED <<zIndexCommit, solved, disk, landed, died>>

BroadcastMutate(n) ==
  LET f == fixtures[n]
  IN /\ f # None
     /\ Accepts(f)
     /\ BindsT10(f, zIndexCommit)
     /\ lsh' = Overlay(lsh, f.new)
     /\ landed' = [landed EXCEPT ![n] = f]
     /\ UNCHANGED <<zIndexCommit, ecdhPub, solved, disk, died>>

BroadcastExtract ==
  /\ pending # None
  /\ pending.kind = "extract"
  /\ Accepts(pending)
  /\ BindsT10(pending, zIndexCommit)
  /\ lsh' = Overlay(lsh, pending.new)
  /\ UNCHANGED <<zIndexCommit, ecdhPub, solved, disk, landed, died>>

BroadcastZIndex ==
  /\ pending # None
  /\ pending.kind = "zindex"
  /\ Accepts(pending)
  /\ BindsT10(pending, pending.z)
  /\ zIndexCommit' = pending.z
  /\ UNCHANGED <<lsh, ecdhPub, solved, disk, landed, died>>

BroadcastTransfer ==
  /\ pending # None
  /\ pending.kind = "transfer"
  /\ Accepts(pending)
  /\ BindsT10(pending, zIndexCommit)
  /\ lsh' = Overlay(lsh, pending.new)
  /\ ecdhPub' = Recipient
  /\ UNCHANGED <<zIndexCommit, solved, disk, landed, died>>

BroadcastSolve ==
  /\ pending # None
  /\ pending.kind = "solve"
  /\ Accepts(pending)
  /\ pending.z = zIndexCommit
  /\ solved' = TRUE
  /\ lsh' = [i \in Slots |-> Empty]
  /\ UNCHANGED <<zIndexCommit, ecdhPub, disk, landed, died>>

(* What depends on the chain, the operator copies from it by hand when he  *)
(* builds; it may be out of date when he broadcasts.                       *)
BuildStep ==
  \/ \E key \in Keys : BuildMint(key)
  \/ \E s \in MintSlots : BuildMutate(s)
  \/ \E pair \in Pairs, salt \in Salts, key \in Keys, pre \in PreLists(Singles) :
       BuildBatch(pair, salt, key, pre)
  \/ \E s \in MintSlots, pre \in PreLists(Names) : BuildExtract(s, zIndexCommit, pre)
  \/ \E perm \in Perms :
       \/ BuildZIndex(lsh, perm)
       \/ BuildZIndex(MintArray(mintFixture), perm)
  \/ \E s \in MintSlots, host \in Slots : BuildInsert(s, host)
  \/ \E spec \in [Carried -> {<<"mint">>} \cup Names] :
       BuildTransfer(spec, zIndexCommit)
  \/ \E extracted \in SUBSET MintSlots, perm \in Perms, key \in Keys :
       BuildSolve(extracted, perm, key)
  \/ RecipientBuild

BroadcastStep ==
  \/ BroadcastMint
  \/ \E n \in Names : BroadcastMutate(n)
  \/ BroadcastExtract
  \/ BroadcastZIndex
  \/ BroadcastTransfer
  \/ BroadcastSolve

Next == BuildStep \/ BroadcastStep

Spec == Init /\ [][Next]_vars
--------------------------------------------------------------------------------
(* What slot_state.py is for: while no fixture that landed has been built  *)
(* again under its name, a slot spec that names the fixtures that landed   *)
(* rebuilds the manifest of the chain, and the transfer built from it is   *)
(* accepted.                                                               *)
LandedStillOnDisk == \A n \in Names : landed[n] # None => fixtures[n] = landed[n]

HonestTransferLands ==
  ecdhPub = Owner /\ ~solved /\ LandedStillOnDisk =>
    LET f == TransferFixture(OccupiedSlots(HonestSpec, Owner), zIndexCommit)
    IN /\ \A s \in Carried : Rebuilds(s, HonestSpec[s], Owner)
       /\ Accepts(f)
       /\ BindsT10(f, zIndexCommit)

(* Documented (docs/SEPOLIA_TEST_MATRIX.md): a slot spec drives the solve  *)
(* builder too for a non-trivial pre-state.  Then the minter of a shadow   *)
(* with a permutation could always build a solve that the contract takes.  *)
SlotSpecDrivesSolve ==
  ecdhPub = Owner /\ ~solved /\ LandedStillOnDisk /\ zIndexCommit # NoPerm =>
    \E extracted \in SUBSET MintSlots : Accepts(SolveFixture(extracted, zIndexCommit, Owner))

(* Documented: the canonical chain ends with an insertion.                 *)
InsertsBuild == "insert" \notin died

(* Documented: the loader works on the fixtures of what was broadcast.     *)
RecipientLoadsTransfer == "recipient" \notin died
================================================================================
