------------------------------ MODULE SlotState ------------------------------
(***************************************************************************)
(* What a `liveStateHash` commits to, and what the Noir circuits of the v2 *)
(* pipeline let a prover do with it.                                       *)
(*                                                                         *)
(* On chain a live state is one field element, the Poseidon2 sponge of a   *)
(* plaintext commitment, a ciphertext commitment, an ECIES ephemeral key, a*)
(* mutation count and a chain tip.  Poseidon2 is taken to be collision     *)
(* free, so the hash is modelled by the tuple it commits to; the ciphertext*)
(* and its ephemeral key are abstracted to the public key they are         *)
(* encrypted to, the plaintext to its pixels (the part no circuit but the  *)
(* mint may choose), and the chain tip, a hash over the previous tip, to   *)
(* the sequence of events it was extended by.                              *)
(***************************************************************************)
EXTENDS Naturals, Sequences

CONSTANTS
  Keys,      \* Grumpkin public keys a user may register
  CurveKeys, \* those that lie on the curve: `register` does not check, circuits do
  Pixels,    \* plaintext payloads: dimensions and palette indices
  MaxCount,  \* largest value of a uint16 mutation count, 65535 in the code
  Zero       \* the EVM's zero value: address(0), bytes32(0), an unset id

ASSUME KeysAssumption == CurveKeys \subseteq Keys /\ Zero \notin Keys
ASSUME MaxCountAssumption == MaxCount \in Nat

(* The events that extend a chain tip, one per circuit that does so.       *)
Events == {"MINT", "MUTATE", "TRANSFER", "HELD_TRANSFER"}

LiveState == [pixels : Pixels, key : Keys, count : Nat, tip : Seq(Events)]

(* landmark_regions_v2: a slot born encrypted to the minter, count zero,   *)
(* tip seeded with one MINT event.                                         *)
MintedState(pix, key) ==
  [pixels |-> pix, key |-> key, count |-> 0, tip |-> <<"MINT">>]

(* Every circuit that takes a live state as input derives the old keystream*)
(* key from the owner's secret key, so it has a witness only if the slot is*)
(* encrypted to that owner's public key.                                   *)
OpensFor(live, key) == live.key = key

(* mutate_slot, n times in a row: same pixels, re-encrypted to the same    *)
(* owner, n counts and n events later.                                     *)
Mutated(live, n) ==
  [pixels |-> live.pixels, key |-> live.key, count |-> live.count + n,
   tip |-> live.tip \o [j \in 1..n |-> "MUTATE"]]

(* transfer_shadow_v2 (one occupied slot) and transfer_feature_v2: same    *)
(* pixels, re-encrypted to the recipient, one count and one event later.   *)
Rekeyed(live, key, event) ==
  [pixels |-> live.pixels, key |-> key, count |-> live.count + 1,
   tip |-> Append(live.tip, event)]

(* A count the contracts can hold in a uint16.                             *)
FitsUint16(n) == n <= MaxCount
==============================================================================
