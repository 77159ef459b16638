---------------------------- MODULE VerifierRotation ----------------------------
(***************************************************************************)
(* Setting and rotating the verifiers of a contract: PausableMixin with    *)
(* the storage of ShadowToken, or with the single verifier of FeatureNFT.  *)
(* Each proof the contract accepts is checked by the verifier of its slot. *)
(***************************************************************************)
EXTENDS Naturals

CONSTANTS
  SlotIds,    \* model bound: the uint8 slot ids the deployer passes
  KnownSlots, \* the ids that _writeVerifierSlot knows, 0..6 in ShadowToken
  Unset,      \* the slots that the deployment leaves without a verifier
  Verifiers,  \* model bound: the addresses that are set or proposed
  Deployed,   \* the verifier that the deployment sets
  NoVerifier, \* address(0)
  Accounts,   \* the accounts that send transactions
  Deployer,   \* the one that deployed the contract
  Timelock,   \* TIMELOCK_DURATION
  MaxTime,    \* model bound: the last moment
  MaxAsked    \* model bound: proposals for a slot

ASSUME SlotsAssumption ==
  /\ SlotIds \subseteq 0..255
  /\ KnownSlots \subseteq SlotIds \cap 0..7
  /\ Unset \subseteq KnownSlots
ASSUME AccountsAssumption ==
  Deployer \in Accounts /\ NoVerifier \notin Verifiers /\ Deployed \in Verifiers
ASSUME TimeAssumption == Timelock \in Nat /\ MaxTime \in Nat /\ MaxAsked \in Nat

VARIABLES
  now,      \* block.timestamp
  paused,   \* paused
  active,   \* the verifier of each known slot
  locks,    \* the bits of _verifierLocks
  proposed, \* proposedVerifier
  since,    \* proposedAt
  sets,     \* history: how often setVerifier succeeded for each slot
  asked,    \* history: how often a verifier was proposed for each slot
  applied,  \* history: how often a proposal was applied to each slot
  standing  \* history: since when proposed has the value it has

state == <<now, paused, active, locks, proposed, since>>
vars == <<now, paused, active, locks, proposed, since, sets, asked, applied, standing>>

Addresses == Verifiers \cup {NoVerifier}

(* Faulty variant: a bitmap of four bits.                                  *)
Mask_Narrow(id) == {id} \cap 0..3

(* uint8(1) << slotId: no bit at all from 8 on.                            *)
Mask(id) == {id} \cap 0..7

Init ==
  /\ now = 1
  /\ paused = FALSE
  /\ active = [s \in KnownSlots |-> IF s \in Unset THEN NoVerifier ELSE Deployed]
  /\ locks = UNION {Mask(s) : s \in KnownSlots \ Unset}
  /\ proposed = [s \in SlotIds |-> NoVerifier]
  /\ since = [s \in SlotIds |-> 0]
  /\ sets = [s \in KnownSlots |-> IF s \in Unset THEN 0 ELSE 1]
  /\ asked = [s \in SlotIds |-> 0]
  /\ applied = [s \in SlotIds |-> 0]
  /\ standing = [s \in SlotIds |-> 1]

Tick ==
  /\ now <= MaxTime
  /\ now' = now + 1
  /\ UNCHANGED <<paused, active, locks, proposed, since, sets, asked, applied, standing>>

Pause(caller) ==
  /\ caller = Deployer /\ ~paused
  /\ paused' = TRUE
  /\ UNCHANGED <<now, active, locks, proposed, since, sets, asked, applied, standing>>

Unpause(caller) ==
  /\ caller = Deployer /\ paused
  /\ paused' = FALSE
  /\ UNCHANGED <<now, active, locks, proposed, since, sets, asked, applied, standing>>
--------------------------------------------------------------------------------

(* _writeVerifierSlot: reverts with the whole call on an unknown slot.     *)
WriteVerifierSlot(id, v) ==
  /\ id \in KnownSlots
  /\ active' = [active EXCEPT ![id] = v]

SetVerifier(caller, id, v) ==
  /\ caller = Deployer
  /\ Mask(id) \cap locks = {}
  /\ locks' = locks \cup Mask(id)
  /\ WriteVerifierSlot(id, v)
  /\ sets' = [sets EXCEPT ![id] = @ + 1]
  /\ UNCHANGED <<now, paused, proposed, since, asked, applied, standing>>

(* Faulty variant: a proposal for a slot with one pending keeps its time.  *)
ProposedAt_Kept(id) == IF since[id] = 0 THEN now ELSE since[id]
ProposedAt(id) == now

Propose(caller, id, v) ==
  /\ caller = Deployer
  /\ asked[id] < MaxAsked
  /\ proposed' = [proposed EXCEPT ![id] = v]
  /\ since' = [since EXCEPT ![id] = ProposedAt(id)]
  /\ asked' = [asked EXCEPT ![id] = @ + 1]
  /\ standing' = IF v = proposed[id] THEN standing ELSE [standing EXCEPT ![id] = now]
  /\ UNCHANGED <<now, paused, active, locks, sets, applied>>

Cleared(id) ==
  /\ proposed' = [proposed EXCEPT ![id] = NoVerifier]
  /\ since' = [since EXCEPT ![id] = 0]
  /\ standing' = [standing EXCEPT ![id] = now]

CancelRotation(caller, id) ==
  /\ caller = Deployer
  /\ Cleared(id)
  /\ UNCHANGED <<now, paused, active, locks, sets, asked, applied>>

Expired(id) == now >= since[id] + Timelock

(* Faulty variant: an applied proposal stays pending.                      *)
Swap_Pending(id) ==
  /\ WriteVerifierSlot(id, proposed[id])
  /\ applied' = [applied EXCEPT ![id] = @ + 1]
  /\ UNCHANGED <<now, paused, locks, proposed, since, sets, asked, standing>>

Swap(id) ==
  /\ WriteVerifierSlot(id, proposed[id])
  /\ Cleared(id)
  /\ applied' = [applied EXCEPT ![id] = @ + 1]
  /\ UNCHANGED <<now, paused, locks, sets, asked>>

Pending(id) == proposed[id] # NoVerifier

(* Anybody may apply.                                                      *)
Apply(id) ==
  /\ Pending(id) /\ since[id] # 0
  /\ Expired(id)
  /\ Swap(id)

ApplyImmediate(caller, id) ==
  /\ caller = Deployer /\ paused
  /\ Pending(id)
  /\ Swap(id)

Next ==
  \/ Tick
  \/ \E caller \in Accounts :
       \/ Pause(caller) \/ Unpause(caller)
       \/ \E id \in SlotIds :
            \/ \E v \in Addresses : SetVerifier(caller, id, v) \/ Propose(caller, id, v)
            \/ CancelRotation(caller, id)
            \/ ApplyImmediate(caller, id)
  \/ \E id \in SlotIds : Apply(id)

Spec == Init /\ [][Next]_vars
--------------------------------------------------------------------------------
TypeOK ==
  /\ now \in 1..(MaxTime + 1)
  /\ paused \in BOOLEAN
  /\ active \in [KnownSlots -> Addresses]
  /\ locks \subseteq 0..7
  /\ proposed \in [SlotIds -> Addresses]
  /\ since \in [SlotIds -> Nat]
  /\ sets \in [KnownSlots -> Nat]
  /\ asked \in [SlotIds -> Nat]
  /\ applied \in [SlotIds -> Nat]
  /\ standing \in [SlotIds -> Nat]

(* Once setVerifier has set a slot, its verifier is only replaced by one   *)
(* that has been on show, with nothing else proposed in between, for the   *)
(* whole of the timelock (PausableMixin: "Subsequent rotation").           *)
TimelockHeld ==
  [][\A s \in KnownSlots \cap locks :
       active'[s] # active[s] /\ active[s] # NoVerifier /\ ~paused =>
         /\ active'[s] = proposed[s]
         /\ now >= standing[s] + Timelock]_vars

(* setVerifier writes each slot once, whatever ids the deployer passes it: *)
(* an id past the bitmap locks nothing, but writes nothing either.         *)
SetOnce == \A s \in KnownSlots : sets[s] <= 1

(* A proposal is applied once, by timelock or emergency, also when it was  *)
(* cancelled, repeated or replaced before.                                 *)
ProposalUsedOnce == \A s \in SlotIds : applied[s] <= asked[s]

(* No rotation takes the verifier of a slot away: address(0) may be        *)
(* proposed and is never applied.                                          *)
RotationLeavesAVerifier ==
  [][\A s \in KnownSlots : applied'[s] # applied[s] => active'[s] # NoVerifier]_vars
================================================================================
