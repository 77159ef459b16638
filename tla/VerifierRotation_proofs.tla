------------------------- MODULE VerifierRotation_proofs ------------------------
(***************************************************************************)
(* Proofs about VerifierRotation, for every set of slots that fits the     *)
(* bitmap, every timelock and every bound.                                 *)
(***************************************************************************)
EXTENDS VerifierRotation, TLAPS

(* What a slot's lock, proposal and times have to do with one another.     *)
Locked == \A s \in KnownSlots : sets[s] <= 1 /\ (sets[s] = 1 => s \in locks)
Stood == \A s \in SlotIds : standing[s] <= now /\ (since[s] # 0 => standing[s] <= since[s])
Unused == \A s \in SlotIds :
            applied[s] <= asked[s] /\ (proposed[s] # NoVerifier => applied[s] < asked[s])
Inv == TypeOK /\ Locked /\ Stood /\ Unused

USE SlotsAssumption, AccountsAssumption, TimeAssumption

LEMMA MaskIs == \A s \in KnownSlots : Mask(s) = {s}
BY DEF Mask

LEMMA InitInv == Init => Inv
<1>. SUFFICES ASSUME Init PROVE Inv
  OBVIOUS
<1>1. TypeOK
  <2>1. now \in 1..(MaxTime + 1)
    BY DEF Init
  <2>5. paused \in BOOLEAN
    BY DEF Init
  <2>2. active \in [KnownSlots -> Addresses] /\ proposed \in [SlotIds -> Addresses]
    BY DEF Init, Addresses
  <2>3. locks \subseteq 0..7
    BY DEF Init, Mask
  <2>4. /\ since \in [SlotIds -> Nat] /\ sets \in [KnownSlots -> Nat]
        /\ asked \in [SlotIds -> Nat] /\ applied \in [SlotIds -> Nat]
        /\ standing \in [SlotIds -> Nat]
    BY DEF Init
  <2>. QED BY <2>1, <2>2, <2>3, <2>4, <2>5 DEF TypeOK
<1>2. locks = KnownSlots \ Unset
  <2>1. locks = UNION {Mask(s) : s \in KnownSlots \ Unset}
    BY DEF Init
  <2>2. {Mask(s) : s \in KnownSlots \ Unset} = {{s} : s \in KnownSlots \ Unset}
    BY MaskIs
  <2>. QED BY <2>1, <2>2
<1>3. Locked
  <2>. SUFFICES ASSUME NEW s \in KnownSlots
                PROVE  sets[s] <= 1 /\ (sets[s] = 1 => s \in locks)
    BY DEF Locked
  <2>1. sets[s] = IF s \in Unset THEN 0 ELSE 1
    BY DEF Init
  <2>. QED BY <1>2, <2>1
<1>4. Stood /\ Unused
  BY DEF Init, Stood, Unused
<1>. QED BY <1>1, <1>3, <1>4 DEF Inv

(* A swap, by timelock or emergency.                                       *)
LEMMA SwapInv ==
  ASSUME Inv, NEW id \in SlotIds, Pending(id), Swap(id)
  PROVE  Inv'
<1>. USE DEF Swap, Cleared, WriteVerifierSlot
<1>1. TypeOK'
  BY DEF Inv, TypeOK, Addresses
<1>2. Locked'
  BY DEF Inv, Locked
<1>3. Stood'
  BY DEF Inv, TypeOK, Stood
<1>4. Unused'
  <2>. SUFFICES ASSUME NEW s \in SlotIds
                PROVE  applied'[s] <= asked'[s]
                       /\ (proposed'[s] # NoVerifier => applied'[s] < asked'[s])
    BY DEF Unused
  <2>1. CASE s = id
    BY <2>1 DEF Inv, TypeOK, Unused, Pending
  <2>2. CASE s # id
    BY <2>2 DEF Inv, TypeOK, Unused
  <2>. QED BY <2>1, <2>2
<1>. QED BY <1>1, <1>2, <1>3, <1>4 DEF Inv

LEMMA SetInv ==
  ASSUME Inv, NEW caller \in Accounts, NEW id \in SlotIds, NEW v \in Addresses,
         SetVerifier(caller, id, v)
  PROVE  Inv'
<1>. USE DEF SetVerifier, WriteVerifierSlot
<1>1. id \in KnownSlots /\ id \notin locks /\ locks' = locks \cup {id}
  BY MaskIs
<1>2. TypeOK'
  <2>1. locks' \subseteq 0..7 /\ id \in 0..7
    BY <1>1 DEF Inv, TypeOK
  <2>2. active' \in [KnownSlots -> Addresses] /\ sets' \in [KnownSlots -> Nat]
    BY <1>1 DEF Inv, TypeOK, Addresses
  <2>. QED BY <2>1, <2>2 DEF Inv, TypeOK
<1>3. Locked'
  <2>. SUFFICES ASSUME NEW s \in KnownSlots
                PROVE  sets'[s] <= 1 /\ (sets'[s] = 1 => s \in locks')
    BY DEF Locked
  <2>1. CASE s = id
    BY <1>1, <2>1 DEF Inv, TypeOK, Locked
  <2>2. CASE s # id
    BY <1>1, <2>2 DEF Inv, TypeOK, Locked
  <2>. QED BY <2>1, <2>2
<1>4. Stood' /\ Unused'
  BY DEF Inv, Stood, Unused
<1>. QED BY <1>2, <1>3, <1>4 DEF Inv

LEMMA ProposeInv ==
  ASSUME Inv, NEW caller \in Accounts, NEW id \in SlotIds, NEW v \in Addresses,
         Propose(caller, id, v)
  PROVE  Inv'
<1>. USE DEF Propose, ProposedAt
<1>1. TypeOK'
  BY DEF Inv, TypeOK, Addresses
<1>2. Locked'
  BY DEF Inv, Locked
<1>3. Stood'
  <2>. SUFFICES ASSUME NEW s \in SlotIds
                PROVE  standing'[s] <= now' /\ (since'[s] # 0 => standing'[s] <= since'[s])
    BY DEF Stood
  <2>1. CASE s = id
    BY <2>1 DEF Inv, TypeOK, Stood
  <2>2. CASE s # id
    BY <2>2 DEF Inv, TypeOK, Stood
  <2>. QED BY <2>1, <2>2
<1>4. Unused'
  <2>. SUFFICES ASSUME NEW s \in SlotIds
                PROVE  applied'[s] <= asked'[s]
                       /\ (proposed'[s] # NoVerifier => applied'[s] < asked'[s])
    BY DEF Unused
  <2>1. CASE s = id
    BY <2>1 DEF Inv, TypeOK, Unused
  <2>2. CASE s # id
    BY <2>2 DEF Inv, TypeOK, Unused
  <2>. QED BY <2>1, <2>2
<1>. QED BY <1>1, <1>2, <1>3, <1>4 DEF Inv

LEMMA CancelInv ==
  ASSUME Inv, NEW caller \in Accounts, NEW id \in SlotIds, CancelRotation(caller, id)
  PROVE  Inv'
<1>. USE DEF CancelRotation, Cleared
<1>1. TypeOK'
  BY DEF Inv, TypeOK, Addresses
<1>2. Locked'
  BY DEF Inv, Locked
<1>3. Stood'
  BY DEF Inv, TypeOK, Stood
<1>4. Unused'
  BY DEF Inv, TypeOK, Unused
<1>. QED BY <1>1, <1>2, <1>3, <1>4 DEF Inv

LEMMA TickInv == ASSUME Inv, Tick PROVE Inv'
<1>. USE DEF Tick
<1>1. TypeOK'
  BY DEF Inv, TypeOK
<1>2. Stood'
  BY DEF Inv, TypeOK, Stood
<1>3. Locked' /\ Unused'
  BY DEF Inv, Locked, Unused
<1>. QED BY <1>1, <1>2, <1>3 DEF Inv

LEMMA PauseInv ==
  ASSUME Inv, NEW caller \in Accounts, Pause(caller) \/ Unpause(caller)
  PROVE  Inv'
BY DEF Pause, Unpause, Inv, TypeOK, Locked, Stood, Unused

LEMMA StepInv == ASSUME Inv, [Next]_vars PROVE Inv'
<1>1. CASE UNCHANGED vars
  BY <1>1 DEF vars, Inv, TypeOK, Locked, Stood, Unused
<1>2. CASE Tick
  BY <1>2, TickInv
<1>3. ASSUME NEW caller \in Accounts, Pause(caller) \/ Unpause(caller) PROVE Inv'
  BY <1>3, PauseInv
<1>4. ASSUME NEW caller \in Accounts, NEW id \in SlotIds, NEW v \in Addresses,
             SetVerifier(caller, id, v)
      PROVE  Inv'
  BY <1>4, SetInv
<1>5. ASSUME NEW caller \in Accounts, NEW id \in SlotIds, NEW v \in Addresses,
             Propose(caller, id, v)
      PROVE  Inv'
  BY <1>5, ProposeInv
<1>6. ASSUME NEW caller \in Accounts, NEW id \in SlotIds, CancelRotation(caller, id)
      PROVE  Inv'
  BY <1>6, CancelInv
<1>7. ASSUME NEW caller \in Accounts, NEW id \in SlotIds, ApplyImmediate(caller, id)
      PROVE  Inv'
  BY <1>7, SwapInv DEF ApplyImmediate
<1>8. ASSUME NEW id \in SlotIds, Apply(id) PROVE Inv'
  BY <1>8, SwapInv DEF Apply
<1>. QED BY <1>1, <1>2, <1>3, <1>4, <1>5, <1>6, <1>7, <1>8 DEF Next

LEMMA Invariance == Spec => []Inv
BY InitInv, StepInv, PTL DEF Spec

(* The variables of the contract keep their types.                         *)
THEOREM Typed == Spec => []TypeOK
<1>1. Inv => TypeOK
  BY DEF Inv
<1>. QED BY <1>1, Invariance, PTL

(* setVerifier writes each slot once: the bitmap is wide enough for every  *)
(* set of slots within its eight bits, and the ids beyond write nothing.   *)
THEOREM SetVerifierIsOneShot == Spec => []SetOnce
<1>1. Inv => SetOnce
  BY DEF Inv, Locked, SetOnce
<1>. QED BY <1>1, Invariance, PTL

(* A proposal is used once, however proposals, cancellations, timelocked   *)
(* and emergency applications follow one another.                          *)
THEOREM ProposalsAreUsedOnce == Spec => []ProposalUsedOnce
<1>1. Inv => ProposalUsedOnce
  BY DEF Inv, Unused, ProposalUsedOnce
<1>. QED BY <1>1, Invariance, PTL

(* Once a slot is set, its verifier is replaced outside a pause only by a  *)
(* proposal that stood for the whole timelock.                             *)
THEOREM RotationIsTimelocked == Spec => TimelockHeld
<1>. DEFINE Shown(s) ==
       active'[s] # active[s] /\ active[s] # NoVerifier /\ ~paused =>
         /\ active'[s] = proposed[s]
         /\ now >= standing[s] + Timelock
<1>1. ASSUME Inv, [Next]_vars, NEW s \in KnownSlots \cap locks PROVE Shown(s)
  <2>1. CASE UNCHANGED vars
    BY <2>1 DEF vars
  <2>2. CASE Tick
    BY <2>2 DEF Tick
  <2>3. ASSUME NEW caller \in Accounts, Pause(caller) \/ Unpause(caller) PROVE Shown(s)
    BY <2>3 DEF Pause, Unpause
  <2>4. ASSUME NEW caller \in Accounts, NEW id \in SlotIds, NEW v \in Addresses,
               SetVerifier(caller, id, v)
        PROVE  Shown(s)
    <3>1. id \in KnownSlots /\ id \notin locks
      BY <2>4, MaskIs DEF SetVerifier, WriteVerifierSlot
    <3>2. s # id /\ active'[s] = active[s]
      BY <1>1, <2>4, <3>1 DEF Inv, TypeOK, SetVerifier, WriteVerifierSlot
    <3>. QED BY <3>2
  <2>5. ASSUME NEW caller \in Accounts, NEW id \in SlotIds, NEW v \in Addresses,
               Propose(caller, id, v)
        PROVE  Shown(s)
    BY <2>5 DEF Propose
  <2>6. ASSUME NEW caller \in Accounts, NEW id \in SlotIds, CancelRotation(caller, id)
        PROVE  Shown(s)
    BY <2>6 DEF CancelRotation
  <2>7. ASSUME NEW caller \in Accounts, NEW id \in SlotIds, ApplyImmediate(caller, id)
        PROVE  Shown(s)
    BY <2>7 DEF ApplyImmediate
  <2>8. ASSUME NEW id \in SlotIds, Apply(id) PROVE Shown(s)
    <3>1. CASE s = id
      <4>1. active'[s] = proposed[s]
        BY <1>1, <2>8, <3>1 DEF Inv, TypeOK, Apply, Swap, WriteVerifierSlot
      <4>2. now >= since[id] + Timelock /\ standing[id] <= since[id]
        BY <1>1, <2>8 DEF Inv, Stood, Apply, Expired
      <4>3. since[id] \in Nat /\ standing[id] \in Nat /\ now \in Nat
        BY <1>1 DEF Inv, TypeOK
      <4>. QED BY <3>1, <4>1, <4>2, <4>3
    <3>2. CASE s # id
      BY <1>1, <2>8, <3>2 DEF Inv, TypeOK, Apply, Swap, WriteVerifierSlot
    <3>. QED BY <3>1, <3>2
  <2>. QED BY <1>1, <2>1, <2>2, <2>3, <2>4, <2>5, <2>6, <2>7, <2>8 DEF Next
<1>2. Inv /\ [Next]_vars => [\A s \in KnownSlots \cap locks : Shown(s)]_vars
  BY <1>1
<1>. QED BY <1>2, Invariance, PTL DEF Spec, TimelockHeld

(* No rotation puts address(0) in the place of a verifier.                 *)
THEOREM RotationsSetAVerifier == Spec => RotationLeavesAVerifier
<1>. DEFINE Left(s) == applied'[s] # applied[s] => active'[s] # NoVerifier
<1>1. ASSUME Inv, NEW id \in SlotIds, Pending(id), Swap(id), NEW s \in KnownSlots
      PROVE  Left(s)
  <2>1. CASE s = id
    BY <1>1, <2>1 DEF Inv, TypeOK, Pending, Swap, WriteVerifierSlot
  <2>2. CASE s # id
    BY <1>1, <2>2 DEF Inv, TypeOK, Swap
  <2>. QED BY <2>1, <2>2
<1>2. ASSUME Inv, [Next]_vars, NEW s \in KnownSlots PROVE Left(s)
  <2>1. CASE applied' = applied
    BY <2>1
  <2>2. CASE \E id \in SlotIds : Pending(id) /\ Swap(id)
    BY <1>1, <1>2, <2>2
  <2>3. \/ applied' = applied
        \/ \E id \in SlotIds : Pending(id) /\ Swap(id)
    BY <1>2 DEF Next, vars, Tick, Pause, Unpause, SetVerifier, Propose,
                CancelRotation, ApplyImmediate, Apply
  <2>. QED BY <2>1, <2>2, <2>3
<1>3. ASSUME Inv, [Next]_vars PROVE [\A s \in KnownSlots : Left(s)]_vars
  BY <1>2, <1>3
<1>. QED BY <1>3, Invariance, PTL DEF Spec, RotationLeavesAVerifier
================================================================================
