---------------------------- MODULE Builders_proofs ----------------------------
(***************************************************************************)
(* A transfer built from an honest slot spec lands, for any slots, keys    *)
(* and salts: what fills a slot is either what the mint put there or the   *)
(* work of exactly one landed fixture, because the T10 proof of a later    *)
(* fixture is built from the mint and from single mutations only.          *)
(***************************************************************************)
EXTENDS Builders, TLAPS

(* What a builder can rebuild of a slot without the batch that changed it. *)
PlainStates(i) ==
  {MintState(i, key) : key \in Keys} \cup {MutateWitness(i, key) : key \in Keys}

NamedFixture(n, f) ==
  /\ f.key \in Keys
  /\ DOMAIN f.new \subseteq MintSlots
  /\ DOMAIN f.old = DOMAIN f.new
  /\ n[1] = "mutate" => DOMAIN f.new = {n[2]}
  /\ \A i \in DOMAIN f.new : /\ f.old[i] = MintState(i, f.key)
                             /\ f.new[i] = Rebuilt(i, n, f.key)
  /\ n[1] = "batch" =>
       \A i \in Slots \ DOMAIN f.new : f.post[i] \in PlainStates(i) \cup {Empty}

DiskInv ==
  /\ mintFixture \in Keys \cup {None}
  /\ fixtures = [n \in Names |-> fixtures[n]]
  /\ \A n \in Names : fixtures[n] = None \/ NamedFixture(n, fixtures[n])

LandedInv ==
  /\ landed = [n \in Names |-> landed[n]]
  /\ \A n \in Names : landed[n] = None \/ NamedFixture(n, landed[n])
  /\ ecdhPub = None => \A n \in Names : landed[n] = None

(* An extraction empties one slot and fills none.                          *)
PendingInv ==
  pending # None /\ pending.kind = "extract" =>
    \E s \in MintSlots : pending.new = [i \in {s} |-> Empty]

(* What fills a slot is as minted, or by the one fixture that landed on it.*)
Traced(s) ==
  \/ lsh[s] = Empty
  \/ /\ s \in MintSlots
     /\ lsh[s] = MintState(s, ecdhPub)
     /\ LandedOn(s) = {}
  \/ /\ s \in MintSlots
     /\ \E n \in Names : /\ LandedOn(s) = {n}
                         /\ lsh[s] = Rebuilt(s, n, ecdhPub)
                         /\ landed[n].new[s] = lsh[s]

ChainInv ==
  /\ lsh = [i \in Slots |-> lsh[i]]
  /\ ecdhPub \in Keys \cup {None, Recipient}
  /\ ecdhPub \in Keys /\ ~solved => \A s \in Slots : Traced(s)

BuildersInv == DiskInv /\ LandedInv /\ PendingInv /\ ChainInv
--------------------------------------------------------------------------------
(* The chain tip tells a slot as minted, mutated alone and in a batch apart*)
LEMMA TipsDiffer ==
  ASSUME NEW s, NEW key, NEW other, NEW salt
  PROVE  /\ MutateWitness(s, key) # MintState(s, other)
         /\ BatchWitness(s, key, salt) # MintState(s, other)
         /\ BatchWitness(s, key, salt) # MutateWitness(s, other)
<1>1. MintState(s, other).tip = <<>>
  BY DEF MintState
<1>2. /\ MutateWitness(s, key).tip = <<<<"mutate">>>>
      /\ MutateWitness(s, other).tip = <<<<"mutate">>>>
  BY DEF MutateWitness, Stepped, MintState
<1>3. BatchWitness(s, key, salt).tip = <<<<"batch", salt>>>>
  BY DEF BatchWitness, Stepped, MintState
<1>4. <<<<"mutate">>>> # <<>> /\ <<<<"batch", salt>>>> # <<>>
  OBVIOUS
<1>5. <<<<"batch", salt>>>> # <<<<"mutate">>>>
  <2>1. <<<<"batch", salt>>>>[1][1] = "batch" /\ <<<<"mutate">>>>[1][1] = "mutate"
    OBVIOUS
  <2> QED BY <2>1
<1> QED BY <1>1, <1>2, <1>3, <1>4, <1>5

(* A name says which of the two builders wrote the fixture.                *)
LEMMA NamesLemma ==
  ASSUME NEW n \in Names
  PROVE  /\ n[1] \in {"mutate", "batch"}
         /\ n[1] = "mutate" => n[2] \in MintSlots /\ n = <<"mutate", n[2]>>
         /\ n[1] = "batch" => n[2] \in Salts /\ n = <<"batch", n[2]>>
         /\ n # <<"mint">>
BY DEF Names

LEMMA RebuiltLemma ==
  ASSUME NEW n \in Names, NEW s, NEW key
  PROVE  /\ n[1] = "mutate" => Rebuilt(s, n, key) = MutateWitness(s, key)
         /\ n[1] = "batch" => Rebuilt(s, n, key) = BatchWitness(s, key, n[2])
         /\ \A other : Rebuilt(s, n, key) # MintState(s, other)
<1>1. n[1] = "mutate" \/ n[1] = "batch"
  BY NamesLemma
<1>2. n[1] = "mutate" => Rebuilt(s, n, key) = MutateWitness(s, key)
  BY DEF Rebuilt
<1>3. n[1] = "batch" => Rebuilt(s, n, key) = BatchWitness(s, key, n[2])
  BY DEF Rebuilt
<1> QED BY <1>1, <1>2, <1>3, TipsDiffer

LEMMA OverlayLemma ==
  ASSUME NEW f, NEW g
  PROVE  /\ DOMAIN Overlay(f, g) = DOMAIN f
         /\ Overlay(f, g) = [i \in DOMAIN f |-> Overlay(f, g)[i]]
         /\ \A i \in DOMAIN f : Overlay(f, g)[i] = IF i \in DOMAIN g THEN g[i] ELSE f[i]
BY DEF Overlay

(* --pre-mutated-fixture only ever takes states from fixtures on disk.     *)
LEMMA OverridesLemma ==
  ASSUME NEW names \in SUBSET Names, NEW pre \in PreLists(names), OnDisk(pre),
         NEW i \in DOMAIN Overrides(pre)
  PROVE  \E n \in names : /\ fixtures[n] # None
                          /\ i \in DOMAIN fixtures[n].new
                          /\ Overrides(pre)[i] = fixtures[n].new[i]
<1> DEFINE Touching == {k \in DOMAIN pre : i \in DOMAIN fixtures[pre[k]].new}
           last == CHOOSE k \in Touching : \A m \in Touching : m <= k
<1>1. DOMAIN pre \subseteq {1, 2} /\ \A k \in DOMAIN pre : pre[k] \in names
  BY DEF PreLists
<1>2. \E k \in Touching : TRUE
  BY DEF Overrides
<1>3. \E k \in Touching : \A m \in Touching : m <= k
  BY <1>1, <1>2
<1>4. last \in Touching
  BY <1>3
<1>5. Overrides(pre)[i] = fixtures[pre[last]].new[i]
  BY DEF Overrides
<1> QED BY <1>1, <1>4, <1>5 DEF OnDisk
--------------------------------------------------------------------------------
LEMMA BuildersInit == Init => BuildersInv
<1> SUFFICES ASSUME Init PROVE BuildersInv
  OBVIOUS
<1>1. None \notin Keys
  BY KeysAssumption
<1> QED BY <1>1 DEF Init, BuildersInv, DiskInv, LandedInv, PendingInv, ChainInv

LEMMA BuildMutateStep ==
  ASSUME BuildersInv, NEW s \in MintSlots, BuildMutate(s)
  PROVE  DiskInv'
<1>1. mintFixture \in Keys /\ mintFixture' = mintFixture
  BY DEF BuildMutate, BuildersInv, DiskInv
<1>2. <<"mutate", s>> \in Names
  BY DEF Names
<1>3. fixtures' = [fixtures EXCEPT ![<<"mutate", s>>] = MutateFixture(s)]
  BY DEF BuildMutate
<1>4. NamedFixture(<<"mutate", s>>, MutateFixture(s))
  <2> DEFINE f == MutateFixture(s)
  <2>1. /\ f.key = mintFixture /\ DOMAIN f.new = {s} /\ DOMAIN f.old = {s}
        /\ f.old[s] = MintState(s, mintFixture) /\ f.new[s] = MutateWitness(s, mintFixture)
    BY DEF MutateFixture, Fixture
  <2>2. Rebuilt(s, <<"mutate", s>>, mintFixture) = MutateWitness(s, mintFixture)
    BY <1>2, RebuiltLemma
  <2> QED BY <1>1, <2>1, <2>2 DEF NamedFixture
<1>5. \A n \in Names : fixtures'[n] = None \/ NamedFixture(n, fixtures'[n])
  BY <1>2, <1>3, <1>4 DEF BuildersInv, DiskInv
<1>6. \A n \in Names : (fixtures[n] = None \/ NamedFixture(n, fixtures[n]))'
  BY <1>5 DEF NamedFixture, PlainStates, Rebuilt, MintState, MutateWitness, BatchWitness
<1> QED BY <1>1, <1>2, <1>3, <1>6 DEF BuildersInv, DiskInv

(* The post-state of a batch is of the mint, single mutations and itself.  *)
LEMMA BuildBatchStep ==
  ASSUME BuildersInv, NEW pair \in Pairs, NEW salt \in Salts, NEW key \in Keys,
         NEW pre \in PreLists(Singles), BuildBatch(pair, salt, key, pre)
  PROVE  DiskInv'
<1> DEFINE name == <<"batch", salt>>
           f == BatchFixture(pair, salt, key, pre)
<1>1. mintFixture \in Keys /\ mintFixture' = mintFixture
  BY DEF BuildBatch, BuildersInv, DiskInv
<1>2. name \in Names /\ Singles \subseteq Names
  BY DEF Names, Singles
<1>3. fixtures' = [fixtures EXCEPT ![name] = f] /\ OnDisk(pre)
  BY DEF BuildBatch
<1>4. pair \subseteq MintSlots
  BY DEF Pairs
<1>5. /\ f.key = key /\ DOMAIN f.new = pair /\ DOMAIN f.old = pair
      /\ \A i \in pair : /\ f.old[i] = MintState(i, key)
                        /\ f.new[i] = BatchWitness(i, key, salt)
      /\ f.post = Overlay(Overlay(MintArray(mintFixture), Overrides(pre)), f.new)
  BY DEF BatchFixture, Fixture
<1>6. ASSUME NEW i \in Slots \ pair
      PROVE  f.post[i] \in PlainStates(i) \cup {Empty}
  <2>1. DOMAIN MintArray(mintFixture) = Slots
    BY DEF MintArray
  <2>2. f.post[i] = IF i \in DOMAIN Overrides(pre) THEN Overrides(pre)[i]
                    ELSE MintArray(mintFixture)[i]
    BY <1>5, <2>1, OverlayLemma
  <2>3. CASE i \in DOMAIN Overrides(pre)
    <3>1. PICK n \in Singles : /\ fixtures[n] # None /\ i \in DOMAIN fixtures[n].new
                              /\ Overrides(pre)[i] = fixtures[n].new[i]
      BY <1>2, <1>3, <2>3, OverridesLemma
    <3>2. n \in Names /\ n[1] = "mutate"
      BY <1>2 DEF Singles
    <3>3. NamedFixture(n, fixtures[n])
      BY <3>1, <3>2 DEF BuildersInv, DiskInv
    <3>4. fixtures[n].new[i] = MutateWitness(i, fixtures[n].key)
      BY <3>1, <3>2, <3>3, RebuiltLemma DEF NamedFixture
    <3>5. fixtures[n].key \in Keys
      BY <3>3 DEF NamedFixture
    <3> QED BY <2>2, <2>3, <3>1, <3>4, <3>5 DEF PlainStates
  <2>4. CASE i \notin DOMAIN Overrides(pre)
    BY <1>1, <2>2, <2>4 DEF MintArray, PlainStates
  <2> QED BY <2>3, <2>4
<1>7. NamedFixture(name, f)
  <2>1. name[1] = "batch" /\ name[2] = salt
    OBVIOUS
  <2>2. \A i \in pair : Rebuilt(i, name, key) = BatchWitness(i, key, salt)
    BY <1>2, <2>1, RebuiltLemma
  <2> HIDE DEF name, f
  <2> QED BY <1>4, <1>5, <1>6, <2>1, <2>2 DEF NamedFixture
<1>8. \A n \in Names : fixtures'[n] = None \/ NamedFixture(n, fixtures'[n])
  <2> HIDE DEF name, f
  <2> QED BY <1>2, <1>3, <1>7 DEF BuildersInv, DiskInv
<1>9. \A n \in Names : (fixtures[n] = None \/ NamedFixture(n, fixtures[n]))'
  BY <1>8 DEF NamedFixture, PlainStates, Rebuilt, MintState, MutateWitness, BatchWitness
<1> HIDE DEF name, f
<1> QED BY <1>1, <1>2, <1>3, <1>9 DEF BuildersInv, DiskInv

LEMMA BuildExtractStep ==
  ASSUME NEW s \in MintSlots, NEW pre, BuildExtract(s, zIndexCommit, pre)
  PROVE  PendingInv'
<1>1. pending' = ExtractFixture(s, zIndexCommit, pre)
  BY DEF BuildExtract, Build
<1>2. pending'.new = [i \in {s} |-> Empty]
  BY <1>1 DEF ExtractFixture, Fixture
<1> QED BY <1>2 DEF PendingInv

(* No tool writes to the chain, none but two to the named fixtures.        *)
LEMMA BuildStepLemma == BuildersInv /\ BuildStep => BuildersInv'
<1> SUFFICES ASSUME BuildersInv, BuildStep PROVE BuildersInv'
  OBVIOUS
<1>1. UNCHANGED <<chain, landed>>
  BY DEF BuildStep, BuildMint, BuildMutate, BuildBatch, BuildExtract, BuildZIndex, BuildInsert,
         BuildTransfer, BuildSolve, RecipientBuild, Build
<1>2. LandedInv'
  BY <1>1 DEF chain, BuildersInv, LandedInv, NamedFixture, PlainStates, Rebuilt, MintState,
              MutateWitness, BatchWitness
<1>3. ChainInv'
  <2>1. UNCHANGED <<lsh, ecdhPub, solved, landed>>
    BY <1>1 DEF chain
  <2>2. \A s : LandedOn(s)' = LandedOn(s)
    BY <2>1 DEF LandedOn
  <2>3. \A s, n, key : Rebuilt(s, n, key)' = Rebuilt(s, n, key)
    BY DEF Rebuilt, MintState, MutateWitness, BatchWitness
  <2>4. \A s : Traced(s) => Traced(s)'
    BY <2>1, <2>2, <2>3 DEF Traced, MintState
  <2> QED BY <2>1, <2>4 DEF BuildersInv, ChainInv
<1>4. DiskInv /\ UNCHANGED <<mintFixture, fixtures>> => DiskInv'
  BY DEF DiskInv, NamedFixture, PlainStates, Rebuilt, MintState, MutateWitness, BatchWitness
<1>5. PendingInv /\ UNCHANGED pending => PendingInv'
  BY DEF PendingInv
<1>6. ASSUME NEW key \in Keys, BuildMint(key)
      PROVE  DiskInv' /\ PendingInv'
  <2>1. mintFixture' \in Keys /\ UNCHANGED <<fixtures, pending>>
    BY <1>6 DEF BuildMint
  <2>2. \A n \in Names : NamedFixture(n, fixtures[n]) => NamedFixture(n, fixtures[n])'
    BY <2>1 DEF NamedFixture, PlainStates, Rebuilt, MintState, MutateWitness, BatchWitness
  <2> QED BY <1>5, <2>1, <2>2 DEF BuildersInv, DiskInv
<1>7. ASSUME NEW s \in MintSlots, BuildMutate(s)
      PROVE  DiskInv' /\ PendingInv'
  <2>1. UNCHANGED pending
    BY <1>7 DEF BuildMutate
  <2> QED BY <1>5, <1>7, <2>1, BuildMutateStep DEF BuildersInv
<1>8. ASSUME NEW pair \in Pairs, NEW salt \in Salts, NEW key \in Keys,
             NEW pre \in PreLists(Singles), BuildBatch(pair, salt, key, pre)
      PROVE  DiskInv' /\ PendingInv'
  <2>1. UNCHANGED pending
    BY <1>8 DEF BuildBatch
  <2> QED BY <1>5, <1>8, <2>1, BuildBatchStep DEF BuildersInv
<1>9. ASSUME NEW s \in MintSlots, NEW pre \in PreLists(Names), BuildExtract(s, zIndexCommit, pre)
      PROVE  DiskInv' /\ PendingInv'
  <2>1. UNCHANGED <<mintFixture, fixtures>>
    BY <1>9 DEF BuildExtract, Build
  <2> QED BY <1>4, <1>9, <2>1, BuildExtractStep DEF BuildersInv
<1>10. ASSUME NEW array, NEW perm, BuildZIndex(array, perm)
       PROVE  DiskInv' /\ PendingInv'
  <2>1. UNCHANGED <<mintFixture, fixtures>> /\ pending'.kind = "zindex"
    BY <1>10 DEF BuildZIndex, Build, ZIndexFixture, Fixture
  <2>2. PendingInv'
    BY <2>1 DEF PendingInv
  <2> QED BY <1>4, <2>1, <2>2 DEF BuildersInv
<1>11. ASSUME NEW s, NEW host, BuildInsert(s, host)
       PROVE  DiskInv' /\ PendingInv'
  BY <1>4, <1>5, <1>11 DEF BuildInsert, disk, BuildersInv
<1>12. ASSUME NEW spec, BuildTransfer(spec, zIndexCommit)
       PROVE  DiskInv' /\ PendingInv'
  <2>1. UNCHANGED <<mintFixture, fixtures>> /\ pending'.kind = "transfer"
    BY <1>12 DEF BuildTransfer, Build, TransferFixture, Fixture
  <2>2. PendingInv'
    BY <2>1 DEF PendingInv
  <2> QED BY <1>4, <2>1, <2>2 DEF BuildersInv
<1>13. ASSUME NEW extracted \in SUBSET MintSlots, NEW perm \in Perms, NEW key \in Keys,
              BuildSolve(extracted, perm, key)
       PROVE  DiskInv' /\ PendingInv'
  <2>1. UNCHANGED <<mintFixture, fixtures>> /\ pending'.kind = "solve"
    BY <1>13 DEF BuildSolve, Build, SolveFixture, Fixture
  <2>2. PendingInv'
    BY <2>1 DEF PendingInv
  <2> QED BY <1>4, <2>1, <2>2 DEF BuildersInv
<1>14. ASSUME RecipientBuild
       PROVE  DiskInv' /\ PendingInv'
  BY <1>4, <1>5, <1>14 DEF RecipientBuild, disk, BuildersInv
<1>15. DiskInv' /\ PendingInv'
  BY <1>6, <1>7, <1>8, <1>9, <1>10, <1>11, <1>12, <1>13, <1>14 DEF BuildStep
<1> QED BY <1>2, <1>3, <1>15 DEF BuildersInv
--------------------------------------------------------------------------------
LEMMA BroadcastMintStep ==
  ASSUME BuildersInv, BroadcastMint
  PROVE  LandedInv' /\ ChainInv'
<1>1. /\ ecdhPub = None /\ mintFixture \in Keys /\ ecdhPub' = mintFixture
      /\ lsh' = MintArray(mintFixture) /\ UNCHANGED <<solved, landed>>
  BY DEF BroadcastMint, BuildersInv, DiskInv
<1>2. \A n \in Names : landed[n] = None
  BY <1>1 DEF BuildersInv, LandedInv
<1>3. \A s : LandedOn(s)' = {}
  BY <1>1, <1>2 DEF LandedOn
<1>4. LandedInv'
  BY <1>1, <1>2 DEF BuildersInv, LandedInv
<1>5. /\ lsh' = [i \in Slots |-> lsh'[i]]
      /\ \A i \in Slots : lsh'[i] = IF i \in MintSlots THEN MintState(i, mintFixture) ELSE Empty
  BY <1>1 DEF MintArray
<1>6. \A s \in Slots : Traced(s)'
  BY <1>1, <1>3, <1>5 DEF Traced
<1> QED BY <1>1, <1>4, <1>5, <1>6 DEF ChainInv

(* A fixture that lands replaces slots as minted, and where it lands again *)
(* under the name of one that landed, its T10 proof cannot hold what the   *)
(* other left.                                                             *)
LEMMA BroadcastMutateStep ==
  ASSUME BuildersInv, NEW n \in Names, BroadcastMutate(n)
  PROVE  LandedInv' /\ ChainInv'
<1> DEFINE f == fixtures[n]
<1>1. /\ f # None /\ Accepts(f) /\ f.post = Overlay(lsh, f.new)
      /\ lsh' = Overlay(lsh, f.new) /\ landed' = [landed EXCEPT ![n] = f]
      /\ UNCHANGED <<ecdhPub, solved>>
  BY DEF BroadcastMutate, BindsT10
<1>2. NamedFixture(n, f)
  BY <1>1 DEF BuildersInv, DiskInv
<1>3. f.key = ecdhPub /\ ecdhPub \in Keys /\ ~solved /\ ecdhPub # None
  BY <1>1, <1>2, KeysAssumption DEF Accepts, NamedFixture
<1>4. DOMAIN lsh = Slots /\ DOMAIN landed = Names /\ DOMAIN f.new \subseteq MintSlots
  BY <1>2 DEF BuildersInv, ChainInv, LandedInv, NamedFixture
<1>5. \A s \in Slots : Traced(s)
  BY <1>3 DEF BuildersInv, ChainInv
<1>6. \A i \in Slots : lsh'[i] = IF i \in DOMAIN f.new THEN Rebuilt(i, n, ecdhPub) ELSE lsh[i]
  BY <1>1, <1>2, <1>3, <1>4, OverlayLemma DEF NamedFixture
<1>7. landed'[n] = f /\ \A m \in Names \ {n} : landed'[m] = landed[m]
  BY <1>1, <1>4
<1>8. ASSUME NEW s \in DOMAIN f.new
      PROVE  Traced(s)'
  <2>1. s \in MintSlots /\ s \in Slots
    BY <1>4, SlotsAssumption
  <2>2. lsh[s] = MintState(s, ecdhPub) /\ lsh[s] # Empty
    BY <1>1, <1>2, <1>3 DEF Accepts, NamedFixture
  <2>3. LandedOn(s) = {}
    <3>1. \A m \in Names : lsh[s] # Rebuilt(s, m, ecdhPub)
      BY <2>2, RebuiltLemma
    <3> QED BY <1>5, <2>1, <2>2, <3>1 DEF Traced
  <2>4. LandedOn(s)' = {n}
    BY <1>1, <1>7, <2>3 DEF LandedOn
  <2>5. lsh'[s] = Rebuilt(s, n, ecdhPub) /\ landed'[n].new[s] = lsh'[s]
    BY <1>2, <1>3, <1>6, <1>7, <2>1 DEF NamedFixture
  <2> QED BY <1>1, <2>1, <2>4, <2>5 DEF Traced
<1>9. ASSUME NEW s \in Slots \ DOMAIN f.new, lsh[s] # Empty
      PROVE  n \notin LandedOn(s)
  <2> SUFFICES ASSUME n \in LandedOn(s) PROVE FALSE
    OBVIOUS
  <2>1. /\ landed[n] # None /\ s \in DOMAIN landed[n].new
    BY DEF LandedOn
  <2>2. NamedFixture(n, landed[n])
    BY <2>1 DEF BuildersInv, LandedInv
  <2>3. lsh[s] = Rebuilt(s, n, ecdhPub)
    BY <1>5, <1>9 DEF Traced
  <2>4. CASE n[1] = "mutate"
    BY <1>2, <2>1, <2>2, <2>4 DEF NamedFixture
  <2>5. CASE n[1] = "batch"
    <3>1. lsh[s] = BatchWitness(s, ecdhPub, n[2])
      BY <2>3, <2>5, RebuiltLemma
    <3>2. f.post[s] = lsh[s]
      BY <1>1, <1>4, OverlayLemma
    <3>3. f.post[s] \in PlainStates(s)
      BY <1>2, <1>9, <2>5, <3>2 DEF NamedFixture
    <3> QED BY <3>1, <3>2, <3>3, TipsDiffer DEF PlainStates
  <2> QED BY <2>4, <2>5, NamesLemma
<1>10. ASSUME NEW s \in Slots \ DOMAIN f.new
       PROVE  Traced(s)'
  <2>1. lsh'[s] = lsh[s]
    BY <1>6
  <2>2. CASE lsh[s] = Empty
    BY <2>1, <2>2 DEF Traced
  <2>3. CASE lsh[s] # Empty
    <3>1. n \notin LandedOn(s)
      BY <1>9, <2>3
    <3>2. LandedOn(s)' = LandedOn(s)
      BY <1>7, <3>1 DEF LandedOn
    <3>3. \A m \in LandedOn(s) : landed'[m] = landed[m]
      BY <1>7, <3>1 DEF LandedOn
    <3>4. Traced(s)
      BY <1>5
    <3> QED BY <1>1, <2>1, <2>3, <3>2, <3>3, <3>4 DEF Traced
  <2> QED BY <2>2, <2>3
<1>11. LandedInv'
  <2>1. landed' = [m \in Names |-> landed'[m]]
    BY <1>1, <1>4 DEF BuildersInv, LandedInv
  <2>2. \A m \in Names : landed'[m] = None \/ NamedFixture(m, landed'[m])
    BY <1>2, <1>7 DEF BuildersInv, LandedInv
  <2> HIDE DEF f
  <2>3. \A m \in Names : (landed[m] = None \/ NamedFixture(m, landed[m]))'
    BY <2>2 DEF NamedFixture
  <2> QED BY <1>1, <1>3, <2>1, <2>3 DEF LandedInv
<1>12. lsh' = [i \in Slots |-> lsh'[i]]
  BY <1>1, <1>4, OverlayLemma
<1> HIDE DEF f
<1> QED BY <1>1, <1>3, <1>8, <1>10, <1>11, <1>12 DEF ChainInv

LEMMA BroadcastExtractStep ==
  ASSUME BuildersInv, BroadcastExtract
  PROVE  ChainInv'
<1>1. /\ pending # None /\ pending.kind = "extract" /\ ~solved
      /\ lsh' = Overlay(lsh, pending.new) /\ UNCHANGED <<ecdhPub, solved, landed>>
  BY DEF BroadcastExtract, Accepts
<1>2. PICK s \in MintSlots : pending.new = [i \in {s} |-> Empty]
  BY <1>1 DEF BuildersInv, PendingInv
<1>3. DOMAIN lsh = Slots /\ DOMAIN pending.new = {s}
  BY <1>2 DEF BuildersInv, ChainInv
<1>4. /\ lsh' = [i \in Slots |-> lsh'[i]]
      /\ \A i \in Slots : lsh'[i] = IF i = s THEN Empty ELSE lsh[i]
  BY <1>1, <1>2, <1>3, OverlayLemma
<1>5. \A t : LandedOn(t)' = LandedOn(t)
  BY <1>1 DEF LandedOn
<1>6. \A t \in Slots : Traced(t) => Traced(t)'
  BY <1>1, <1>4, <1>5 DEF Traced
<1> QED BY <1>1, <1>4, <1>6 DEF BuildersInv, ChainInv

LEMMA BroadcastStepLemma == BuildersInv /\ BroadcastStep => BuildersInv'
<1> SUFFICES ASSUME BuildersInv, BroadcastStep PROVE BuildersInv'
  OBVIOUS
<1>1. UNCHANGED disk
  BY DEF BroadcastStep, BroadcastMint, BroadcastMutate, BroadcastExtract, BroadcastZIndex,
         BroadcastTransfer, BroadcastSolve
<1>2. DiskInv'
  BY <1>1 DEF disk, BuildersInv, DiskInv, NamedFixture
<1>3. PendingInv'
  BY <1>1 DEF disk, BuildersInv, PendingInv
<1>4. UNCHANGED landed /\ (ecdhPub' = None => ecdhPub = None) => LandedInv'
  BY DEF BuildersInv, LandedInv, NamedFixture
<1>5. CASE BroadcastMint
  BY <1>2, <1>3, <1>5, BroadcastMintStep DEF BuildersInv
<1>6. ASSUME NEW n \in Names, BroadcastMutate(n)
      PROVE  BuildersInv'
  BY <1>2, <1>3, <1>6, BroadcastMutateStep DEF BuildersInv
<1>7. CASE BroadcastExtract
  <2>1. UNCHANGED <<landed, ecdhPub>>
    BY <1>7 DEF BroadcastExtract
  <2> QED BY <1>2, <1>3, <1>4, <1>7, <2>1, BroadcastExtractStep DEF BuildersInv
<1>8. CASE BroadcastZIndex
  <2>1. UNCHANGED <<lsh, landed, ecdhPub, solved>>
    BY <1>8 DEF BroadcastZIndex
  <2>2. \A t : LandedOn(t)' = LandedOn(t)
    BY <2>1 DEF LandedOn
  <2>3. \A t : Traced(t) => Traced(t)'
    BY <2>1, <2>2 DEF Traced
  <2>4. ChainInv'
    BY <2>1, <2>3 DEF BuildersInv, ChainInv
  <2> QED BY <1>2, <1>3, <1>4, <2>1, <2>4 DEF BuildersInv
<1>9. CASE BroadcastTransfer
  <2>1. /\ lsh' = Overlay(lsh, pending.new) /\ ecdhPub' = Recipient /\ UNCHANGED landed
        /\ Recipient \notin Keys /\ Recipient # None
    BY <1>9, KeysAssumption DEF BroadcastTransfer
  <2>2. lsh' = [i \in Slots |-> lsh'[i]]
    BY <2>1, OverlayLemma DEF BuildersInv, ChainInv
  <2>3. ChainInv'
    BY <2>1, <2>2 DEF ChainInv
  <2> QED BY <1>2, <1>3, <1>4, <2>1, <2>3 DEF BuildersInv
<1>10. CASE BroadcastSolve
  <2>1. /\ lsh' = [i \in Slots |-> Empty] /\ solved' = TRUE /\ UNCHANGED <<ecdhPub, landed>>
    BY <1>10 DEF BroadcastSolve
  <2>2. ChainInv'
    BY <2>1 DEF BuildersInv, ChainInv
  <2> QED BY <1>2, <1>3, <1>4, <2>1, <2>2 DEF BuildersInv
<1> QED BY <1>5, <1>6, <1>7, <1>8, <1>9, <1>10 DEF BroadcastStep

LEMMA BuildersStutter == BuildersInv /\ UNCHANGED vars => BuildersInv'
<1> SUFFICES ASSUME BuildersInv, UNCHANGED vars PROVE BuildersInv'
  OBVIOUS
<1>1. UNCHANGED <<mintFixture, fixtures, pending, lsh, ecdhPub, solved, landed>>
  BY DEF vars, disk, chain
<1>2. DiskInv' /\ LandedInv'
  BY <1>1 DEF BuildersInv, DiskInv, LandedInv, NamedFixture
<1>3. PendingInv'
  BY <1>1 DEF BuildersInv, PendingInv
<1>4. \A t : LandedOn(t)' = LandedOn(t)
  BY <1>1 DEF LandedOn
<1>5. ChainInv'
  BY <1>1, <1>4 DEF BuildersInv, ChainInv, Traced
<1> QED BY <1>2, <1>3, <1>5 DEF BuildersInv

(* What the tools leave on disk and what landed of it: every slot of the   *)
(* chain is as minted, gone, or the work of one fixture that landed.       *)
THEOREM BuildersInductive == Spec => []BuildersInv
<1>1. BuildersInv /\ [Next]_vars => BuildersInv'
  BY BuildStepLemma, BroadcastStepLemma, BuildersStutter DEF Next
<1> QED BY <1>1, BuildersInit, PTL DEF Spec
--------------------------------------------------------------------------------
(* The source an honest spec names for a slot rebuilds what is on chain.   *)
LEMMA HonestRebuild ==
  ASSUME BuildersInv, ecdhPub = Owner, ~solved, LandedStillOnDisk, NEW s \in Carried
  PROVE  /\ Rebuilds(s, HonestSource(s), Owner)
         /\ Rebuilt(s, HonestSource(s), Owner) = lsh[s]
<1>1. Traced(s) /\ lsh[s] # Empty
  BY KeysAssumption DEF Carried, BuildersInv, ChainInv
<1>2. CASE /\ s \in MintSlots
           /\ lsh[s] = MintState(s, Owner)
           /\ LandedOn(s) = {}
  <2>1. HonestSource(s) = <<"mint">>
    BY <1>2 DEF HonestSource
  <2>2. <<"mint">> \notin Names
    BY NamesLemma
  <2>3. Rebuilt(s, <<"mint">>, Owner) = MintState(s, Owner)
    BY DEF Rebuilt
  <2> QED BY <1>2, <2>1, <2>2, <2>3 DEF Rebuilds, Sources
<1>3. CASE /\ s \in MintSlots
           /\ \E n \in Names : /\ LandedOn(s) = {n}
                               /\ lsh[s] = Rebuilt(s, n, Owner)
                               /\ landed[n].new[s] = lsh[s]
  <2>1. PICK n \in Names : /\ LandedOn(s) = {n}
                          /\ lsh[s] = Rebuilt(s, n, Owner)
                          /\ landed[n].new[s] = lsh[s]
    BY <1>3
  <2>2. HonestSource(s) = n
    BY <2>1 DEF HonestSource
  <2>3. landed[n] # None /\ s \in DOMAIN landed[n].new
    BY <2>1 DEF LandedOn
  <2>4. fixtures[n] = landed[n]
    BY <2>3 DEF LandedStillOnDisk
  <2>5. n \in Sources(s)
    BY <2>3, <2>4 DEF Sources
  <2> QED BY <1>3, <2>1, <2>2, <2>4, <2>5 DEF Rebuilds
<1> QED BY <1>1, <1>2, <1>3 DEF Traced

(* As long as no fixture that landed was built again, the spec that names  *)
(* what landed gives a transfer that the contract accepts.                 *)
THEOREM HonestTransfers == Spec => []HonestTransferLands
<1>1. ASSUME BuildersInv, ecdhPub = Owner, ~solved, LandedStillOnDisk
      PROVE  LET f == TransferFixture(OccupiedSlots(HonestSpec, Owner), zIndexCommit)
             IN /\ \A s \in Carried : Rebuilds(s, HonestSpec[s], Owner)
                /\ Accepts(f)
                /\ BindsT10(f, zIndexCommit)
  <2> DEFINE occupied == OccupiedSlots(HonestSpec, Owner)
             f == TransferFixture(occupied, zIndexCommit)
  <2>1. DOMAIN HonestSpec = Carried /\ \A s \in Carried : HonestSpec[s] = HonestSource(s)
    BY DEF HonestSpec
  <2>2. DOMAIN occupied = Carried /\ \A s \in Carried : occupied[s] = lsh[s]
    BY <1>1, <2>1, HonestRebuild DEF OccupiedSlots
  <2>3. \A s \in Carried : Rebuilds(s, HonestSpec[s], Owner)
    BY <1>1, <2>1, HonestRebuild
  <2>4. DOMAIN lsh = Slots /\ Carried \subseteq Slots
    BY <1>1 DEF BuildersInv, ChainInv, Carried
  <2> HIDE DEF occupied
  <2>5. /\ f.key = Owner /\ f.z = zIndexCommit /\ DOMAIN f.new = Carried
        /\ f.old = Overlay([i \in Slots |-> Empty], occupied)
        /\ f.post = Overlay([i \in Slots |-> Empty], f.new)
    BY <2>2 DEF TransferFixture, Fixture
  <2>6. DOMAIN f.old = Slots /\ \A i \in Slots : lsh[i] = f.old[i]
    BY <2>2, <2>4, <2>5, OverlayLemma DEF Carried
  <2>7. \A i \in DOMAIN f.new : lsh[i] # Empty
    BY <2>5 DEF Carried
  <2>8. f.post = Overlay(lsh, f.new)
    <3>1. /\ f.post = [i \in Slots |-> IF i \in Carried THEN f.new[i] ELSE Empty]
          /\ Overlay(lsh, f.new) = [i \in Slots |-> IF i \in Carried THEN f.new[i] ELSE lsh[i]]
      BY <2>4, <2>5 DEF Overlay
    <3>2. \A i \in Slots : i \notin Carried => lsh[i] = Empty
      BY DEF Carried
    <3> QED BY <3>1, <3>2
  <2> HIDE DEF f
  <2>9. Accepts(f)
    BY <1>1, <2>5, <2>6, <2>7, KeysAssumption DEF Accepts
  <2>10. BindsT10(f, zIndexCommit)
    BY <2>5, <2>8 DEF BindsT10
  <2> QED BY <2>3, <2>9, <2>10 DEF f, occupied
<1>2. BuildersInv => HonestTransferLands
  BY <1>1 DEF HonestTransferLands
<1> QED BY <1>2, BuildersInductive, PTL
================================================================================
