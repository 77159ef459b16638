---------------------------- MODULE Contracts_proofs ----------------------------
(***************************************************************************)
(* The contracts for every value of their constants: first the composition *)
(* of the three on L2, which is a behaviour of Custody, then the bridge    *)
(* around it.  The bridge uses the token as any user would, so the token's *)
(* theorems hold around it, and a shadow lives once across both chains.    *)
(***************************************************************************)
EXTENDS Bridge, SequenceTheorems, TLAPS

(* What the circuits' outputs are, for every live state.                    *)
LEMMA MintedLemma ==
  ASSUME NEW pix \in Pixels, NEW key \in Keys
  PROVE  /\ MintedState(pix, key) \in LiveState
         /\ MintedState(pix, key).key = key
         /\ MintedState(pix, key).pixels = pix
         /\ MintedState(pix, key).count = 0
         /\ Len(MintedState(pix, key).tip) = 1
BY DEF MintedState, LiveState, Events

LEMMA MutatedLemma ==
  ASSUME NEW live \in LiveState, NEW n \in Nat
  PROVE  /\ Mutated(live, n) \in LiveState
         /\ Mutated(live, n).key = live.key
         /\ Mutated(live, n).pixels = live.pixels
         /\ Mutated(live, n).count = live.count + n
         /\ Mutated(live, n).tip = live.tip \o [j \in 1..n |-> "MUTATE"]
         /\ Len(Mutated(live, n).tip) = Len(live.tip) + n
<1> DEFINE more == [j \in 1..n |-> "MUTATE"]
<1>1. more \in Seq(Events) /\ Len(more) = n
  BY DEF Events
<1>2. live.tip \in Seq(Events)
  BY DEF LiveState
<1> HIDE DEF more
<1>3. live.tip \o more \in Seq(Events) /\ Len(live.tip \o more) = Len(live.tip) + n
  BY <1>1, <1>2
<1>4. Mutated(live, n) = [pixels |-> live.pixels, key |-> live.key,
                          count |-> live.count + n, tip |-> live.tip \o more]
  BY DEF Mutated, more
<1>5. /\ Mutated(live, n).key = live.key
      /\ Mutated(live, n).pixels = live.pixels
      /\ Mutated(live, n).count = live.count + n
      /\ Mutated(live, n).tip = live.tip \o more
      /\ Mutated(live, n) \in LiveState
  BY <1>3, <1>4 DEF LiveState
<1> QED BY <1>3, <1>5 DEF more

LEMMA RekeyedLemma ==
  ASSUME NEW live \in LiveState, NEW key \in Keys, NEW event \in Events
  PROVE  /\ Rekeyed(live, key, event) \in LiveState
         /\ Rekeyed(live, key, event).key = key
         /\ Rekeyed(live, key, event).pixels = live.pixels
         /\ Rekeyed(live, key, event).count = live.count + 1
         /\ Rekeyed(live, key, event).tip = Append(live.tip, event)
         /\ Len(Rekeyed(live, key, event).tip) = Len(live.tip) + 1
<1>1. live.tip \in Seq(Events)
  BY DEF LiveState
<1>2. /\ Append(live.tip, event) \in Seq(Events)
      /\ Len(Append(live.tip, event)) = Len(live.tip) + 1
  BY <1>1
<1>3. /\ Rekeyed(live, key, event) \in LiveState
      /\ Rekeyed(live, key, event).key = key
      /\ Rekeyed(live, key, event).pixels = live.pixels
      /\ Rekeyed(live, key, event).count = live.count + 1
      /\ Rekeyed(live, key, event).tip = Append(live.tip, event)
  BY <1>2 DEF Rekeyed, LiveState
<1> QED BY <1>2, <1>3
--------------------------------------------------------------------------------

USE DEF OnCurve

LEMMA ConstantFacts ==
  /\ MintSlots \subseteq Slots /\ 0 \in Slots
  /\ \A f \in Features : f[1] \in Shadows /\ f[2] \in MintSlots /\ f = <<f[1], f[2]>>
  /\ \A s \in Shadows, i \in MintSlots : <<s, i>> \in Features
  /\ CurveKeys \subseteq Keys /\ Zero \notin Keys
  /\ Zero \notin Users /\ Zero \notin Shadows /\ Zero \notin Perms
  /\ 0..MaxBatch \subseteq Nat
BY SlotsAssumption, KeysAssumption, UsersAssumption, ShadowsAssumption,
   PermsAssumption, MaxBatchAssumption DEF MintSlots, Slots, Features

(* A step of either mutate entry point is a run of the mutate loop.        *)
LEMMA MutateLemma ==
  ASSUME NEW u \in Users, NEW s \in Shadows,
         \/ \E i \in Slots : MutateSlot(u, s, i)
         \/ \E times \in [Slots -> 0..MaxBatch] : MutateBatch(u, s, times)
  PROVE  \E times \in [Slots -> Nat] : MutateEntries(u, s, times)
<1>1. ASSUME NEW i \in Slots, MutateSlot(u, s, i)
      PROVE  \E times \in [Slots -> Nat] : MutateEntries(u, s, times)
  BY <1>1 DEF MutateSlot
<1>2. ASSUME NEW times \in [Slots -> 0..MaxBatch], MutateBatch(u, s, times)
      PROVE  times \in [Slots -> Nat] /\ MutateEntries(u, s, times)
  BY <1>2, ConstantFacts DEF MutateBatch
<1> QED BY <1>1, <1>2
--------------------------------------------------------------------------------
(* What the steps' new values are, given the types of the old ones.        *)
LEMMA HoldingType ==
  ASSUME NEW f \in Features, NEW live \in LiveState
  PROVE  /\ Holding(f, live) \in OccupiedEntry
         /\ Holding(f, live).kind = "OCCUPIED"
         /\ Holding(f, live).featureId = f
         /\ Holding(f, live).liveStateHash = live
         /\ Holding(f, live).mutationCount = live.count
         /\ Holding(f, live).chainTip = live.tip
BY DEF Holding, OccupiedEntry, LiveState

LEMMA OccupiedLemma ==
  ASSUME TypeOK, NEW s \in Shadows
  PROVE  /\ Occupied(s) \subseteq Slots
         /\ \A i \in Slots : i \in Occupied(s) <=> manifest[s][i] \in OccupiedEntry
         /\ \A i \in Slots : i \notin Occupied(s) <=> manifest[s][i] = EmptyEntry
         /\ \A i \in Occupied(s) :
              /\ manifest[s][i].featureId \in Features
              /\ manifest[s][i].liveStateHash \in LiveState
              /\ manifest[s][i].mutationCount \in Nat
<1>1. manifest[s] \in [Slots -> ManifestEntry]
  BY DEF TypeOK
<1>2. /\ EmptyEntry.kind = "EMPTY"
      /\ \A m \in OccupiedEntry : m.kind = "OCCUPIED"
  BY DEF EmptyEntry, OccupiedEntry
<1> QED BY <1>1, <1>2 DEF Occupied, ManifestEntry, OccupiedEntry
LEMMA FeatureRecordTypes ==
  ASSUME NEW rec \in Feature, NEW live \in LiveState,
         NEW s \in Shadows, NEW i \in Slots
  PROVE  /\ BornIn(s, i, live) \in Feature
         /\ Extracted(rec, live) \in Feature
         /\ InsertedInto(rec, s, i) \in Feature
         /\ Revealed(Extracted(rec, live)) \in Feature
BY ConstantFacts DEF Feature, BornIn, Extracted, InsertedInto, Revealed

LEMMA CheckpointType ==
  ASSUME NEW rec \in Feature, NEW live \in LiveState
  PROVE  [rec EXCEPT !.checkpoint = live] \in Feature
BY DEF Feature

LEMMA ShadowRecordTypes ==
  ASSUME NEW rec \in Shadow, NEW key \in Keys
  PROVE  /\ OpenedFor(key) \in Shadow
         /\ Frozen(rec) \in Shadow
         /\ [rec EXCEPT !.ecdhPub = key] \in Shadow
BY DEF Shadow, OpenedFor, Frozen

LEMMA ZIndexCommitType ==
  ASSUME NEW rec \in Shadow, NEW z \in Perms
  PROVE  [rec EXCEPT !.zIndexCommit = z] \in Shadow
BY DEF Shadow

LEMMA RefreshType ==
  ASSUME NEW s \in Shadows, RefreshT10(s),
         shadow' \in [Shadows -> Shadow],
         manifest' \in [Shadows -> [Slots -> ManifestEntry]],
         shadowT10 \in [Shadows -> T10 \cup {Zero}]
  PROVE  shadowT10' \in [Shadows -> T10 \cup {Zero}]
<1>1. \A m \in ManifestEntry : m.liveStateHash \in LiveState \cup {Zero}
  BY DEF ManifestEntry, OccupiedEntry, EmptyEntry
<1>2. T10Of(shadow'[s].zIndexCommit, manifest'[s]) \in T10
  BY <1>1 DEF T10Of, T10, Shadow
<1> QED BY <1>2 DEF RefreshT10
--------------------------------------------------------------------------------
(* Every call leaves every variable in its type.                           *)
LEMMA TypeStep ==
  ASSUME TypeOK, NothingBeforeMint, [Next]_vars
  PROVE  TypeOK'
<1> USE ConstantFacts
<1>T. /\ pk \in [Users -> Keys \cup {Zero}]
      /\ feature \in [Features -> Feature]
      /\ featureOwner \in [Features -> Users \cup {Zero}]
      /\ paused \in SUBSET Pausable
      /\ registeredImages \in SUBSET Shadows
      /\ mintedOrigins \in SUBSET Shadows
      /\ shadowOwner \in [Shadows -> Users \cup {Zero}]
      /\ shadow \in [Shadows -> Shadow]
      /\ manifest \in [Shadows -> [Slots -> ManifestEntry]]
      /\ shadowT10 \in [Shadows -> T10 \cup {Zero}]
      /\ minting \in Seq(Shadows)
  BY DEF TypeOK, RegistryTypeOK, FeatureTypeOK
<1>1. ASSUME NEW u \in Users, NEW k \in Keys, RegisterKey(u, k)
      PROVE  TypeOK'
  BY <1>1, <1>T DEF RegisterKey, Register, featureVars, tokenVars,
     TypeOK, RegistryTypeOK, FeatureTypeOK
<1>2. ASSUME NEW s \in Shadows, RegisterImage(s)
      PROVE  TypeOK'
  BY <1>2, <1>T DEF RegisterImage, featureVars, TypeOK, RegistryTypeOK, FeatureTypeOK
<1>3. ASSUME NEW u \in Users, NEW s \in Shadows, NEW pixels \in [MintSlots -> Pixels],
             MintShadow(u, s, pixels)
      PROVE  TypeOK'
  <2> DEFINE born(i) == MintedState(pixels[i], pk[u])
  <2>1. pk[u] \in Keys
    BY <1>3 DEF MintShadow
  <2>2. \A i \in MintSlots : born(i) \in LiveState /\ Holding(<<s, i>>, born(i)) \in OccupiedEntry
    BY <2>1, MintedLemma, HoldingType
  <2>3. /\ shadow' = [shadow EXCEPT ![s] = OpenedFor(pk[u])]
        /\ manifest' = [manifest EXCEPT ![s] =
             [i \in Slots |-> IF i \in MintSlots THEN Holding(<<s, i>>, born(i))
                              ELSE manifest[s][i]]]
        /\ feature' = [f \in Features |->
             IF f[1] = s THEN BornIn(s, f[2], born(f[2])) ELSE feature[f]]
        /\ featureOwner' = [f \in Features |->
             IF f[1] = s THEN u ELSE featureOwner[f]]
    BY <1>3 DEF MintShadow
  <2> HIDE DEF born
  <2>4. shadow' \in [Shadows -> Shadow]
    BY <1>T, <2>1, <2>3, ShadowRecordTypes
  <2>5. manifest' \in [Shadows -> [Slots -> ManifestEntry]]
    BY <1>T, <2>2, <2>3 DEF ManifestEntry
  <2>6. feature' \in [Features -> Feature]
    <3>1. \A f \in Features : f[1] = s => BornIn(s, f[2], born(f[2])) \in Feature
      BY <1>T, <2>2, FeatureRecordTypes
    <3> QED BY <1>T, <2>3, <3>1
  <2>7. featureOwner' \in [Features -> Users \cup {Zero}]
    BY <1>T, <2>3
  <2>8. shadowT10' \in [Shadows -> T10 \cup {Zero}] /\ minting' \in Seq(Shadows)
    <3>1. CASE RefreshT10(s) /\ UNCHANGED minting
      BY <1>T, <2>4, <2>5, <3>1, RefreshType
    <3>2. CASE minting' = Append(minting, s) /\ UNCHANGED shadowT10
      BY <1>T, <3>2
    <3> QED BY <1>3, <3>1, <3>2 DEF MintShadow
  <2> QED BY <1>3, <1>T, <2>4, <2>5, <2>6, <2>7, <2>8
          DEF MintShadow, TypeOK, RegistryTypeOK, FeatureTypeOK
<1>4. ASSUME RefreshAfterCallback
      PROVE  TypeOK'
  <2> DEFINE n == Len(minting)
  <2>1. n \in Nat \ {0} /\ minting[n] \in Shadows
    BY <1>4, <1>T DEF RefreshAfterCallback
  <2>2. minting' \in Seq(Shadows)
    BY <1>4, <1>T, <2>1 DEF RefreshAfterCallback
  <2>3. shadowT10' \in [Shadows -> T10 \cup {Zero}]
    BY <1>4, <1>T, <2>1, RefreshType DEF RefreshAfterCallback
  <2> QED BY <1>4, <1>T, <2>2, <2>3
          DEF RefreshAfterCallback, featureVars, TypeOK, RegistryTypeOK, FeatureTypeOK
<1>5. ASSUME NEW u \in Users, NEW s \in Shadows, NEW times \in [Slots -> Nat],
             MutateEntries(u, s, times)
      PROVE  TypeOK'
  <2>1. MutatedSlots(s, times) \in [Slots -> ManifestEntry]
    <3>1. ASSUME NEW i \in Slots, times[i] # 0
          PROVE  Holding(manifest[s][i].featureId,
                         Mutated(manifest[s][i].liveStateHash, times[i])) \in ManifestEntry
      <4>1. i \in Occupied(s)
        BY <1>5, <3>1 DEF MutateEntries, MayMutate
      <4> QED BY <4>1, OccupiedLemma, MutatedLemma, HoldingType DEF ManifestEntry
    <3> QED BY <1>T, <3>1 DEF MutatedSlots
  <2>2. manifest' \in [Shadows -> [Slots -> ManifestEntry]]
    BY <1>5, <1>T, <2>1 DEF MutateEntries
  <2>3. shadowT10' \in [Shadows -> T10 \cup {Zero}]
    BY <1>5, <1>T, <2>2, RefreshType DEF MutateEntries
  <2> QED BY <1>5, <1>T, <2>2, <2>3
          DEF MutateEntries, featureVars, TypeOK, RegistryTypeOK, FeatureTypeOK
<1>6. ASSUME NEW u \in Users, NEW s \in Shadows, NEW i \in Slots, ExtractSlot(u, s, i)
      PROVE  TypeOK'
  <2>1. manifest' \in [Shadows -> [Slots -> ManifestEntry]]
    BY <1>6, <1>T DEF ExtractSlot, ManifestEntry
  <2>2. feature' \in [Features -> Feature]
    BY <1>6, <1>T, OccupiedLemma, FeatureRecordTypes DEF ExtractSlot
  <2>3. shadowT10' \in [Shadows -> T10 \cup {Zero}]
    BY <1>6, <1>T, <2>1, RefreshType DEF ExtractSlot
  <2> QED BY <1>6, <1>T, <2>1, <2>2, <2>3
          DEF ExtractSlot, TypeOK, RegistryTypeOK, FeatureTypeOK
<1>7. ASSUME NEW u \in Users, NEW s \in Shadows, NEW i \in Slots, NEW f \in Features,
             InsertFeature(u, s, i, f)
      PROVE  TypeOK'
  <2>1. feature[f].checkpoint \in LiveState
    BY <1>7 DEF InsertFeature, NothingBeforeMint, Born
  <2>2. Holding(f, Mutated(feature[f].checkpoint, 1)) \in ManifestEntry
    BY <2>1, MutatedLemma, HoldingType DEF ManifestEntry
  <2>3. manifest' \in [Shadows -> [Slots -> ManifestEntry]]
    BY <1>7, <1>T, <2>2 DEF InsertFeature
  <2>4. feature' \in [Features -> Feature]
    BY <1>7, <1>T, <2>1, FeatureRecordTypes DEF InsertFeature
  <2>5. shadowT10' \in [Shadows -> T10 \cup {Zero}]
    BY <1>7, <1>T, <2>3, RefreshType DEF InsertFeature
  <2> QED BY <1>7, <1>T, <2>3, <2>4, <2>5
          DEF InsertFeature, TypeOK, RegistryTypeOK, FeatureTypeOK
<1>8. ASSUME NEW u \in Users, NEW to \in Users, NEW s \in Shadows, TransferShadow(u, s, to)
      PROVE  TypeOK'
  <2>1. pk[to] \in Keys
    BY <1>8 DEF TransferShadow
  <2>2. \A i \in Occupied(s) : TransferredSlot(manifest[s][i], pk[to]) \in ManifestEntry
    BY <2>1, OccupiedLemma, RekeyedLemma
       DEF TransferredSlot, ManifestEntry, OccupiedEntry, Events, LiveState
  <2>3. manifest' \in [Shadows -> [Slots -> ManifestEntry]]
    BY <1>8, <1>T, <2>2 DEF TransferShadow
  <2>4. shadow' \in [Shadows -> Shadow]
    BY <1>8, <1>T, <2>1, ShadowRecordTypes DEF TransferShadow
  <2>5. shadowT10' \in [Shadows -> T10 \cup {Zero}]
    BY <1>8, <1>T, <2>3, <2>4, RefreshType DEF TransferShadow
  <2>6. featureOwner' \in [Features -> Users \cup {Zero}]
    BY <1>8, <1>T DEF TransferShadow
  <2> QED BY <1>8, <1>T, <2>3, <2>4, <2>5, <2>6
          DEF TransferShadow, TypeOK, RegistryTypeOK, FeatureTypeOK
<1>9. ASSUME NEW u \in Users, NEW s \in Shadows, NEW perm \in Perms,
             SetZIndexCommit(u, s, perm)
      PROVE  TypeOK'
  <2>1. shadow' \in [Shadows -> Shadow]
    <3>1. [shadow[s] EXCEPT !.zIndexCommit = perm] \in Shadow
      BY <1>T, ZIndexCommitType
    <3> QED BY <1>9, <1>T, <3>1 DEF SetZIndexCommit
  <2>2. shadowT10' \in [Shadows -> T10 \cup {Zero}]
    BY <1>9, <1>T, <2>1, RefreshType DEF SetZIndexCommit
  <2> QED BY <1>9, <1>T, <2>1, <2>2
          DEF SetZIndexCommit, featureVars, TypeOK, RegistryTypeOK, FeatureTypeOK
<1>10. ASSUME NEW u \in Users, NEW s \in Shadows, Solve(u, s)
       PROVE  TypeOK'
  <2>1. shadow' \in [Shadows -> Shadow]
    BY <1>10, <1>T DEF Solve, Frozen, Shadow
  <2>2. \A f \in CarriersOf(s) : f \in Features =>
          manifest[s][feature[f].hostSlotIdx].liveStateHash \in LiveState
    BY <1>10, OccupiedLemma DEF Solve, MaySolveSlot, MayExtract, CarriersOf
  <2>3. \A f \in Features : f \in CarriersOf(s) =>
          Revealed(Extracted(feature[f],
            manifest[s][feature[f].hostSlotIdx].liveStateHash)) \in Feature
    BY <1>T, <2>2, FeatureRecordTypes
  <2>4. feature' \in [Features -> Feature]
    BY <1>10, <1>T, <2>3 DEF Solve
  <2>5. manifest' \in [Shadows -> [Slots -> ManifestEntry]]
    BY <1>10, <1>T DEF Solve, ManifestEntry
  <2> QED BY <1>10, <1>T, <2>1, <2>4, <2>5
          DEF Solve, TypeOK, RegistryTypeOK, FeatureTypeOK
<1>11. ASSUME NEW s \in Shadows, NEW to \in Users, TransferFrom(s, to)
       PROVE  TypeOK'
  BY <1>11, <1>T DEF TransferFrom, featureVars, TypeOK, RegistryTypeOK, FeatureTypeOK
<1>12. ASSUME NEW u \in Users, NEW to \in Users, NEW f \in Features, TransferHeld(u, to, f)
       PROVE  TypeOK'
  <2>1. feature[f].checkpoint \in LiveState
    BY <1>12 DEF TransferHeld, TransferFeature, NothingBeforeMint, Born
  <2>2. Rekeyed(feature[f].checkpoint, pk[to], "HELD_TRANSFER") \in LiveState
    BY <1>12, <2>1, RekeyedLemma DEF TransferHeld, TransferFeature, Events
  <2>3. feature' \in [Features -> Feature]
    <3>1. [feature[f] EXCEPT !.checkpoint =
             Rekeyed(feature[f].checkpoint, pk[to], "HELD_TRANSFER")] \in Feature
      BY <1>T, <2>2, CheckpointType
    <3> QED BY <1>12, <1>T, <3>1 DEF TransferHeld, TransferFeature
  <2>4. featureOwner' \in [Features -> Users \cup {Zero}]
    BY <1>12, <1>T DEF TransferHeld, TransferFeature
  <2> QED BY <1>12, <1>T, <2>3, <2>4
          DEF TransferHeld, tokenVars, TypeOK, RegistryTypeOK, FeatureTypeOK
<1>13. ASSUME NEW c \in Pausable, Pause(c) \/ Unpause(c)
       PROVE  TypeOK'
  BY <1>13, <1>T DEF Pause, Unpause, featureVars, tokenVars, TypeOK,
     RegistryTypeOK, FeatureTypeOK
<1>14. ASSUME UNCHANGED vars
       PROVE  TypeOK'
  BY <1>14, <1>T DEF vars, featureVars, tokenVars, TypeOK, RegistryTypeOK, FeatureTypeOK
<1> QED BY <1>1, <1>2, <1>3, <1>4, <1>5, <1>6, <1>7, <1>8, <1>9, <1>10, <1>11,
           <1>12, <1>13, <1>14, MutateLemma DEF Next
--------------------------------------------------------------------------------
(* A call that mints nothing, touches only what is minted and leaves every *)
(* carrier a live state keeps NothingBeforeMint.                           *)
LEMMA BirthFrame ==
  ASSUME NothingBeforeMint,
         mintedOrigins' = mintedOrigins,
         \A t \in Shadows : Minted(t)' <=> Minted(t),
         \A t \in Shadows : ~Minted(t) =>
           manifest'[t] = manifest[t] /\ shadow'[t] = shadow[t],
         \A g \in Features : Born(g)' <=> Born(g),
         \A g \in Features : ~Born(g) => feature'[g] = feature[g],
         \A g \in Features : Born(g) => feature'[g].checkpoint \in LiveState
  PROVE  NothingBeforeMint'
<1>1. \A g \in Features : g[1] \in Shadows
  BY ConstantFacts
<1>2. \A t \in Shadows : /\ Minted(t)' <=> t \in mintedOrigins'
                         /\ ~Minted(t)' => shadow'[t] = NoShadow /\ Occupied(t)' = {}
  BY DEF NothingBeforeMint, Occupied
<1>3. \A g \in Features : /\ Born(g)' <=> Minted(g[1])'
                          /\ Born(g)' => feature'[g].checkpoint \in LiveState
                          /\ ~Born(g)' => feature'[g] = NoFeature
  BY <1>1 DEF NothingBeforeMint
<1> QED BY <1>2, <1>3 DEF NothingBeforeMint

LEMMA BirthStep ==
  ASSUME TypeOK, NothingBeforeMint, [Next]_vars
  PROVE  NothingBeforeMint'
<1> USE ConstantFacts
<1>T. /\ pk \in [Users -> Keys \cup {Zero}]
      /\ feature \in [Features -> Feature]
      /\ featureOwner \in [Features -> Users \cup {Zero}]
      /\ shadowOwner \in [Shadows -> Users \cup {Zero}]
      /\ shadow \in [Shadows -> Shadow]
      /\ manifest \in [Shadows -> [Slots -> ManifestEntry]]
  BY DEF TypeOK, RegistryTypeOK, FeatureTypeOK
<1>B. \A g \in Features : Born(g) => feature[g].checkpoint \in LiveState
  BY DEF NothingBeforeMint
<1>1. ASSUME UNCHANGED <<mintedOrigins, shadowOwner, shadow, manifest, feature, featureOwner>>
      PROVE  NothingBeforeMint'
  BY <1>1, <1>B, BirthFrame DEF Minted, Born
<1>2. ASSUME NEW u \in Users, NEW s \in Shadows, NEW pixels \in [MintSlots -> Pixels],
             MintShadow(u, s, pixels)
      PROVE  NothingBeforeMint'
  <2> DEFINE born(i) == MintedState(pixels[i], pk[u])
  <2>1. \A i \in MintSlots : born(i) \in LiveState
    BY <1>2, MintedLemma DEF MintShadow
  <2>2. /\ mintedOrigins' = mintedOrigins \cup {s}
        /\ shadowOwner' = [shadowOwner EXCEPT ![s] = u]
        /\ \A t \in Shadows : t # s => manifest'[t] = manifest[t] /\ shadow'[t] = shadow[t]
        /\ feature' = [f \in Features |->
             IF f[1] = s THEN BornIn(s, f[2], born(f[2])) ELSE feature[f]]
        /\ featureOwner' = [f \in Features |-> IF f[1] = s THEN u ELSE featureOwner[f]]
    BY <1>2, <1>T DEF MintShadow
  <2> HIDE DEF born
  <2>3. \A t \in Shadows : /\ t = s => Minted(t)'
                           /\ t # s => (Minted(t)' <=> Minted(t))
    BY <1>T, <2>2 DEF Minted
  <2>4. \A t \in Shadows : /\ Minted(t)' <=> t \in mintedOrigins'
                           /\ ~Minted(t)' => shadow'[t] = NoShadow /\ Occupied(t)' = {}
    BY <2>2, <2>3 DEF NothingBeforeMint, Occupied
  <2>5. ASSUME NEW g \in Features
        PROVE  /\ Born(g)' <=> Minted(g[1])'
               /\ Born(g)' => feature'[g].checkpoint \in LiveState
               /\ ~Born(g)' => feature'[g] = NoFeature
    <3>1. CASE g[1] = s
      <4>1. featureOwner'[g] = u /\ feature'[g] = BornIn(s, g[2], born(g[2]))
        BY <2>2, <3>1
      <4>2. feature'[g].checkpoint \in LiveState
        BY <2>1, <4>1 DEF BornIn
      <4> QED BY <2>3, <3>1, <4>1, <4>2 DEF Born
    <3>2. CASE g[1] # s
      BY <2>2, <2>3, <3>2 DEF Born, NothingBeforeMint
    <3> QED BY <3>1, <3>2
  <2> QED BY <2>4, <2>5 DEF NothingBeforeMint
<1>3. ASSUME NEW u \in Users, NEW s \in Shadows, NEW times \in [Slots -> Nat],
             MutateEntries(u, s, times)
      PROVE  NothingBeforeMint'
  <2>1. Minted(s) /\ \A t \in Shadows : t # s => manifest'[t] = manifest[t]
    BY <1>3, <1>T DEF MutateEntries, OwnerCall, OwnsUnsolved, Minted
  <2> QED BY <1>3, <1>B, <2>1, BirthFrame DEF MutateEntries, featureVars, Minted, Born
<1>4. ASSUME NEW u \in Users, NEW s \in Shadows, NEW i \in Slots, ExtractSlot(u, s, i)
      PROVE  NothingBeforeMint'
  <2> DEFINE f == manifest[s][i].featureId
  <2>1. Minted(s) /\ \A t \in Shadows : t # s => manifest'[t] = manifest[t]
    BY <1>4, <1>T DEF ExtractSlot, OwnerCall, OwnsUnsolved, Minted
  <2>2. f \in Features /\ feature[f].isInserted /\ manifest[s][i].liveStateHash \in LiveState
    BY <1>4, OccupiedLemma DEF ExtractSlot, MayExtract
  <2>3. feature' = [feature EXCEPT ![f] = Extracted(feature[f], manifest[s][i].liveStateHash)]
    BY <1>4 DEF ExtractSlot
  <2> HIDE DEF f
  <2>4. Born(f)
    BY <2>2 DEF NothingBeforeMint, NoFeature
  <2>5. feature'[f].checkpoint \in LiveState
        /\ \A g \in Features : g # f => feature'[g] = feature[g]
    BY <1>T, <2>2, <2>3 DEF Extracted
  <2> QED BY <1>4, <1>B, <2>1, <2>4, <2>5, BirthFrame DEF ExtractSlot, Minted, Born
<1>5. ASSUME NEW u \in Users, NEW s \in Shadows, NEW i \in Slots, NEW f \in Features,
             InsertFeature(u, s, i, f)
      PROVE  NothingBeforeMint'
  <2>1. Minted(s) /\ Born(f) /\ \A t \in Shadows : t # s => manifest'[t] = manifest[t]
    BY <1>5, <1>T DEF InsertFeature, OwnerCall, OwnsUnsolved, Minted, Born
  <2>2. /\ feature'[f].checkpoint = feature[f].checkpoint
        /\ \A g \in Features : g # f => feature'[g] = feature[g]
    BY <1>5, <1>T DEF InsertFeature, InsertedInto
  <2> QED BY <1>5, <1>B, <2>1, <2>2, BirthFrame DEF InsertFeature, Minted, Born
<1>6. ASSUME NEW u \in Users, NEW to \in Users, NEW s \in Shadows, TransferShadow(u, s, to)
      PROVE  NothingBeforeMint'
  <2>1. /\ shadowOwner' = [shadowOwner EXCEPT ![s] = to]
        /\ Minted(s)
        /\ \A t \in Shadows : t # s => manifest'[t] = manifest[t] /\ shadow'[t] = shadow[t]
    BY <1>6, <1>T DEF TransferShadow, OwnerCall, OwnsUnsolved, Minted
  <2>2. \A t \in Shadows : Minted(t)' <=> Minted(t)
    BY <1>T, <2>1 DEF Minted
  <2>3. \A g \in Features : g \in CarriersOf(s) => Born(g)
    <3>1. \A i \in Occupied(s) : feature[manifest[s][i].featureId].isInserted
      BY <1>6 DEF TransferShadow, MayTransferSlot, MayRotate
    <3> QED BY <3>1, OccupiedLemma DEF CarriersOf, NothingBeforeMint, NoFeature
  <2>4. \A g \in Features : Born(g)' <=> Born(g)
    BY <1>6, <1>T, <2>3 DEF TransferShadow, Born
  <2> QED BY <1>6, <1>B, <2>1, <2>2, <2>4, BirthFrame DEF TransferShadow
<1>7. ASSUME NEW u \in Users, NEW s \in Shadows, NEW perm \in Perms,
             SetZIndexCommit(u, s, perm)
      PROVE  NothingBeforeMint'
  <2>1. Minted(s) /\ \A t \in Shadows : t # s => shadow'[t] = shadow[t]
    BY <1>7, <1>T DEF SetZIndexCommit, OwnerCall, OwnsUnsolved, Minted
  <2> QED BY <1>7, <1>B, <2>1, BirthFrame DEF SetZIndexCommit, featureVars, Minted, Born
<1>8. ASSUME NEW u \in Users, NEW s \in Shadows, Solve(u, s)
      PROVE  NothingBeforeMint'
  <2>1. /\ Minted(s)
        /\ \A t \in Shadows : t # s => manifest'[t] = manifest[t] /\ shadow'[t] = shadow[t]
    BY <1>8, <1>T DEF Solve, OwnerCall, OwnsUnsolved, Minted
  <2>2. ASSUME NEW g \in Features, g \in CarriersOf(s)
        PROVE  Born(g) /\ feature'[g].checkpoint \in LiveState
    <3>1. feature[g].isInserted
          /\ manifest[s][feature[g].hostSlotIdx].liveStateHash \in LiveState
      BY <1>8, <2>2, OccupiedLemma DEF Solve, MaySolveSlot, MayExtract, CarriersOf
    <3>2. feature'[g].checkpoint \in LiveState
      BY <1>8, <2>2, <3>1 DEF Solve, Revealed, Extracted
    <3> QED BY <3>1, <3>2 DEF NothingBeforeMint, NoFeature
  <2>3. \A g \in Features : g \notin CarriersOf(s) => feature'[g] = feature[g]
    BY <1>8 DEF Solve
  <2> QED BY <1>8, <1>B, <2>1, <2>2, <2>3, BirthFrame DEF Solve, Minted, Born
<1>9. ASSUME NEW s \in Shadows, NEW to \in Users, TransferFrom(s, to)
      PROVE  NothingBeforeMint'
  <2>1. Minted(s)
    BY <1>9 DEF TransferFrom, NothingBeforeMint, NoShadow
  <2>2. \A t \in Shadows : Minted(t)' <=> Minted(t)
    BY <1>9, <1>T, <2>1 DEF TransferFrom, Minted
  <2> QED BY <1>9, <1>B, <2>2, BirthFrame DEF TransferFrom, featureVars, Born
<1>10. ASSUME NEW u \in Users, NEW to \in Users, NEW f \in Features, TransferHeld(u, to, f)
       PROVE  NothingBeforeMint'
  <2>1. Born(f) /\ \A g \in Features : Born(g)' <=> Born(g)
    BY <1>10, <1>T DEF TransferHeld, TransferFeature, Born
  <2>2. /\ feature'[f].checkpoint = Rekeyed(feature[f].checkpoint, pk[to], "HELD_TRANSFER")
        /\ \A g \in Features : g # f => feature'[g] = feature[g]
    BY <1>10, <1>T DEF TransferHeld, TransferFeature, Feature
  <2>3. feature'[f].checkpoint \in LiveState
    BY <1>10, <1>B, <2>1, <2>2, RekeyedLemma DEF TransferHeld, TransferFeature, Events
  <2> QED BY <1>10, <1>B, <2>1, <2>2, <2>3, BirthFrame DEF TransferHeld, tokenVars, Minted
<1> QED
  BY <1>1, <1>2, <1>3, <1>4, <1>5, <1>6, <1>7, <1>8, <1>9, <1>10, MutateLemma
     DEF Next, vars, tokenVars, featureVars, RegisterKey, RegisterImage,
         RefreshAfterCallback, Pause, Unpause
--------------------------------------------------------------------------------
(* SingleHost, said once for every pair of a slot and a carrier.           *)
Hosting ==
  /\ \A g \in Features : feature[g].isInserted => feature[g].hostShadowId \in Shadows
  /\ \A t \in Shadows, j \in Slots, g \in Features :
       (manifest[t][j].kind = "OCCUPIED" /\ manifest[t][j].featureId = g)
         <=> MayExtract(g, t, j)

LEMMA HostLemma ==
  ASSUME TypeOK
  PROVE  SingleHost <=> Hosting
<1>1. \A t \in Shadows : \A j \in Slots :
        j \in Occupied(t) <=> manifest[t][j].kind = "OCCUPIED"
  BY DEF Occupied
<1>2. \A t \in Shadows : \A j \in Occupied(t) :
        j \in Slots /\ manifest[t][j].featureId \in Features
  BY OccupiedLemma
<1>3. \A g \in Features : feature[g].hostSlotIdx \in Slots
  BY DEF TypeOK, FeatureTypeOK, Feature
<1> QED BY <1>1, <1>2, <1>3 DEF SingleHost, Hosting, MayExtract

LEMMA HostLemmaNext ==
  ASSUME TypeOK'
  PROVE  SingleHost' <=> Hosting'
<1>1. (TypeOK => (SingleHost <=> Hosting))'
  BY HostLemma, PTL
<1> QED BY <1>1

(* A call that moves no carrier keeps SingleHost.                          *)
LEMMA HostFrame ==
  ASSUME TypeOK, TypeOK', SingleHost,
         \A t \in Shadows, j \in Slots :
           /\ manifest'[t][j].kind = manifest[t][j].kind
           /\ manifest'[t][j].featureId = manifest[t][j].featureId,
         \A g \in Features :
           /\ feature'[g].isInserted = feature[g].isInserted
           /\ feature'[g].hostShadowId = feature[g].hostShadowId
           /\ feature'[g].hostSlotIdx = feature[g].hostSlotIdx
  PROVE  SingleHost'
<1>1. Hosting
  BY HostLemma
<1>2. \A t \in Shadows, j \in Slots, g \in Features :
        MayExtract(g, t, j)' <=> MayExtract(g, t, j)
  BY DEF MayExtract
<1>3. Hosting'
  BY <1>1, <1>2 DEF Hosting
<1> QED BY <1>3, HostLemmaNext

(* Custody: the two contracts go on agreeing on it.                        *)
LEMMA HostStep ==
  ASSUME TypeOK, TypeOK', NothingBeforeMint, SingleHost, [Next]_vars
  PROVE  SingleHost'
<1> USE ConstantFacts
<1>T. /\ feature \in [Features -> Feature]
      /\ shadowOwner \in [Shadows -> Users \cup {Zero}]
      /\ manifest \in [Shadows -> [Slots -> ManifestEntry]]
  BY DEF TypeOK, FeatureTypeOK
<1>H. Hosting
  BY HostLemma
<1>1. ASSUME UNCHANGED <<manifest, feature>>
      PROVE  SingleHost'
  BY <1>1, HostFrame
<1>2. ASSUME NEW u \in Users, NEW s \in Shadows, NEW pixels \in [MintSlots -> Pixels],
             MintShadow(u, s, pixels)
      PROVE  SingleHost'
  <2> DEFINE born(i) == MintedState(pixels[i], pk[u])
  <2>1. /\ manifest' = [manifest EXCEPT ![s] =
             [i \in Slots |-> IF i \in MintSlots THEN Holding(<<s, i>>, born(i))
                              ELSE manifest[s][i]]]
        /\ feature' = [f \in Features |->
             IF f[1] = s THEN BornIn(s, f[2], born(f[2])) ELSE feature[f]]
        /\ ~Minted(s)
    BY <1>2 DEF MintShadow, Minted
  <2> HIDE DEF born
  <2>2. /\ \A j \in Slots : manifest[s][j].kind # "OCCUPIED"
        /\ \A g \in Features : feature[g].isInserted => feature[g].hostShadowId # s
    <3>1. \A j \in Slots : manifest[s][j].kind # "OCCUPIED"
      BY <2>1 DEF NothingBeforeMint, Occupied
    <3>2. ASSUME NEW g \in Features, feature[g].isInserted, feature[g].hostShadowId = s
          PROVE  FALSE
      <4>1. feature[g].hostSlotIdx \in Slots
        BY <1>T DEF Feature
      <4> QED BY <1>H, <3>1, <3>2, <4>1 DEF Hosting, MayExtract
    <3> QED BY <3>1, <3>2
  <2>3. \A g \in Features :
          /\ g[1] = s => /\ feature'[g].isInserted
                         /\ feature'[g].hostShadowId = s
                         /\ feature'[g].hostSlotIdx = g[2]
          /\ g[1] # s => feature'[g] = feature[g]
    BY <2>1 DEF BornIn
  <2>4. /\ \A j \in MintSlots : /\ manifest'[s][j].kind = "OCCUPIED"
                                /\ manifest'[s][j].featureId = <<s, j>>
        /\ \A j \in Slots : j \notin MintSlots => manifest'[s][j].kind # "OCCUPIED"
        /\ \A t \in Shadows : t # s => manifest'[t] = manifest[t]
    BY <1>T, <2>1, <2>2 DEF Holding
  <2>5. \A g \in Features : feature'[g].isInserted => feature'[g].hostShadowId \in Shadows
    BY <1>H, <2>3 DEF Hosting
  <2>6. ASSUME NEW t \in Shadows, NEW j \in Slots, NEW g \in Features
        PROVE  (manifest'[t][j].kind = "OCCUPIED" /\ manifest'[t][j].featureId = g)
                 <=> MayExtract(g, t, j)'
    <3>0. g[1] \in Shadows /\ g[2] \in MintSlots /\ g = <<g[1], g[2]>>
      OBVIOUS
    <3>1. CASE t = s /\ g[1] = s
      BY <2>3, <2>4, <3>0, <3>1 DEF MayExtract
    <3>2. CASE t = s /\ g[1] # s
      <4>1. ~MayExtract(g, t, j)'
        BY <2>2, <2>3, <3>2 DEF MayExtract
      <4>2. \A m \in MintSlots : <<s, m>> # g
        BY <3>2
      <4> QED BY <2>4, <3>2, <4>1, <4>2
    <3>3. CASE t # s /\ g[1] = s
      <4>1. ~MayExtract(g, t, j)'
        BY <2>3, <3>3 DEF MayExtract
      <4>2. ~feature[g].isInserted
        BY <2>1, <3>3 DEF NothingBeforeMint, NoFeature
      <4> QED BY <1>H, <2>4, <3>3, <4>1, <4>2 DEF Hosting, MayExtract
    <3>4. CASE t # s /\ g[1] # s
      BY <1>H, <2>3, <2>4, <3>4 DEF Hosting, MayExtract
    <3> QED BY <3>1, <3>2, <3>3, <3>4
  <2> QED BY <2>5, <2>6, HostLemmaNext DEF Hosting
<1>3. ASSUME NEW u \in Users, NEW s \in Shadows, NEW times \in [Slots -> Nat],
             MutateEntries(u, s, times)
      PROVE  SingleHost'
  <2>1. ASSUME NEW j \in Slots
        PROVE  /\ manifest'[s][j].kind = manifest[s][j].kind
               /\ manifest'[s][j].featureId = manifest[s][j].featureId
    <3>1. manifest'[s][j] = MutatedSlots(s, times)[j]
      BY <1>3, <1>T DEF MutateEntries
    <3>2. CASE times[j] = 0
      BY <3>1, <3>2 DEF MutatedSlots
    <3>3. CASE times[j] # 0
      <4>1. j \in Occupied(s)
        BY <1>3, <3>3 DEF MutateEntries, MayMutate
      <4> QED BY <3>1, <3>3, <4>1 DEF MutatedSlots, Holding, Occupied
    <3> QED BY <3>2, <3>3
  <2>2. \A t \in Shadows : t # s => manifest'[t] = manifest[t]
    BY <1>3, <1>T DEF MutateEntries
  <2> QED BY <1>3, <2>1, <2>2, HostFrame DEF MutateEntries, featureVars
<1>4. ASSUME NEW u \in Users, NEW s \in Shadows, NEW i \in Slots, ExtractSlot(u, s, i)
      PROVE  SingleHost'
  <2> DEFINE f == manifest[s][i].featureId
  <2>1. f \in Features /\ MayExtract(f, s, i)
    BY <1>4, OccupiedLemma DEF ExtractSlot
  <2>2. /\ manifest' = [manifest EXCEPT ![s][i] = EmptyEntry]
        /\ feature' = [feature EXCEPT ![f] = Extracted(feature[f], manifest[s][i].liveStateHash)]
    BY <1>4 DEF ExtractSlot
  <2> HIDE DEF f
  <2>3. ~feature'[f].isInserted /\ \A g \in Features : g # f => feature'[g] = feature[g]
    BY <1>T, <2>1, <2>2 DEF Extracted
  <2>4. /\ manifest'[s][i].kind = "EMPTY"
        /\ \A t \in Shadows, j \in Slots :
             t # s \/ j # i => manifest'[t][j] = manifest[t][j]
    BY <1>T, <2>2 DEF EmptyEntry
  <2>5. Hosting'
    BY <1>H, <2>1, <2>3, <2>4 DEF Hosting, MayExtract
  <2> QED BY <2>5, HostLemmaNext
<1>5. ASSUME NEW u \in Users, NEW s \in Shadows, NEW i \in Slots, NEW f \in Features,
             InsertFeature(u, s, i, f)
      PROVE  SingleHost'
  <2>1. /\ ~feature[f].isInserted
        /\ manifest[s][i].kind # "OCCUPIED"
        /\ manifest' = [manifest EXCEPT ![s][i] =
                          Holding(f, Mutated(feature[f].checkpoint, 1))]
        /\ feature' = [feature EXCEPT ![f] = InsertedInto(feature[f], s, i)]
    BY <1>5 DEF InsertFeature, MayInsert, Occupied
  <2>2. /\ feature'[f].isInserted
        /\ feature'[f].hostShadowId = s
        /\ feature'[f].hostSlotIdx = i
        /\ \A g \in Features : g # f => feature'[g] = feature[g]
    BY <1>T, <2>1 DEF InsertedInto
  <2>3. /\ manifest'[s][i].kind = "OCCUPIED"
        /\ manifest'[s][i].featureId = f
        /\ \A t \in Shadows, j \in Slots :
             t # s \/ j # i => manifest'[t][j] = manifest[t][j]
    BY <1>T, <2>1 DEF Holding
  <2>4. Hosting'
    BY <1>H, <2>1, <2>2, <2>3 DEF Hosting, MayExtract
  <2> QED BY <2>4, HostLemmaNext
<1>6. ASSUME NEW u \in Users, NEW to \in Users, NEW s \in Shadows, TransferShadow(u, s, to)
      PROVE  SingleHost'
  <2>1. \A j \in Slots : /\ manifest'[s][j].kind = manifest[s][j].kind
                         /\ manifest'[s][j].featureId = manifest[s][j].featureId
    BY <1>6, <1>T DEF TransferShadow, TransferredSlot, Occupied
  <2>2. \A t \in Shadows : t # s => manifest'[t] = manifest[t]
    BY <1>6, <1>T DEF TransferShadow
  <2> QED BY <1>6, <2>1, <2>2, HostFrame DEF TransferShadow
<1>7. ASSUME NEW u \in Users, NEW s \in Shadows, Solve(u, s)
      PROVE  SingleHost'
  <2>1. \A g \in Features : g \in CarriersOf(s) <=>
          feature[g].isInserted /\ feature[g].hostShadowId = s
    <3>1. \A g \in Features : feature[g].hostSlotIdx \in Slots
      BY <1>T DEF Feature
    <3> QED BY <1>H, <3>1 DEF Hosting, MayExtract, CarriersOf, Occupied
  <2>2. /\ \A g \in Features : g \in CarriersOf(s) => ~feature'[g].isInserted
        /\ \A g \in Features : g \notin CarriersOf(s) => feature'[g] = feature[g]
    BY <1>7 DEF Solve, Revealed, Extracted
  <2>3. /\ \A j \in Slots : manifest'[s][j].kind = "EMPTY"
        /\ \A t \in Shadows : t # s => manifest'[t] = manifest[t]
    BY <1>7, <1>T DEF Solve, EmptyEntry
  <2>4. Hosting'
    BY <1>H, <2>1, <2>2, <2>3 DEF Hosting, MayExtract
  <2> QED BY <2>4, HostLemmaNext
<1>8. ASSUME NEW u \in Users, NEW to \in Users, NEW f \in Features, TransferHeld(u, to, f)
      PROVE  SingleHost'
  <2>1. /\ feature'[f].isInserted = feature[f].isInserted
        /\ feature'[f].hostShadowId = feature[f].hostShadowId
        /\ feature'[f].hostSlotIdx = feature[f].hostSlotIdx
        /\ \A g \in Features : g # f => feature'[g] = feature[g]
    BY <1>8, <1>T DEF TransferHeld, TransferFeature, Feature
  <2> QED BY <1>8, <2>1, HostFrame DEF TransferHeld, tokenVars
<1> QED
  BY <1>1, <1>2, <1>3, <1>4, <1>5, <1>6, <1>7, <1>8, MutateLemma
     DEF Next, vars, tokenVars, featureVars, RegisterKey, RegisterImage,
         RefreshAfterCallback, SetZIndexCommit, TransferFrom, Pause, Unpause
--------------------------------------------------------------------------------
(* A carrier that names a host is in the slot it names, and the carriers a *)
(* manifest refers to are those that name the shadow.                      *)
LEMMA CarrierLemma ==
  ASSUME TypeOK, SingleHost, NEW s \in Shadows
  PROVE  /\ \A g \in Features : g \in CarriersOf(s) <=>
              feature[g].isInserted /\ feature[g].hostShadowId = s
         /\ \A i \in Occupied(s) :
              LET g == manifest[s][i].featureId IN
              /\ g \in CarriersOf(s) /\ g \in Features
              /\ feature[g].hostSlotIdx = i
         /\ \A g \in CarriersOf(s) :
              /\ g \in Features
              /\ feature[g].hostSlotIdx \in Occupied(s)
              /\ manifest[s][feature[g].hostSlotIdx].featureId = g
BY OccupiedLemma DEF SingleHost, MayExtract, CarriersOf

LEMMA FollowStep ==
  ASSUME TypeOK, NothingBeforeMint, SingleHost, CarriersFollowHost, [Next]_vars
  PROVE  CarriersFollowHost'
<1> USE ConstantFacts
<1>T. /\ feature \in [Features -> Feature]
      /\ featureOwner \in [Features -> Users \cup {Zero}]
      /\ shadowOwner \in [Shadows -> Users \cup {Zero}]
      /\ shadow \in [Shadows -> Shadow]
  BY DEF TypeOK, FeatureTypeOK
<1>S. \A g \in Features : feature[g].isInserted => feature[g].hostShadowId \in Shadows
  BY DEF SingleHost
<1>1. ASSUME UNCHANGED <<shadowOwner, shadow, feature, featureOwner>>
      PROVE  CarriersFollowHost'
  BY <1>1 DEF CarriersFollowHost
<1>2. ASSUME NEW u \in Users, NEW s \in Shadows, NEW pixels \in [MintSlots -> Pixels],
             MintShadow(u, s, pixels)
      PROVE  CarriersFollowHost'
  <2>1. /\ \A g \in Features :
             /\ g[1] = s => /\ feature'[g].hostShadowId = s
                            /\ featureOwner'[g] = u
             /\ g[1] # s => feature'[g] = feature[g] /\ featureOwner'[g] = featureOwner[g]
        /\ shadowOwner'[s] = u /\ ~shadow'[s].solved
        /\ \A t \in Shadows : t # s => shadowOwner'[t] = shadowOwner[t] /\ shadow'[t] = shadow[t]
    BY <1>2, <1>T DEF MintShadow, BornIn, OpenedFor
  <2>2. \A g \in Features : feature[g].isInserted => feature[g].hostShadowId # s
    <3>1. Occupied(s) = {}
      BY <1>2 DEF MintShadow, NothingBeforeMint, Minted
    <3> QED BY <3>1 DEF SingleHost
  <2> QED BY <1>S, <2>1, <2>2 DEF CarriersFollowHost
<1>3. ASSUME NEW u \in Users, NEW s \in Shadows, NEW i \in Slots, ExtractSlot(u, s, i)
      PROVE  CarriersFollowHost'
  <2> DEFINE f == manifest[s][i].featureId
  <2>1. f \in Features
        /\ feature' = [feature EXCEPT ![f] = Extracted(feature[f], manifest[s][i].liveStateHash)]
    BY <1>3, OccupiedLemma DEF ExtractSlot
  <2> HIDE DEF f
  <2>2. ~feature'[f].isInserted /\ \A g \in Features : g # f => feature'[g] = feature[g]
    BY <1>T, <2>1 DEF Extracted
  <2> QED BY <1>3, <2>2 DEF ExtractSlot, CarriersFollowHost
<1>4. ASSUME NEW u \in Users, NEW s \in Shadows, NEW i \in Slots, NEW f \in Features,
             InsertFeature(u, s, i, f)
      PROVE  CarriersFollowHost'
  <2>1. /\ feature'[f].hostShadowId = s
        /\ \A g \in Features : g # f => feature'[g] = feature[g]
        /\ featureOwner[f] = u /\ shadowOwner[s] = u /\ ~shadow[s].solved
    BY <1>4, <1>T DEF InsertFeature, InsertedInto, OwnerCall, OwnsUnsolved
  <2> QED BY <1>4, <2>1 DEF InsertFeature, CarriersFollowHost
<1>5. ASSUME NEW u \in Users, NEW to \in Users, NEW s \in Shadows, TransferShadow(u, s, to)
      PROVE  CarriersFollowHost'
  <2>1. /\ \A g \in Features :
             /\ g \in CarriersOf(s) => featureOwner'[g] = to
             /\ g \notin CarriersOf(s) => featureOwner'[g] = featureOwner[g]
        /\ shadowOwner'[s] = to
        /\ \A t \in Shadows : t # s => shadowOwner'[t] = shadowOwner[t]
        /\ \A t \in Shadows : shadow'[t].solved = shadow[t].solved
        /\ UNCHANGED feature
    BY <1>5, <1>T DEF TransferShadow, Shadow
  <2> QED BY <1>S, <2>1, CarrierLemma DEF CarriersFollowHost
<1>6. ASSUME NEW u \in Users, NEW s \in Shadows, NEW perm \in Perms,
             SetZIndexCommit(u, s, perm)
      PROVE  CarriersFollowHost'
  <2>1. \A t \in Shadows : shadow'[t].solved = shadow[t].solved
    BY <1>6, <1>T DEF SetZIndexCommit, Shadow
  <2> QED BY <1>6, <1>S, <2>1 DEF SetZIndexCommit, featureVars, CarriersFollowHost
<1>7. ASSUME NEW u \in Users, NEW s \in Shadows, Solve(u, s)
      PROVE  CarriersFollowHost'
  <2>1. /\ \A g \in Features :
             /\ g \in CarriersOf(s) => ~feature'[g].isInserted
             /\ g \notin CarriersOf(s) => feature'[g] = feature[g]
        /\ \A t \in Shadows : t # s => shadow'[t] = shadow[t]
    BY <1>7, <1>T DEF Solve, Revealed, Extracted
  <2>2. \A g \in Features : g \notin CarriersOf(s) /\ feature[g].isInserted =>
          feature[g].hostShadowId # s
    BY CarrierLemma
  <2> QED BY <1>7, <1>S, <2>1, <2>2 DEF Solve, CarriersFollowHost
<1>8. ASSUME NEW s \in Shadows, NEW to \in Users, TransferFrom(s, to)
      PROVE  CarriersFollowHost'
  <2>1. \A g \in Features : feature[g].isInserted => feature[g].hostShadowId # s
    BY <1>8 DEF TransferFrom, CarriersFollowHost
  <2> QED BY <1>8, <1>T, <1>S, <2>1 DEF TransferFrom, featureVars, CarriersFollowHost
<1>9. ASSUME NEW u \in Users, NEW to \in Users, NEW f \in Features, TransferHeld(u, to, f)
      PROVE  CarriersFollowHost'
  <2>1. /\ ~feature'[f].isInserted
        /\ \A g \in Features : g # f =>
             feature'[g] = feature[g] /\ featureOwner'[g] = featureOwner[g]
    BY <1>9, <1>T DEF TransferHeld, TransferFeature, Feature
  <2> QED BY <1>9, <2>1 DEF TransferHeld, tokenVars, CarriersFollowHost
<1> QED
  BY <1>1, <1>2, <1>3, <1>4, <1>5, <1>6, <1>7, <1>8, <1>9, MutateLemma
     DEF Next, vars, tokenVars, featureVars, RegisterKey, RegisterImage, MutateEntries,
         RefreshAfterCallback, Pause, Unpause
--------------------------------------------------------------------------------
(* The key a thing is encrypted to goes on being its owner's: first for    *)
(* shadows and what is in their slots, then for held carriers.             *)
ShadowKey(s) ==
  /\ shadow[s].ecdhPub = pk[shadowOwner[s]]
  /\ shadow[s].ecdhPub \in CurveKeys
  /\ \A i \in Slots : manifest[s][i].kind = "OCCUPIED" =>
       manifest[s][i].liveStateHash.key = shadow[s].ecdhPub

HeldKey(f) == OpensFor(feature[f].checkpoint, pk[featureOwner[f]])

LEMMA KeyLemma ==
  KeyFollowsOwner <=>
    /\ \A s \in Shadows : Unsolved(s) => ShadowKey(s)
    /\ \A f \in Features : Born(f) /\ ~feature[f].isInserted => HeldKey(f)
BY DEF KeyFollowsOwner, ShadowKey, HeldKey, Occupied, SlotOpens, OpensFor

LEMMA ShadowKeyStep ==
  ASSUME TypeOK, NothingBeforeMint, KeyFollowsOwner, [Next]_vars,
         NEW t \in Shadows, Unsolved(t)'
  PROVE  ShadowKey(t)'
<1> USE ConstantFacts
<1>T. /\ pk \in [Users -> Keys \cup {Zero}]
      /\ shadowOwner \in [Shadows -> Users \cup {Zero}]
      /\ shadow \in [Shadows -> Shadow]
      /\ manifest \in [Shadows -> [Slots -> ManifestEntry]]
  BY DEF TypeOK, RegistryTypeOK, FeatureTypeOK
<1>K. Unsolved(t) => ShadowKey(t) /\ shadowOwner[t] \in Users
  BY <1>T, KeyLemma DEF Unsolved, Minted
<1>F. ASSUME UNCHANGED pk, shadowOwner'[t] = shadowOwner[t],
             shadow'[t].solved = shadow[t].solved,
             shadow'[t].ecdhPub = shadow[t].ecdhPub,
             manifest'[t] = manifest[t]
      PROVE  ShadowKey(t)'
  BY <1>K, <1>F DEF ShadowKey, Unsolved, Minted
<1>1. ASSUME UNCHANGED <<pk, shadowOwner, shadow, manifest>>
      PROVE  ShadowKey(t)'
  BY <1>1, <1>F
<1>2. ASSUME NEW u \in Users, NEW k \in Keys, RegisterKey(u, k)
      PROVE  ShadowKey(t)'
  <2>1. /\ pk[u] = Zero
        /\ \A v \in Users : v # u => pk'[v] = pk[v]
        /\ UNCHANGED <<shadowOwner, shadow, manifest>>
    BY <1>2, <1>T DEF RegisterKey, Register, IsRegistered, tokenVars
  <2> QED BY <1>K, <2>1 DEF ShadowKey, Unsolved, Minted
<1>3. ASSUME NEW u \in Users, NEW s \in Shadows, NEW pixels \in [MintSlots -> Pixels],
             MintShadow(u, s, pixels)
      PROVE  ShadowKey(t)'
  <2> DEFINE born(i) == MintedState(pixels[i], pk[u])
             slots == [i \in Slots |->
               IF i \in MintSlots THEN Holding(<<s, i>>, born(i)) ELSE manifest[s][i]]
  <2>1. /\ UNCHANGED pk /\ pk[u] \in CurveKeys
        /\ shadowOwner'[s] = u /\ shadow'[s].ecdhPub = pk[u]
        /\ manifest'[s] = slots
        /\ t # s => /\ shadowOwner'[t] = shadowOwner[t]
                    /\ shadow'[t] = shadow[t]
                    /\ manifest'[t] = manifest[t]
    BY <1>3, <1>T DEF MintShadow, OpenedFor
  <2>2. \A i \in Slots : i \in MintSlots => slots[i].liveStateHash.key = pk[u]
    BY DEF Holding, MintedState
  <2>3. \A i \in Slots : i \notin MintSlots => slots[i].kind # "OCCUPIED"
    <3>1. \A i \in Slots : manifest[s][i].kind # "OCCUPIED"
      BY <1>3 DEF MintShadow, NothingBeforeMint, Minted, Occupied
    <3> QED BY <3>1
  <2> HIDE DEF slots, born
  <2> QED BY <1>F, <2>1, <2>2, <2>3 DEF ShadowKey
<1>4. ASSUME NEW u \in Users, NEW s \in Shadows, NEW times \in [Slots -> Nat],
             MutateEntries(u, s, times)
      PROVE  ShadowKey(t)'
  <2>1. /\ UNCHANGED <<pk, shadowOwner, shadow>>
        /\ manifest'[s] = MutatedSlots(s, times)
        /\ t # s => manifest'[t] = manifest[t]
    BY <1>4, <1>T DEF MutateEntries
  <2>2. \A i \in Slots : times[i] = 0 => MutatedSlots(s, times)[i] = manifest[s][i]
    BY DEF MutatedSlots
  <2>3. ASSUME NEW i \in Slots, times[i] # 0
        PROVE  MutatedSlots(s, times)[i].liveStateHash.key = shadow[s].ecdhPub
    <3>1. manifest[s][i].liveStateHash.key = shadow[s].ecdhPub
      BY <1>4, <2>3 DEF MutateEntries, MayMutate, SlotOpens, OpensFor
    <3>2. MutatedSlots(s, times)[i].liveStateHash
            = Mutated(manifest[s][i].liveStateHash, times[i])
      BY <2>3 DEF MutatedSlots, Holding
    <3> QED BY <3>1, <3>2 DEF Mutated
  <2> QED BY <1>F, <1>K, <2>1, <2>2, <2>3 DEF ShadowKey, Unsolved, Minted
<1>5. ASSUME NEW u \in Users, NEW s \in Shadows, NEW i \in Slots, ExtractSlot(u, s, i)
      PROVE  ShadowKey(t)'
  <2>1. /\ UNCHANGED <<pk, shadowOwner, shadow>>
        /\ manifest'[s][i].kind # "OCCUPIED"
        /\ \A j \in Slots : t # s \/ j # i => manifest'[t][j] = manifest[t][j]
    BY <1>5, <1>T DEF ExtractSlot, EmptyEntry
  <2> QED BY <1>K, <2>1 DEF ShadowKey, Unsolved, Minted
<1>6. ASSUME NEW u \in Users, NEW s \in Shadows, NEW i \in Slots, NEW f \in Features,
             InsertFeature(u, s, i, f)
      PROVE  ShadowKey(t)'
  <2>1. /\ UNCHANGED <<pk, shadowOwner, shadow>>
        /\ manifest'[s][i].liveStateHash.key = shadow[s].ecdhPub
        /\ \A j \in Slots : t # s \/ j # i => manifest'[t][j] = manifest[t][j]
    BY <1>6, <1>T DEF InsertFeature, Holding, Mutated, OpensFor
  <2> QED BY <1>K, <2>1 DEF ShadowKey, Unsolved, Minted
<1>7. ASSUME NEW u \in Users, NEW to \in Users, NEW s \in Shadows, TransferShadow(u, s, to)
      PROVE  ShadowKey(t)'
  <2>1. /\ UNCHANGED pk /\ pk[to] \in CurveKeys /\ shadowOwner'[s] = to
        /\ shadow' = [shadow EXCEPT ![s].ecdhPub = pk[to]]
        /\ t # s => shadowOwner'[t] = shadowOwner[t] /\ manifest'[t] = manifest[t]
    BY <1>7, <1>T DEF TransferShadow
  <2>2. /\ shadow'[s].ecdhPub = pk[to]
        /\ t # s => shadow'[t] = shadow[t]
    <3>1. shadow[s] \in Shadow /\ shadow'[s] = [shadow[s] EXCEPT !.ecdhPub = pk[to]]
      BY <1>T, <2>1
    <3>2. [shadow[s] EXCEPT !.ecdhPub = pk[to]].ecdhPub = pk[to]
      BY <3>1 DEF Shadow
    <3> QED BY <1>T, <2>1, <3>1, <3>2
  <2>3. \A i \in Slots : manifest'[s][i].kind = "OCCUPIED" =>
          manifest'[s][i].liveStateHash.key = pk[to]
    BY <1>7, <1>T DEF TransferShadow, TransferredSlot, Rekeyed, Occupied
  <2> QED BY <1>F, <2>1, <2>2, <2>3 DEF ShadowKey
<1>8. ASSUME NEW u \in Users, NEW s \in Shadows, NEW perm \in Perms,
             SetZIndexCommit(u, s, perm)
      PROVE  ShadowKey(t)'
  <2>1. shadow'[t].solved = shadow[t].solved /\ shadow'[t].ecdhPub = shadow[t].ecdhPub
    BY <1>8, <1>T DEF SetZIndexCommit, Shadow
  <2> QED BY <1>8, <1>F, <2>1 DEF SetZIndexCommit
<1>9. ASSUME NEW u \in Users, NEW s \in Shadows, Solve(u, s)
      PROVE  ShadowKey(t)'
  <2>1. shadow'[s].solved /\ (t # s => shadow'[t] = shadow[t] /\ manifest'[t] = manifest[t])
    BY <1>9, <1>T DEF Solve, Frozen
  <2> QED BY <1>9, <1>F, <2>1 DEF Solve, Unsolved
<1>10. ASSUME NEW s \in Shadows, NEW to \in Users, TransferFrom(s, to)
       PROVE  ShadowKey(t)'
  BY <1>10, <1>F, <1>T DEF TransferFrom, Unsolved
<1> QED
  BY <1>1, <1>2, <1>3, <1>4, <1>5, <1>6, <1>7, <1>8, <1>9, <1>10, MutateLemma
     DEF Next, vars, tokenVars, featureVars, RegisterImage, RefreshAfterCallback,
         TransferHeld, Pause, Unpause
LEMMA HeldKeyStep ==
  ASSUME TypeOK, NothingBeforeMint, SingleHost, CarriersFollowHost,
         KeyFollowsOwner, [Next]_vars,
         NEW g \in Features, Born(g)', ~feature'[g].isInserted
  PROVE  HeldKey(g)'
<1> USE ConstantFacts
<1>T. /\ pk \in [Users -> Keys \cup {Zero}]
      /\ feature \in [Features -> Feature]
      /\ featureOwner \in [Features -> Users \cup {Zero}]
      /\ shadowOwner \in [Shadows -> Users \cup {Zero}]
  BY DEF TypeOK, RegistryTypeOK, FeatureTypeOK
<1>K. Born(g) /\ ~feature[g].isInserted => HeldKey(g)
  BY KeyLemma
<1>F. ASSUME UNCHANGED <<pk, featureOwner>>, feature'[g] = feature[g]
      PROVE  HeldKey(g)'
  BY <1>K, <1>F DEF HeldKey, Born, OpensFor
<1>R. ASSUME NEW s \in Shadows, g \in CarriersOf(s), ~shadow[s].solved, UNCHANGED pk,
             featureOwner'[g] = featureOwner[g],
             feature'[g].checkpoint = manifest[s][feature[g].hostSlotIdx].liveStateHash
      PROVE  HeldKey(g)'
  <2>1. /\ feature[g].isInserted
        /\ feature[g].hostShadowId = s
        /\ feature[g].hostSlotIdx \in Occupied(s)
    BY <1>R, CarrierLemma
  <2>2. featureOwner[g] = shadowOwner[s] /\ Minted(s)
    <3>1. Born(g)
      BY <2>1 DEF NothingBeforeMint, NoFeature
    <3> QED BY <2>1, <3>1 DEF CarriersFollowHost, Minted, Born
  <2>3. OpensFor(manifest[s][feature[g].hostSlotIdx].liveStateHash, pk[shadowOwner[s]])
    BY <1>R, <2>1, <2>2 DEF KeyFollowsOwner, Unsolved, SlotOpens
  <2> QED BY <1>R, <2>2, <2>3 DEF HeldKey
<1>1. ASSUME UNCHANGED <<pk, feature, featureOwner>>
      PROVE  HeldKey(g)'
  BY <1>1, <1>F
<1>2. ASSUME NEW u \in Users, NEW k \in Keys, RegisterKey(u, k)
      PROVE  HeldKey(g)'
  <2>1. /\ pk[u] = Zero
        /\ \A v \in Users : v # u => pk'[v] = pk[v]
        /\ UNCHANGED <<feature, featureOwner>>
    BY <1>2, <1>T DEF RegisterKey, Register, IsRegistered, featureVars
  <2>2. feature[g].checkpoint.key \in Keys /\ featureOwner[g] \in Users
    BY <1>T, <2>1 DEF NothingBeforeMint, Born, LiveState
  <2>3. featureOwner[g] # u
    BY <1>K, <2>1, <2>2 DEF HeldKey, OpensFor, Born
  <2> QED BY <1>K, <2>1, <2>2, <2>3 DEF HeldKey, OpensFor, Born
<1>3. ASSUME NEW u \in Users, NEW s \in Shadows, NEW pixels \in [MintSlots -> Pixels],
             MintShadow(u, s, pixels)
      PROVE  HeldKey(g)'
  <2>1. g[1] # s /\ feature'[g] = feature[g] /\ featureOwner'[g] = featureOwner[g]
    BY <1>3 DEF MintShadow, BornIn
  <2> QED BY <1>3, <1>K, <2>1 DEF MintShadow, HeldKey, Born, OpensFor
<1>4. ASSUME NEW u \in Users, NEW s \in Shadows, NEW i \in Slots, ExtractSlot(u, s, i)
      PROVE  HeldKey(g)'
  <2> DEFINE f == manifest[s][i].featureId
  <2>1. /\ UNCHANGED <<pk, featureOwner>>
        /\ ~shadow[s].solved
        /\ f \in Features /\ f \in CarriersOf(s) /\ feature[f].hostSlotIdx = i
        /\ feature' = [feature EXCEPT ![f] = Extracted(feature[f], manifest[s][i].liveStateHash)]
    BY <1>4, CarrierLemma DEF ExtractSlot, OwnerCall, OwnsUnsolved
  <2> HIDE DEF f
  <2>2. CASE g = f
    <3>1. feature'[g].checkpoint = manifest[s][i].liveStateHash
      BY <1>T, <2>1, <2>2 DEF Extracted
    <3> QED BY <1>R, <2>1, <2>2, <3>1
  <2>3. CASE g # f
    BY <1>F, <1>T, <2>1, <2>3
  <2> QED BY <2>2, <2>3
<1>5. ASSUME NEW u \in Users, NEW s \in Shadows, NEW i \in Slots, NEW f \in Features,
             InsertFeature(u, s, i, f)
      PROVE  HeldKey(g)'
  <2>1. feature'[f].isInserted /\ (g # f => feature'[g] = feature[g])
        /\ UNCHANGED <<pk, featureOwner>>
    BY <1>5, <1>T DEF InsertFeature, InsertedInto
  <2> QED BY <1>F, <2>1
<1>6. ASSUME NEW u \in Users, NEW to \in Users, NEW s \in Shadows, TransferShadow(u, s, to)
      PROVE  HeldKey(g)'
  <2>1. UNCHANGED <<pk, feature>>
    BY <1>6 DEF TransferShadow
  <2>2. g \notin CarriersOf(s)
    BY <2>1, CarrierLemma
  <2>3. featureOwner'[g] = featureOwner[g]
    BY <1>6, <2>2 DEF TransferShadow
  <2> QED BY <1>K, <2>1, <2>3 DEF HeldKey, Born
<1>7. ASSUME NEW u \in Users, NEW s \in Shadows, Solve(u, s)
      PROVE  HeldKey(g)'
  <2>1. UNCHANGED <<pk, featureOwner>> /\ ~shadow[s].solved
    BY <1>7 DEF Solve, OwnerCall, OwnsUnsolved
  <2>2. CASE g \in CarriersOf(s)
    <3>1. feature'[g].checkpoint = manifest[s][feature[g].hostSlotIdx].liveStateHash
      BY <1>7, <2>2 DEF Solve, Revealed, Extracted
    <3> QED BY <1>R, <2>1, <2>2, <3>1
  <2>3. CASE g \notin CarriersOf(s)
    BY <1>7, <1>F, <2>1, <2>3 DEF Solve
  <2> QED BY <2>2, <2>3
<1>8. ASSUME NEW u \in Users, NEW to \in Users, NEW f \in Features, TransferHeld(u, to, f)
      PROVE  HeldKey(g)'
  <2>1. /\ UNCHANGED pk
        /\ feature' = [feature EXCEPT
             ![f].checkpoint = Rekeyed(feature[f].checkpoint, pk[to], "HELD_TRANSFER")]
        /\ featureOwner' = [featureOwner EXCEPT ![f] = to]
    BY <1>8 DEF TransferHeld, TransferFeature
  <2>2. CASE g = f
    <3>1. feature'[g].checkpoint = Rekeyed(feature[f].checkpoint, pk[to], "HELD_TRANSFER")
      BY <1>T, <2>1, <2>2 DEF Feature
    <3>2. featureOwner'[g] = to
      BY <1>T, <2>1, <2>2
    <3> QED BY <2>1, <3>1, <3>2 DEF HeldKey, OpensFor, Rekeyed
  <2>3. CASE g # f
    BY <1>K, <1>T, <2>1, <2>3 DEF HeldKey, Born, OpensFor
  <2> QED BY <2>2, <2>3
<1> QED
  BY <1>1, <1>2, <1>3, <1>4, <1>5, <1>6, <1>7, <1>8, MutateLemma
     DEF Next, vars, tokenVars, featureVars, RegisterImage, RefreshAfterCallback,
         MutateEntries, SetZIndexCommit, TransferFrom, Pause, Unpause

LEMMA KeyStep ==
  ASSUME TypeOK, NothingBeforeMint, SingleHost, CarriersFollowHost,
         KeyFollowsOwner, [Next]_vars
  PROVE  KeyFollowsOwner'
<1>1. \A s \in Shadows : Unsolved(s)' => ShadowKey(s)'
  BY ShadowKeyStep
<1>2. \A f \in Features : Born(f)' /\ ~feature'[f].isInserted => HeldKey(f)'
  BY HeldKeyStep
<1>3. (KeyFollowsOwner <=>
        /\ \A s \in Shadows : Unsolved(s) => ShadowKey(s)
        /\ \A f \in Features : Born(f) /\ ~feature[f].isInserted => HeldKey(f))'
  BY KeyLemma, PTL
<1> QED BY <1>1, <1>2, <1>3
--------------------------------------------------------------------------------
(* What the contract keeps beside a live state, and what it will keep      *)
(* beside the carrier's next one: the tip of a held carrier has one event  *)
(* per count as well.                                                      *)
Bound(m) ==
  /\ m.mutationCount = m.liveStateHash.count
  /\ m.chainTip = m.liveStateHash.tip
  /\ Len(m.chainTip) = m.mutationCount + 1
  /\ FitsUint16(m.mutationCount)

HeldTips ==
  \A f \in Features : Born(f) =>
    Len(feature[f].checkpoint.tip) = feature[f].checkpoint.count + 1

LEMMA BoundHolding ==
  ASSUME NEW f \in Features, NEW live \in LiveState,
         FitsUint16(live.count), Len(live.tip) = live.count + 1
  PROVE  Bound(Holding(f, live))
BY HoldingType DEF Bound

LEMMA BoundStep ==
  ASSUME TypeOK, NothingBeforeMint, MetadataBound, HeldTips, [Next]_vars,
         NEW t \in Shadows, NEW j \in Slots, manifest'[t][j].kind = "OCCUPIED"
  PROVE  Bound(manifest'[t][j])
<1> USE ConstantFacts
<1>T. /\ feature \in [Features -> Feature]
      /\ shadowOwner \in [Shadows -> Users \cup {Zero}]
      /\ manifest \in [Shadows -> [Slots -> ManifestEntry]]
  BY DEF TypeOK, FeatureTypeOK
<1>M. \A s \in Shadows : \A i \in Slots :
        manifest[s][i].kind = "OCCUPIED" =>
          i \in Occupied(s) /\ Bound(manifest[s][i])
  BY DEF MetadataBound, Bound, Occupied
<1>1. ASSUME manifest'[t][j] = manifest[t][j]
      PROVE  Bound(manifest'[t][j])
  BY <1>1, <1>M
<1>2. ASSUME NEW u \in Users, NEW s \in Shadows, NEW pixels \in [MintSlots -> Pixels],
             MintShadow(u, s, pixels)
      PROVE  Bound(manifest'[t][j])
  <2> DEFINE born == MintedState(pixels[j], pk[u])
  <2>1. /\ t # s => manifest'[t][j] = manifest[t][j]
        /\ t = s /\ j \notin MintSlots => manifest'[t][j] = manifest[t][j]
        /\ t = s /\ j \in MintSlots => manifest'[t][j] = Holding(<<s, j>>, born)
    BY <1>2, <1>T DEF MintShadow
  <2>2. ASSUME j \in MintSlots
        PROVE  born \in LiveState /\ born.count = 0 /\ Len(born.tip) = 1
    <3>1. pk[u] \in Keys /\ pixels[j] \in Pixels
      BY <1>2, <2>2 DEF MintShadow
    <3> QED BY <3>1, MintedLemma
  <2> HIDE DEF born
  <2>3. CASE t = s /\ j \in MintSlots
    <3>1. FitsUint16(born.count)
      BY <2>2, <2>3, MaxCountAssumption DEF FitsUint16
    <3>2. Len(born.tip) = born.count + 1
      <4>1. 1 = 0 + 1
        OBVIOUS
      <4> QED BY <2>2, <2>3, <4>1, Zenon
    <3> QED BY <2>1, <2>2, <2>3, <3>1, <3>2, BoundHolding
  <2> QED BY <1>1, <2>1, <2>3
<1>3. ASSUME NEW u \in Users, NEW s \in Shadows, NEW times \in [Slots -> Nat],
             MutateEntries(u, s, times)
      PROVE  Bound(manifest'[t][j])
  <2> DEFINE old == manifest[s][j].liveStateHash
  <2>1. CASE t # s \/ times[j] = 0
    BY <1>1, <1>3, <1>T, <2>1 DEF MutateEntries, MutatedSlots
  <2>2. CASE t = s /\ times[j] # 0
    <3>1. j \in Occupied(s) /\ FitsUint16(old.count + times[j])
      BY <1>3, <2>2 DEF MutateEntries, MayMutate
    <3>2. manifest'[t][j] = Holding(manifest[s][j].featureId, Mutated(old, times[j]))
      BY <1>3, <1>T, <2>2 DEF MutateEntries, MutatedSlots
    <3>3. /\ old \in LiveState /\ manifest[s][j].featureId \in Features
          /\ Len(old.tip) = old.count + 1
      BY <3>1, OccupiedLemma DEF MetadataBound
    <3>4. old.count \in Nat /\ Len(old.tip) \in Nat
      BY <3>3 DEF LiveState
    <3> HIDE DEF old
    <3>5. /\ Mutated(old, times[j]) \in LiveState
          /\ Mutated(old, times[j]).count = old.count + times[j]
          /\ Len(Mutated(old, times[j]).tip) = Len(old.tip) + times[j]
          /\ times[j] \in Nat
      BY <3>3, MutatedLemma
    <3>6. Len(Mutated(old, times[j]).tip) = Mutated(old, times[j]).count + 1
      BY <3>3, <3>4, <3>5
    <3> QED BY <3>1, <3>2, <3>3, <3>5, <3>6, BoundHolding
  <2> QED BY <2>1, <2>2
<1>4. ASSUME NEW u \in Users, NEW s \in Shadows, NEW i \in Slots, ExtractSlot(u, s, i)
      PROVE  Bound(manifest'[t][j])
  BY <1>1, <1>4, <1>T DEF ExtractSlot, EmptyEntry
<1>5. ASSUME NEW u \in Users, NEW s \in Shadows, NEW i \in Slots, NEW f \in Features,
             InsertFeature(u, s, i, f)
      PROVE  Bound(manifest'[t][j])
  <2> DEFINE old == feature[f].checkpoint
  <2>1. CASE t # s \/ j # i
    BY <1>1, <1>5, <1>T, <2>1 DEF InsertFeature
  <2>2. CASE t = s /\ j = i
    <3>1. manifest'[t][j] = Holding(f, Mutated(old, 1)) /\ FitsUint16(old.count + 1)
      BY <1>5, <1>T, <2>2 DEF InsertFeature
    <3>2. Born(f)
      BY <1>5 DEF InsertFeature, Born
    <3>3. old \in LiveState /\ Len(old.tip) = old.count + 1
      BY <3>2 DEF NothingBeforeMint, HeldTips
    <3>4. old.count \in Nat /\ Len(old.tip) \in Nat
      BY <3>3 DEF LiveState
    <3> HIDE DEF old
    <3>5. /\ Mutated(old, 1) \in LiveState
          /\ Mutated(old, 1).count = old.count + 1
          /\ Len(Mutated(old, 1).tip) = Len(old.tip) + 1
      BY <3>3, MutatedLemma
    <3>6. Len(Mutated(old, 1).tip) = Mutated(old, 1).count + 1
      BY <3>3, <3>4, <3>5
    <3> QED BY <3>1, <3>5, <3>6, BoundHolding
  <2> QED BY <2>1, <2>2
<1>6. ASSUME NEW u \in Users, NEW to \in Users, NEW s \in Shadows, TransferShadow(u, s, to)
      PROVE  Bound(manifest'[t][j])
  <2>1. CASE t # s \/ j \notin Occupied(s)
    BY <1>1, <1>6, <1>T, <2>1 DEF TransferShadow
  <2>2. CASE t = s /\ j \in Occupied(s)
    <3> DEFINE m == manifest[s][j]
               live == Rekeyed(m.liveStateHash, pk[to], "TRANSFER")
    <3>1. manifest'[t][j] = TransferredSlot(m, pk[to]) /\ FitsUint16(m.mutationCount + 1)
      BY <1>6, <1>T, <2>2 DEF TransferShadow, MayTransferSlot
    <3>2. /\ m.liveStateHash \in LiveState
          /\ m.mutationCount = m.liveStateHash.count
          /\ m.chainTip = m.liveStateHash.tip
          /\ Len(m.chainTip) = m.mutationCount + 1
          /\ m.mutationCount \in Nat
      BY <2>2, OccupiedLemma DEF MetadataBound
    <3>3. /\ live.count = m.liveStateHash.count + 1
          /\ Len(live.tip) = Len(m.liveStateHash.tip) + 1
      BY <1>6, <3>2, RekeyedLemma DEF TransferShadow, Events
    <3>4. /\ manifest'[t][j].liveStateHash = live
          /\ manifest'[t][j].mutationCount = m.mutationCount + 1
          /\ manifest'[t][j].chainTip = live.tip
      BY <3>1 DEF TransferredSlot
    <3> HIDE DEF live, m
    <3> QED BY <3>1, <3>2, <3>3, <3>4 DEF Bound
  <2> QED BY <2>1, <2>2
<1>7. ASSUME NEW u \in Users, NEW s \in Shadows, Solve(u, s)
      PROVE  Bound(manifest'[t][j])
  BY <1>1, <1>7, <1>T DEF Solve, EmptyEntry
<1> QED
  BY <1>1, <1>2, <1>3, <1>4, <1>5, <1>6, <1>7, MutateLemma
     DEF Next, vars, tokenVars, featureVars, RegisterKey, RegisterImage,
         RefreshAfterCallback, SetZIndexCommit, TransferFrom, TransferHeld,
         Pause, Unpause

LEMMA HeldTipsStep ==
  ASSUME TypeOK, NothingBeforeMint, MetadataBound, HeldTips, [Next]_vars
  PROVE  HeldTips'
<1> USE ConstantFacts
<1> SUFFICES ASSUME NEW g \in Features, Born(g)'
             PROVE  Len(feature'[g].checkpoint.tip) = feature'[g].checkpoint.count + 1
  BY DEF HeldTips
<1>T. /\ feature \in [Features -> Feature]
      /\ featureOwner \in [Features -> Users \cup {Zero}]
      /\ shadowOwner \in [Shadows -> Users \cup {Zero}]
  BY DEF TypeOK, FeatureTypeOK
<1> DEFINE Ok == Len(feature'[g].checkpoint.tip) = feature'[g].checkpoint.count + 1
<1>M. \A s \in Shadows : \A i \in Occupied(s) :
        Len(manifest[s][i].liveStateHash.tip) = manifest[s][i].liveStateHash.count + 1
  BY DEF MetadataBound
<1>1. ASSUME Born(g)' <=> Born(g), feature'[g].checkpoint = feature[g].checkpoint
      PROVE  Ok
  BY <1>1 DEF HeldTips
<1>2. ASSUME NEW u \in Users, NEW s \in Shadows, NEW pixels \in [MintSlots -> Pixels],
             MintShadow(u, s, pixels)
      PROVE  Ok
  <2>1. CASE g[1] = s
    <3>1. feature'[g].checkpoint = MintedState(pixels[g[2]], pk[u])
      BY <1>2, <2>1 DEF MintShadow, BornIn
    <3>2. pk[u] \in Keys /\ pixels[g[2]] \in Pixels
      BY <1>2 DEF MintShadow
    <3>3. feature'[g].checkpoint.count = 0 /\ Len(feature'[g].checkpoint.tip) = 1
      BY <3>1, <3>2, MintedLemma
    <3> QED BY <3>3
  <2>2. CASE g[1] # s
    BY <1>1, <1>2, <2>2 DEF MintShadow, Born
  <2> QED BY <2>1, <2>2
<1>3. ASSUME NEW u \in Users, NEW s \in Shadows, NEW i \in Slots, ExtractSlot(u, s, i)
      PROVE  Ok
  <2> DEFINE f == manifest[s][i].featureId
             live == manifest[s][i].liveStateHash
  <2>1. /\ f \in Features /\ i \in Occupied(s) /\ UNCHANGED featureOwner
        /\ feature' = [feature EXCEPT ![f] = Extracted(feature[f], live)]
    BY <1>3, OccupiedLemma DEF ExtractSlot
  <2>2. Len(live.tip) = live.count + 1
    BY <1>M, <2>1
  <2> HIDE DEF f, live
  <2>3. g = f => feature'[g].checkpoint = live
    BY <1>T, <2>1 DEF Extracted
  <2>4. g # f => feature'[g] = feature[g]
    BY <1>T, <2>1
  <2> QED BY <1>1, <2>1, <2>2, <2>3, <2>4 DEF Born
<1>4. ASSUME NEW u \in Users, NEW s \in Shadows, NEW i \in Slots, NEW f \in Features,
             InsertFeature(u, s, i, f)
      PROVE  Ok
  <2>1. feature'[g].checkpoint = feature[g].checkpoint
    BY <1>4, <1>T DEF InsertFeature, InsertedInto
  <2> QED BY <1>1, <1>4, <2>1 DEF InsertFeature, Born
<1>5. ASSUME NEW u \in Users, NEW to \in Users, NEW s \in Shadows, TransferShadow(u, s, to)
      PROVE  Ok
  <2>1. g \in CarriersOf(s) => Born(g)
    <3>1. \A i \in Occupied(s) : feature[manifest[s][i].featureId].isInserted
      BY <1>5 DEF TransferShadow, MayTransferSlot, MayRotate
    <3> QED BY <3>1 DEF CarriersOf, NothingBeforeMint, NoFeature
  <2>2. Born(g)
    BY <1>5, <2>1 DEF TransferShadow, Born
  <2> QED BY <1>1, <1>5, <2>2 DEF TransferShadow
<1>6. ASSUME NEW u \in Users, NEW s \in Shadows, Solve(u, s)
      PROVE  Ok
  <2>1. CASE g \in CarriersOf(s)
    <3>1. PICK i \in Occupied(s) : g = manifest[s][i].featureId
      BY <2>1 DEF CarriersOf
    <3>2. feature[g].hostSlotIdx = i
      BY <1>6, <3>1 DEF Solve, MaySolveSlot, MayExtract
    <3>3. feature'[g].checkpoint = manifest[s][i].liveStateHash
      BY <1>6, <2>1, <3>2 DEF Solve, Revealed, Extracted
    <3> QED BY <1>M, <3>3
  <2>2. CASE g \notin CarriersOf(s)
    BY <1>1, <1>6, <2>2 DEF Solve, Born
  <2> QED BY <2>1, <2>2
<1>7. ASSUME NEW u \in Users, NEW to \in Users, NEW f \in Features, TransferHeld(u, to, f)
      PROVE  Ok
  <2> DEFINE old == feature[f].checkpoint
             live == Rekeyed(old, pk[to], "HELD_TRANSFER")
  <2>1. /\ feature' = [feature EXCEPT ![f].checkpoint = live]
        /\ featureOwner' = [featureOwner EXCEPT ![f] = to]
        /\ featureOwner[f] = u /\ pk[to] \in Keys
    BY <1>7 DEF TransferHeld, TransferFeature
  <2>2. Born(f) /\ old \in LiveState /\ Len(old.tip) = old.count + 1
    BY <2>1 DEF Born, NothingBeforeMint, HeldTips
  <2>3. live.count = old.count + 1 /\ Len(live.tip) = Len(old.tip) + 1
    BY <2>1, <2>2, RekeyedLemma DEF Events
  <2> HIDE DEF live
  <2>4. CASE g = f
    <3>1. feature'[g].checkpoint = live
      BY <1>T, <2>1, <2>4 DEF Feature
    <3> QED BY <2>2, <2>3, <3>1
  <2>5. CASE g # f
    <3>1. feature'[g] = feature[g] /\ featureOwner'[g] = featureOwner[g]
      BY <1>T, <2>1, <2>5
    <3> QED BY <1>1, <3>1 DEF Born
  <2> QED BY <2>4, <2>5
<1> HIDE DEF Ok
<1> QED
  <2>1. Ok
    BY <1>1, <1>2, <1>3, <1>4, <1>5, <1>6, <1>7, MutateLemma
       DEF Next, vars, tokenVars, featureVars, RegisterKey, RegisterImage,
           RefreshAfterCallback, MutateEntries, SetZIndexCommit, TransferFrom,
           Pause, Unpause, Born
  <2> QED BY <2>1 DEF Ok

LEMMA MetadataStep ==
  ASSUME TypeOK, NothingBeforeMint, MetadataBound, HeldTips, [Next]_vars
  PROVE  MetadataBound' /\ HeldTips'
<1>1. \A t \in Shadows : \A j \in Occupied(t)' : Bound(manifest'[t][j])
  BY BoundStep DEF Occupied
<1> QED BY <1>1, HeldTipsStep DEF MetadataBound, Bound
--------------------------------------------------------------------------------
(* The thumbnail: every call that writes what it is computed from refreshes*)
(* it last, a call that freezes the shadow excepted.                       *)
InMint(s) == \E n \in 1..Len(minting) : minting[n] = s

LEMMA T10Step ==
  ASSUME TypeOK, NothingBeforeMint, T10Fresh, [Next]_vars
  PROVE  T10Fresh'
<1> USE ConstantFacts
<1> SUFFICES ASSUME NEW t \in Shadows, Unsolved(t)', ~InMint(t)'
             PROVE  shadowT10'[t] = T10Of(shadow'[t].zIndexCommit, manifest'[t])
  BY DEF T10Fresh, InMint
<1>T. /\ shadowOwner \in [Shadows -> Users \cup {Zero}]
      /\ shadow \in [Shadows -> Shadow]
      /\ manifest \in [Shadows -> [Slots -> ManifestEntry]]
      /\ shadowT10 \in [Shadows -> T10 \cup {Zero}]
      /\ minting \in Seq(Shadows)
  BY DEF TypeOK, FeatureTypeOK
<1> DEFINE Fresh == shadowT10'[t] = T10Of(shadow'[t].zIndexCommit, manifest'[t])
<1>F. Unsolved(t) /\ ~InMint(t) => shadowT10[t] = T10Of(shadow[t].zIndexCommit, manifest[t])
  BY DEF T10Fresh, InMint
<1>R. ASSUME RefreshT10(t)
      PROVE  Fresh
  BY <1>R, <1>T DEF RefreshT10
<1>U. ASSUME Unsolved(t), UNCHANGED minting, shadow'[t] = shadow[t],
             manifest'[t] = manifest[t], shadowT10'[t] = shadowT10[t]
      PROVE  Fresh
  BY <1>F, <1>U DEF InMint
<1>1. ASSUME UNCHANGED <<shadowOwner, shadow, manifest, shadowT10, minting>>
      PROVE  Fresh
  BY <1>1, <1>U DEF Unsolved, Minted
<1>2. ASSUME NEW u \in Users, NEW s \in Shadows, NEW pixels \in [MintSlots -> Pixels],
             MintShadow(u, s, pixels)
      PROVE  Fresh
  <2>1. t # s => /\ shadow'[t] = shadow[t]
                 /\ manifest'[t] = manifest[t]
                 /\ Unsolved(t)
    BY <1>2, <1>T DEF MintShadow, Unsolved, Minted
  <2>2. CASE RefreshT10(s) /\ UNCHANGED minting
    <3>1. t # s => shadowT10'[t] = shadowT10[t]
      BY <1>T, <2>2 DEF RefreshT10
    <3> QED BY <1>R, <1>U, <2>1, <2>2, <3>1
  <2>3. CASE minting' = Append(minting, s) /\ UNCHANGED shadowT10
    <3>1. /\ Len(minting') = Len(minting) + 1
          /\ minting'[Len(minting')] = s
          /\ \A n \in 1..Len(minting) : minting'[n] = minting[n]
      BY <1>T, <2>3
    <3>2. t # s /\ ~InMint(t)
      BY <1>T, <3>1 DEF InMint
    <3> QED BY <1>F, <2>1, <2>3, <3>2
  <2> QED BY <1>2, <2>2, <2>3 DEF MintShadow
<1>3. ASSUME RefreshAfterCallback
      PROVE  Fresh
  <2> DEFINE n == Len(minting)
             s == minting[n]
  <2>1. /\ n \in Nat \ {0} /\ s \in Shadows
        /\ RefreshT10(s)
        /\ UNCHANGED <<shadowOwner, shadow, manifest>>
        /\ minting' = SubSeq(minting, 1, n - 1)
    BY <1>3, <1>T DEF RefreshAfterCallback
  <2>2. CASE t = s
    BY <1>R, <2>1, <2>2
  <2>3. CASE t # s
    <3>1. /\ Len(minting') = n - 1
          /\ \A k \in 1..(n - 1) : minting'[k] = minting[k]
      <4>1. \A k \in 1..(n - 1) : minting[k] \in Shadows
        BY <1>T
      <4>2. /\ Len(SubSeq(minting, 1, n - 1)) = IF 1 <= n - 1 THEN n - 1 - 1 + 1 ELSE 0
            /\ \A k \in 1..(n - 1 - 1 + 1) : SubSeq(minting, 1, n - 1)[k] = minting[1 + k - 1]
        BY <2>1, <4>1, SubSeqProperties
      <4> HIDE DEF n
      <4> QED BY <2>1, <4>2
    <3>2. ~InMint(t)
      BY <1>T, <2>1, <2>3, <3>1 DEF InMint
    <3>3. shadowT10'[t] = shadowT10[t]
      BY <1>T, <2>1, <2>3 DEF RefreshT10
    <3> QED BY <1>F, <2>1, <3>2, <3>3 DEF Unsolved, Minted
  <2> QED BY <2>2, <2>3
<1>4. ASSUME NEW u \in Users, NEW s \in Shadows, OwnerCall(u, s), UNCHANGED minting,
             \A x \in Shadows : x # s => /\ shadowOwner'[x] = shadowOwner[x]
                                         /\ shadow'[x] = shadow[x]
                                         /\ manifest'[x] = manifest[x],
             RefreshT10(s)
      PROVE  Fresh
  <2>1. t # s => Unsolved(t) /\ shadowT10'[t] = shadowT10[t]
    BY <1>4, <1>T DEF RefreshT10, Unsolved, Minted
  <2> QED BY <1>4, <1>R, <1>U, <2>1
<1>5. ASSUME NEW u \in Users, NEW s \in Shadows, NEW times \in [Slots -> Nat],
             MutateEntries(u, s, times)
      PROVE  Fresh
  BY <1>5, <1>4, <1>T DEF MutateEntries
<1>6. ASSUME NEW u \in Users, NEW s \in Shadows, NEW i \in Slots, ExtractSlot(u, s, i)
      PROVE  Fresh
  BY <1>6, <1>4, <1>T DEF ExtractSlot
<1>7. ASSUME NEW u \in Users, NEW s \in Shadows, NEW i \in Slots, NEW f \in Features,
             InsertFeature(u, s, i, f)
      PROVE  Fresh
  BY <1>7, <1>4, <1>T DEF InsertFeature
<1>8. ASSUME NEW u \in Users, NEW to \in Users, NEW s \in Shadows, TransferShadow(u, s, to)
      PROVE  Fresh
  BY <1>8, <1>4, <1>T DEF TransferShadow
<1>9. ASSUME NEW u \in Users, NEW s \in Shadows, NEW perm \in Perms,
             SetZIndexCommit(u, s, perm)
      PROVE  Fresh
  BY <1>9, <1>4, <1>T DEF SetZIndexCommit
<1>10. ASSUME NEW u \in Users, NEW s \in Shadows, Solve(u, s)
       PROVE  Fresh
  <2>1. /\ UNCHANGED <<shadowOwner, shadowT10, minting>>
        /\ shadow'[s].solved
        /\ t # s => shadow'[t] = shadow[t] /\ manifest'[t] = manifest[t]
    BY <1>10, <1>T DEF Solve, Frozen
  <2> QED BY <1>U, <2>1 DEF Unsolved, Minted
<1>11. ASSUME NEW s \in Shadows, NEW to \in Users, TransferFrom(s, to)
       PROVE  Fresh
  <2>1. t # s /\ Unsolved(t)
    BY <1>11, <1>T DEF TransferFrom, Unsolved, Minted
  <2> QED BY <1>11, <1>U, <2>1 DEF TransferFrom
<1> HIDE DEF Fresh
<1> QED
  <2>1. Fresh
    BY <1>1, <1>2, <1>3, <1>5, <1>6, <1>7, <1>8, <1>9, <1>10, <1>11, MutateLemma
       DEF Next, vars, tokenVars, featureVars, RegisterKey, RegisterImage,
           TransferHeld, Pause, Unpause
  <2> QED BY <2>1 DEF Fresh
--------------------------------------------------------------------------------
(* The inductive invariant: each property above needs some of the others,  *)
(* all of them need the types, and the count of a slot filled from a held  *)
(* carrier needs the tip of its checkpoint.                                *)
IndInv ==
  /\ TypeOK
  /\ NothingBeforeMint
  /\ SingleHost
  /\ CarriersFollowHost
  /\ KeyFollowsOwner
  /\ MetadataBound
  /\ HeldTips
  /\ T10Fresh

LEMMA InitLemma == Init => IndInv
<1> SUFFICES ASSUME Init PROVE IndInv
  OBVIOUS
<1> USE ConstantFacts
<1>I. /\ pk = [u \in Users |-> Zero]
      /\ feature = [f \in Features |-> NoFeature]
      /\ featureOwner = [f \in Features |-> Zero]
      /\ paused = {}
      /\ registeredImages = {} /\ mintedOrigins = {}
      /\ shadowOwner = [s \in Shadows |-> Zero]
      /\ shadow = [s \in Shadows |-> NoShadow]
      /\ manifest = [s \in Shadows |-> [i \in Slots |-> EmptyEntry]]
      /\ shadowT10 = [s \in Shadows |-> Zero]
      /\ minting = <<>>
  BY DEF Init, RegistryInit, FeatureInit
<1>1. TypeOK
  <2>1. NoFeature \in Feature
    BY DEF NoFeature, Feature
  <2>2. NoShadow \in Shadow
    BY DEF NoShadow, Shadow
  <2> QED BY <1>I, <2>1, <2>2 DEF TypeOK, RegistryTypeOK, FeatureTypeOK, ManifestEntry
<1>2. /\ \A s \in Shadows : ~Minted(s) /\ Occupied(s) = {}
      /\ \A f \in Features : ~Born(f) /\ ~feature[f].isInserted
  BY <1>I DEF Minted, Born, Occupied, EmptyEntry, NoFeature
<1>3. NothingBeforeMint
  BY <1>I, <1>2 DEF NothingBeforeMint
<1>4. SingleHost /\ CarriersFollowHost /\ KeyFollowsOwner /\ MetadataBound
  BY <1>2 DEF SingleHost, CarriersFollowHost, KeyFollowsOwner, MetadataBound, Unsolved
<1>5. HeldTips /\ T10Fresh
  BY <1>2 DEF HeldTips, T10Fresh, Unsolved
<1> QED BY <1>1, <1>3, <1>4, <1>5 DEF IndInv

LEMMA StepLemma == IndInv /\ [Next]_vars => IndInv'
<1> SUFFICES ASSUME IndInv, [Next]_vars PROVE IndInv'
  OBVIOUS
<1>1. TypeOK'
  BY TypeStep DEF IndInv
<1>2. NothingBeforeMint'
  BY BirthStep DEF IndInv
<1>3. SingleHost'
  BY <1>1, HostStep DEF IndInv
<1>4. CarriersFollowHost'
  BY FollowStep DEF IndInv
<1>5. KeyFollowsOwner'
  BY KeyStep DEF IndInv
<1>6. MetadataBound' /\ HeldTips'
  BY MetadataStep DEF IndInv
<1>7. T10Fresh'
  BY T10Step DEF IndInv
<1> QED BY <1>1, <1>2, <1>3, <1>4, <1>5, <1>6, <1>7 DEF IndInv

THEOREM Inductive == Spec => []IndInv
BY InitLemma, StepLemma, PTL DEF Spec

(* Every variable of the two contracts and the registry stays in its type. *)
THEOREM TypeCorrect == Spec => []TypeOK
<1>1. IndInv => TypeOK
  BY DEF IndInv
<1> QED BY <1>1, Inductive, PTL

(* No image is minted twice and nothing of a shadow exists before its mint.*)
THEOREM MintedOnce == Spec => []NothingBeforeMint
<1>1. IndInv => NothingBeforeMint
  BY DEF IndInv
<1> QED BY <1>1, Inductive, PTL

(* ShadowToken's manifests and FeatureNFT's records agree on custody: every*)
(* carrier is in at most one slot, and in the slot it names.               *)
THEOREM CustodyAgreed == Spec => []SingleHost
<1>1. IndInv => SingleHost
  BY DEF IndInv
<1> QED BY <1>1, Inductive, PTL

(* Whoever owns a shadow owns the carriers in it, and a solved one has none.*)
THEOREM CarriersTravel == Spec => []CarriersFollowHost
<1>1. IndInv => CarriersFollowHost
  BY DEF IndInv
<1> QED BY <1>1, Inductive, PTL

(* What an account owns is encrypted to the key it registered.             *)
THEOREM OwnersCanOpen == Spec => []KeyFollowsOwner
<1>1. IndInv => KeyFollowsOwner
  BY DEF IndInv
<1> QED BY <1>1, Inductive, PTL

(* The counts and tips the contract stores are those its states commit to. *)
THEOREM MetadataAuthentic == Spec => []MetadataBound
<1>1. IndInv => MetadataBound
  BY DEF IndInv
<1> QED BY <1>1, Inductive, PTL

(* The thumbnail of an unsolved shadow is never stale between mints.       *)
THEOREM ThumbnailFresh == Spec => []T10Fresh
<1>1. IndInv => T10Fresh
  BY DEF IndInv
<1> QED BY <1>1, Inductive, PTL
--------------------------------------------------------------------------------
(* No step writes the record or the slots of a solved shadow.              *)
LEMMA FrozenStep ==
  ASSUME IndInv, [Next]_vars, NEW t \in Shadows, shadow[t].solved
  PROVE  shadow'[t] = shadow[t] /\ manifest'[t] = manifest[t]
<1> USE ConstantFacts
<1>T. /\ shadowOwner \in [Shadows -> Users \cup {Zero}]
      /\ shadow \in [Shadows -> Shadow]
      /\ manifest \in [Shadows -> [Slots -> ManifestEntry]]
  BY DEF IndInv, TypeOK
<1>1. ASSUME UNCHANGED <<shadow, manifest>>
      PROVE  shadow'[t] = shadow[t] /\ manifest'[t] = manifest[t]
  BY <1>1
<1>2. ASSUME NEW s \in Shadows, s # t,
             \E rec : shadow' = [shadow EXCEPT ![s] = rec],
             \E slots : manifest' = [manifest EXCEPT ![s] = slots]
      PROVE  shadow'[t] = shadow[t] /\ manifest'[t] = manifest[t]
  BY <1>2, <1>T
<1>3. ASSUME NEW u \in Users, NEW s \in Shadows, NEW pixels \in [MintSlots -> Pixels],
             MintShadow(u, s, pixels)
      PROVE  shadow'[t] = shadow[t] /\ manifest'[t] = manifest[t]
  <2>1. shadow[s] = NoShadow
    BY <1>3 DEF MintShadow, IndInv, NothingBeforeMint, Minted
  <2>2. s # t
    BY <2>1 DEF NoShadow
  <2> QED BY <1>3, <2>2, <1>T DEF MintShadow
<1>4. ASSUME NEW u \in Users, NEW s \in Shadows, OwnerCall(u, s)
      PROVE  s # t
  BY <1>4 DEF OwnerCall, OwnsUnsolved
<1>5. ASSUME NEW u \in Users, NEW s \in Shadows, NEW times \in [Slots -> Nat],
             MutateEntries(u, s, times)
      PROVE  shadow'[t] = shadow[t] /\ manifest'[t] = manifest[t]
  BY <1>5, <1>4, <1>T DEF MutateEntries
<1>6. ASSUME NEW u \in Users, NEW s \in Shadows, NEW i \in Slots, ExtractSlot(u, s, i)
      PROVE  shadow'[t] = shadow[t] /\ manifest'[t] = manifest[t]
  BY <1>6, <1>4, <1>T DEF ExtractSlot
<1>7. ASSUME NEW u \in Users, NEW s \in Shadows, NEW i \in Slots, NEW f \in Features,
             InsertFeature(u, s, i, f)
      PROVE  shadow'[t] = shadow[t] /\ manifest'[t] = manifest[t]
  BY <1>7, <1>4, <1>T DEF InsertFeature
<1>8. ASSUME NEW u \in Users, NEW to \in Users, NEW s \in Shadows, TransferShadow(u, s, to)
      PROVE  shadow'[t] = shadow[t] /\ manifest'[t] = manifest[t]
  BY <1>8, <1>4, <1>T DEF TransferShadow
<1>9. ASSUME NEW u \in Users, NEW s \in Shadows, NEW perm \in Perms,
             SetZIndexCommit(u, s, perm)
      PROVE  shadow'[t] = shadow[t] /\ manifest'[t] = manifest[t]
  BY <1>9, <1>4, <1>T DEF SetZIndexCommit
<1>10. ASSUME NEW u \in Users, NEW s \in Shadows, Solve(u, s)
      PROVE  shadow'[t] = shadow[t] /\ manifest'[t] = manifest[t]
  BY <1>10, <1>4, <1>T DEF Solve
<1>11. ASSUME NEW s \in Shadows, NEW to \in Users, TransferFrom(s, to)
      PROVE  UNCHANGED <<shadow, manifest>>
  BY <1>11 DEF TransferFrom
<1>12. ASSUME NEW u \in Users, NEW to \in Users, NEW f \in Features, TransferHeld(u, to, f)
      PROVE  UNCHANGED <<shadow, manifest>>
  BY <1>12 DEF TransferHeld, tokenVars
<1> QED BY <1>1, <1>3, <1>5, <1>6, <1>7, <1>8, <1>9, <1>10, <1>11, <1>12, MutateLemma
     DEF Next, vars, tokenVars, RegisterKey, RegisterImage, RefreshAfterCallback,
         Pause, Unpause

(* A slot in use holds an inserted carrier, whose host is not solved.      *)
LEMMA SolvedEmpty ==
  ASSUME IndInv, NEW t \in Shadows, shadow[t].solved
  PROVE  Occupied(t) = {}
<1>1. ASSUME NEW i \in Occupied(t) PROVE FALSE
  <2>1. \E g \in Features : feature[g].isInserted /\ feature[g].hostShadowId = t
    BY <1>1 DEF IndInv, SingleHost, MayExtract
  <2> QED BY <2>1 DEF IndInv, CarriersFollowHost
<1> QED BY <1>1

(* Once solved a shadow stays solved, and its record and empty slots are   *)
(* never written again.                                                    *)
THEOREM SolvedForGood == Spec => SolvedIsFinal
<1> DEFINE Final == \A s \in Shadows : shadow[s].solved =>
                      /\ shadow'[s] = shadow[s]
                      /\ Occupied(s) = {}
                      /\ Occupied(s)' = {}
<1>1. ASSUME IndInv, [Next]_vars PROVE Final
  <2> SUFFICES ASSUME NEW s \in Shadows, shadow[s].solved
               PROVE  /\ shadow'[s] = shadow[s]
                      /\ Occupied(s) = {}
                      /\ Occupied(s)' = {}
    OBVIOUS
  <2>1. shadow'[s] = shadow[s] /\ manifest'[s] = manifest[s]
    BY <1>1, FrozenStep
  <2>2. Occupied(s) = {}
    BY <1>1, SolvedEmpty
  <2> QED BY <2>1, <2>2 DEF Occupied
<1>2. IndInv /\ [Next]_vars => [Final]_vars
  BY <1>1
<1> QED BY <1>2, Inductive, PTL DEF Spec, SolvedIsFinal

(* Only a mint's own end writes the thumbnail of a solved shadow.          *)
LEMMA ThumbnailStep ==
  ASSUME IndInv, [Next]_vars, NEW t \in Shadows, shadow[t].solved,
         \A n \in DOMAIN minting : minting[n] # t
  PROVE  shadowT10'[t] = shadowT10[t]
<1> USE ConstantFacts
<1>T. shadowT10 \in [Shadows -> T10 \cup {Zero}] /\ minting \in Seq(Shadows)
  BY DEF IndInv, TypeOK
<1>1. ASSUME UNCHANGED shadowT10
      PROVE  shadowT10'[t] = shadowT10[t]
  BY <1>1
<1>2. ASSUME NEW s \in Shadows, s # t, RefreshT10(s)
      PROVE  shadowT10'[t] = shadowT10[t]
  BY <1>2, <1>T DEF RefreshT10
<1>3. ASSUME NEW u \in Users, NEW s \in Shadows, NEW pixels \in [MintSlots -> Pixels],
             MintShadow(u, s, pixels)
      PROVE  shadowT10'[t] = shadowT10[t]
  <2>1. shadow[s] = NoShadow
    BY <1>3 DEF MintShadow, IndInv, NothingBeforeMint, Minted
  <2>2. s # t
    BY <2>1 DEF NoShadow
  <2>3. RefreshT10(s) \/ UNCHANGED shadowT10
    BY <1>3 DEF MintShadow
  <2> QED BY <2>2, <2>3, <1>1, <1>2
<1>4. ASSUME RefreshAfterCallback
      PROVE  shadowT10'[t] = shadowT10[t]
  <2>1. minting # <<>> /\ RefreshT10(minting[Len(minting)])
    BY <1>4 DEF RefreshAfterCallback
  <2>2. Len(minting) \in DOMAIN minting /\ minting[Len(minting)] \in Shadows
    BY <2>1, <1>T
  <2> QED BY <2>1, <2>2, <1>2
<1>5. ASSUME NEW u \in Users, NEW s \in Shadows, OwnerCall(u, s)
      PROVE  s # t
  BY <1>5 DEF OwnerCall, OwnsUnsolved
<1>6. ASSUME NEW u \in Users, NEW s \in Shadows, NEW times \in [Slots -> Nat],
             MutateEntries(u, s, times)
      PROVE  shadowT10'[t] = shadowT10[t]
  BY <1>6, <1>5, <1>2 DEF MutateEntries
<1>7. ASSUME NEW u \in Users, NEW s \in Shadows, NEW i \in Slots,
             \/ ExtractSlot(u, s, i)
             \/ \E f \in Features : InsertFeature(u, s, i, f)
      PROVE  shadowT10'[t] = shadowT10[t]
  BY <1>7, <1>5, <1>2 DEF ExtractSlot, InsertFeature
<1>8. ASSUME NEW u \in Users, NEW s \in Shadows, NEW perm \in Perms,
             SetZIndexCommit(u, s, perm)
      PROVE  shadowT10'[t] = shadowT10[t]
  BY <1>8, <1>5, <1>2 DEF SetZIndexCommit
<1>9. ASSUME NEW u \in Users, NEW to \in Users, NEW s \in Shadows, TransferShadow(u, s, to)
      PROVE  shadowT10'[t] = shadowT10[t]
  BY <1>9, <1>5, <1>2 DEF TransferShadow
<1>10. ASSUME NEW u \in Users, NEW s \in Shadows, Solve(u, s) PROVE UNCHANGED shadowT10
  BY <1>10 DEF Solve
<1>11. ASSUME NEW s \in Shadows, NEW to \in Users, TransferFrom(s, to)
      PROVE  UNCHANGED shadowT10
  BY <1>11 DEF TransferFrom
<1>12. ASSUME NEW u \in Users, NEW to \in Users, NEW f \in Features, TransferHeld(u, to, f)
      PROVE  UNCHANGED shadowT10
  BY <1>12 DEF TransferHeld, tokenVars
<1>13. ASSUME \/ UNCHANGED vars
              \/ \E u \in Users, k \in Keys : RegisterKey(u, k)
              \/ \E s \in Shadows : RegisterImage(s)
              \/ \E c \in Pausable : Pause(c) \/ Unpause(c)
      PROVE  UNCHANGED shadowT10
  BY <1>13 DEF vars, tokenVars, RegisterKey, RegisterImage, Pause, Unpause
<1> QED BY <1>1, <1>3, <1>4, <1>6, <1>7, <1>8, <1>9, <1>10, <1>11, <1>12, <1>13, MutateLemma
     DEF Next

(* The thumbnail of a solved shadow stays, except at the end of a mint in  *)
(* whose callback the shadow was solved.                                   *)
THEOREM SolvedThumbnailStays == Spec => SolvedT10Frozen
<1> DEFINE Stays == \A s \in Shadows :
       shadow[s].solved /\ (\A n \in DOMAIN minting : minting[n] # s) =>
         shadowT10'[s] = shadowT10[s]
<1>1. ASSUME IndInv, [Next]_vars PROVE Stays
  BY <1>1, ThumbnailStep
<1>2. IndInv /\ [Next]_vars => [Stays]_vars
  BY <1>1
<1> QED BY <1>2, Inductive, PTL DEF Spec, SolvedT10Frozen
--------------------------------------------------------------------------------
(* A live state continues another one: same pixels, a tip that extends it.  *)
Continues(new, old) ==
  /\ new.pixels = old.pixels
  /\ Len(old.tip) <= Len(new.tip)
  /\ SubSeq(new.tip, 1, Len(old.tip)) = old.tip

LEMMA PrefixOfConcat ==
  ASSUME NEW S, NEW s \in Seq(S), NEW t \in Seq(S)
  PROVE  /\ Len(s) <= Len(s \o t)
         /\ SubSeq(s \o t, 1, Len(s)) = s
<1>1. s \o t \in Seq(S) /\ Len(s \o t) = Len(s) + Len(t)
  OBVIOUS
<1>2. Len(s) \in Nat /\ Len(t) \in Nat
  OBVIOUS
<1>3. CASE s = <<>>
  <2>1. SubSeq(s \o t, 1, 0) = <<>>
    BY SubSeqEmpty
  <2> QED BY <1>1, <1>2, <1>3, <2>1
<1>4. CASE s # <<>>
  <2>1. 1 \in 1..Len(s) /\ Len(s) \in 1..Len(s)
    BY <1>4
  <2>2. SubSeq(s \o t, 1, Len(s)) = SubSeq(s, 1, Len(s))
    BY <2>1, SubSeqOfConcat1
  <2>3. SubSeq(s, 1, Len(s)) = s
    BY SubSeqFull
  <2> QED BY <1>1, <1>2, <2>2, <2>3
<1> QED BY <1>3, <1>4

LEMMA ContinuesLemma ==
  ASSUME NEW live \in LiveState
  PROVE  /\ Continues(live, live)
         /\ \A n \in Nat : Continues(Mutated(live, n), live)
         /\ \A key \in Keys, event \in Events : Continues(Rekeyed(live, key, event), live)
<1>1. live.tip \in Seq(Events)
  BY DEF LiveState
<1>2. Continues(live, live)
  BY <1>1, SubSeqFull DEF Continues
<1>3. ASSUME NEW n \in Nat PROVE Continues(Mutated(live, n), live)
  <2> DEFINE more == [j \in 1..n |-> "MUTATE"]
  <2>1. more \in Seq(Events)
    BY DEF Events
  <2>2. Mutated(live, n).pixels = live.pixels /\ Mutated(live, n).tip = live.tip \o more
    BY MutatedLemma
  <2> HIDE DEF more
  <2>3. /\ Len(live.tip) <= Len(live.tip \o more)
        /\ SubSeq(live.tip \o more, 1, Len(live.tip)) = live.tip
    BY <1>1, <2>1, PrefixOfConcat
  <2> QED BY <2>2, <2>3 DEF Continues
<1>4. ASSUME NEW key \in Keys, NEW event \in Events
      PROVE  Continues(Rekeyed(live, key, event), live)
  <2>1. /\ Rekeyed(live, key, event).pixels = live.pixels
        /\ Rekeyed(live, key, event).tip = Append(live.tip, event)
    BY RekeyedLemma
  <2>2. Append(live.tip, event) = live.tip \o <<event>> /\ <<event>> \in Seq(Events)
    BY <1>1
  <2>3. /\ Len(live.tip) <= Len(live.tip \o <<event>>)
        /\ SubSeq(live.tip \o <<event>>, 1, Len(live.tip)) = live.tip
    BY <1>1, <2>2, PrefixOfConcat
  <2> QED BY <2>1, <2>2, <2>3 DEF Continues
<1> QED BY <1>2, <1>3, <1>4

(* Where a born carrier's live state is, and that it is one.                *)
LEMMA LiveLemma ==
  ASSUME IndInv, NEW g \in Features, Born(g)
  PROVE  /\ LiveStateOf(g) \in LiveState
         /\ ~feature[g].isInserted => LiveStateOf(g) = feature[g].checkpoint
         /\ feature[g].isInserted =>
              LET s == feature[g].hostShadowId
                  i == feature[g].hostSlotIdx
              IN /\ s \in Shadows /\ i \in Slots /\ i \in Occupied(s)
                 /\ manifest[s][i].featureId = g
                 /\ LiveStateOf(g) = manifest[s][i].liveStateHash
<1>1. CASE ~feature[g].isInserted
  BY <1>1 DEF LiveStateOf, IndInv, NothingBeforeMint
<1>2. CASE feature[g].isInserted
  <2> DEFINE s == feature[g].hostShadowId
             i == feature[g].hostSlotIdx
  <2>1. s \in Shadows /\ i \in Occupied(s) /\ manifest[s][i].featureId = g
    BY <1>2 DEF IndInv, SingleHost
  <2>2. i \in Slots /\ manifest[s][i].liveStateHash \in LiveState
    BY <2>1, OccupiedLemma DEF IndInv
  <2>3. LiveStateOf(g) = manifest[s][i].liveStateHash
    BY <1>2 DEF LiveStateOf
  <2> QED BY <1>2, <2>1, <2>2, <2>3
<1> QED BY <1>1, <1>2

(* Every step continues the live state of every carrier born before it.    *)
LEMMA HistoryStep ==
  ASSUME IndInv, [Next]_vars, NEW g \in Features, Born(g)
  PROVE  Continues(LiveStateOf(g)', LiveStateOf(g))
<1> USE ConstantFacts
<1> DEFINE Host == feature[g].hostShadowId
           Idx == feature[g].hostSlotIdx
           Slot == manifest[Host][Idx]
<1>T. /\ TypeOK
      /\ feature \in [Features -> Feature]
      /\ manifest \in [Shadows -> [Slots -> ManifestEntry]]
  BY DEF IndInv, TypeOK, FeatureTypeOK
<1>L. LiveStateOf(g) \in LiveState
  BY LiveLemma
<1>H. ~feature[g].isInserted => LiveStateOf(g) = feature[g].checkpoint
  BY LiveLemma
<1>I. feature[g].isInserted =>
        /\ Host \in Shadows /\ Idx \in Slots /\ Idx \in Occupied(Host)
        /\ Slot.featureId = g
        /\ LiveStateOf(g) = Slot.liveStateHash
  BY LiveLemma
<1> DEFINE Goal == Continues(LiveStateOf(g)', LiveStateOf(g))
<1>0. ASSUME LiveStateOf(g)' = LiveStateOf(g)
      PROVE  Goal
  BY <1>0, <1>L, ContinuesLemma
<1>1. ASSUME feature'[g] = feature[g],
             feature[g].isInserted => manifest'[Host][Idx] = Slot
      PROVE  Goal
  <2>1. LiveStateOf(g)' = LiveStateOf(g)
    BY <1>1 DEF LiveStateOf
  <2> QED BY <2>1, <1>0
<1>2. ASSUME NEW u \in Users, NEW s \in Shadows, NEW pixels \in [MintSlots -> Pixels],
             MintShadow(u, s, pixels)
      PROVE  Goal
  <2>1. g[1] # s
    BY <1>2 DEF MintShadow, IndInv, NothingBeforeMint, Minted
  <2>2. feature'[g] = feature[g]
    BY <1>2, <2>1 DEF MintShadow
  <2>3. Occupied(s) = {}
    BY <1>2 DEF MintShadow, IndInv, NothingBeforeMint, Minted
  <2>4. feature[g].isInserted => manifest'[Host] = manifest[Host]
    BY <1>2, <1>I, <1>T, <2>3 DEF MintShadow
  <2> QED BY <1>1, <2>2, <2>4
<1>3. ASSUME NEW u \in Users, NEW s \in Shadows, NEW times \in [Slots -> Nat],
             MutateEntries(u, s, times)
      PROVE  Goal
  <2>1. feature' = feature
    BY <1>3 DEF MutateEntries, featureVars
  <2>2. CASE feature[g].isInserted /\ Host = s /\ times[Idx] # 0
    <3>1. manifest'[Host][Idx] = Holding(Slot.featureId, Mutated(Slot.liveStateHash, times[Idx]))
      BY <1>3, <1>I, <1>T, <2>2 DEF MutateEntries, MutatedSlots
    <3>2. LiveStateOf(g)' = Mutated(LiveStateOf(g), times[Idx])
      BY <2>1, <2>2, <3>1, <1>I DEF LiveStateOf, Holding
    <3>3. times[Idx] \in Nat
      BY <2>2, <1>I
    <3> QED BY <3>2, <3>3, <1>L, ContinuesLemma
  <2>3. CASE ~(feature[g].isInserted /\ Host = s /\ times[Idx] # 0)
    <3>1. feature[g].isInserted => manifest'[Host][Idx] = Slot
      BY <1>3, <1>I, <1>T, <2>3 DEF MutateEntries, MutatedSlots
    <3> QED BY <1>1, <2>1, <3>1
  <2> QED BY <2>2, <2>3
<1>4. ASSUME NEW u \in Users, NEW s \in Shadows, NEW i \in Slots, ExtractSlot(u, s, i)
      PROVE  Goal
  <2> DEFINE f == manifest[s][i].featureId
             live == manifest[s][i].liveStateHash
  <2>1. /\ f \in Features /\ MayExtract(f, s, i)
        /\ manifest' = [manifest EXCEPT ![s][i] = EmptyEntry]
        /\ feature' = [feature EXCEPT ![f] = Extracted(feature[f], live)]
    BY <1>4, <1>T, OccupiedLemma DEF ExtractSlot
  <2> HIDE DEF f
  <2>2. CASE g = f
    <3>1. feature[g].isInserted /\ Host = s /\ Idx = i
      BY <2>1, <2>2 DEF MayExtract
    <3>2. feature'[g] = Extracted(feature[f], live)
      BY <2>1, <2>2, <1>T
    <3>3. LiveStateOf(g)' = live
      BY <3>2 DEF LiveStateOf, Extracted
    <3> QED BY <3>1, <3>3, <1>I, <1>0
  <2>3. CASE g # f
    <3>1. feature'[g] = feature[g]
      BY <2>1, <2>3, <1>T
    <3>2. feature[g].isInserted => Host # s \/ Idx # i
      BY <2>3, <1>I DEF f
    <3>3. feature[g].isInserted => manifest'[Host][Idx] = Slot
      BY <2>1, <3>2, <1>I, <1>T
    <3> QED BY <1>1, <3>1, <3>3
  <2> QED BY <2>2, <2>3
<1>5. ASSUME NEW u \in Users, NEW s \in Shadows, NEW i \in Slots, NEW f \in Features,
             InsertFeature(u, s, i, f)
      PROVE  Goal
  <2> DEFINE new == Mutated(feature[f].checkpoint, 1)
  <2>1. /\ ~feature[f].isInserted /\ i \notin Occupied(s)
        /\ manifest' = [manifest EXCEPT ![s][i] = Holding(f, new)]
        /\ feature' = [feature EXCEPT ![f] = InsertedInto(feature[f], s, i)]
    BY <1>5 DEF InsertFeature, MayInsert
  <2>2. CASE g = f
    <3>1. feature'[g] = InsertedInto(feature[g], s, i)
      BY <2>1, <2>2, <1>T
    <3>2. manifest'[s][i] = Holding(f, new)
      BY <2>1, <1>T
    <3>3. LiveStateOf(g)' = new
      BY <3>1, <3>2 DEF LiveStateOf, InsertedInto, Holding
    <3> QED BY <2>1, <2>2, <3>3, <1>H, <1>L, ContinuesLemma
  <2>3. CASE g # f
    <3>1. feature'[g] = feature[g]
      BY <2>1, <2>3, <1>T
    <3>2. feature[g].isInserted => manifest'[Host][Idx] = Slot
      BY <2>1, <1>I, <1>T
    <3> QED BY <1>1, <3>1, <3>2
  <2> QED BY <2>2, <2>3
<1>6. ASSUME NEW u \in Users, NEW to \in Users, NEW s \in Shadows, TransferShadow(u, s, to)
      PROVE  Goal
  <2>1. feature' = feature /\ pk[to] \in Keys
    BY <1>6 DEF TransferShadow, OnCurve
  <2>2. CASE feature[g].isInserted /\ Host = s
    <3>1. manifest'[Host][Idx] = TransferredSlot(Slot, pk[to])
      BY <1>6, <1>I, <1>T, <2>2 DEF TransferShadow
    <3>2. LiveStateOf(g)' = Rekeyed(LiveStateOf(g), pk[to], "TRANSFER")
      BY <2>1, <2>2, <3>1, <1>I DEF LiveStateOf, TransferredSlot
    <3> QED BY <2>1, <3>2, <1>L, ContinuesLemma DEF Events
  <2>3. CASE ~(feature[g].isInserted /\ Host = s)
    <3>1. feature[g].isInserted => manifest'[Host][Idx] = Slot
      BY <1>6, <1>I, <1>T, <2>3 DEF TransferShadow
    <3> QED BY <1>1, <2>1, <3>1
  <2> QED BY <2>2, <2>3
<1>7. ASSUME NEW u \in Users, NEW s \in Shadows, Solve(u, s)
      PROVE  Goal
  <2>1. g \in CarriersOf(s) <=> feature[g].isInserted /\ Host = s
    BY <1>T, CarrierLemma DEF IndInv
  <2>2. CASE g \in CarriersOf(s)
    <3>1. feature'[g] = Revealed(Extracted(feature[g], manifest[s][Idx].liveStateHash))
      BY <1>7, <2>2 DEF Solve
    <3>2. LiveStateOf(g)' = manifest[s][Idx].liveStateHash
      BY <3>1 DEF LiveStateOf, Revealed, Extracted
    <3> QED BY <2>1, <2>2, <3>2, <1>I, <1>0
  <2>3. CASE g \notin CarriersOf(s)
    <3>1. feature'[g] = feature[g]
      BY <1>7, <2>3 DEF Solve
    <3>2. feature[g].isInserted => manifest'[Host][Idx] = Slot
      BY <1>7, <2>1, <2>3, <1>I, <1>T DEF Solve
    <3> QED BY <1>1, <3>1, <3>2
  <2> QED BY <2>2, <2>3
<1>8. ASSUME NEW u \in Users, NEW to \in Users, NEW f \in Features, TransferHeld(u, to, f)
      PROVE  Goal
  <2>1. /\ ~feature[f].isInserted /\ pk[to] \in Keys /\ manifest' = manifest
        /\ feature' = [feature EXCEPT ![f].checkpoint =
                         Rekeyed(feature[f].checkpoint, pk[to], "HELD_TRANSFER")]
    BY <1>8 DEF TransferHeld, TransferFeature, OnCurve, tokenVars
  <2>2. CASE g = f
    <3>1. /\ feature'[g].checkpoint = Rekeyed(feature[g].checkpoint, pk[to], "HELD_TRANSFER")
          /\ ~feature'[g].isInserted
      BY <2>1, <2>2, <1>T DEF Feature
    <3>2. LiveStateOf(g)' = Rekeyed(LiveStateOf(g), pk[to], "HELD_TRANSFER")
      BY <2>1, <2>2, <3>1, <1>H DEF LiveStateOf
    <3> QED BY <2>1, <3>2, <1>L, ContinuesLemma DEF Events
  <2>3. CASE g # f
    BY <1>1, <2>1, <2>3, <1>T
  <2> QED BY <2>2, <2>3
<1>9. ASSUME feature' = feature, manifest' = manifest
      PROVE  Goal
  BY <1>1, <1>9
<1> HIDE DEF Goal
<1>10. Goal
  BY <1>2, <1>3, <1>4, <1>5, <1>6, <1>7, <1>8, <1>9, MutateLemma
     DEF Next, vars, tokenVars, featureVars, RegisterKey, RegisterImage,
         RefreshAfterCallback, SetZIndexCommit, TransferFrom, Pause, Unpause
<1> QED BY <1>10 DEF Goal

(* The state of a carrier, wherever it is kept, is never replaced by one of*)
(* another history or a shorter one.                                       *)
THEOREM HistoryAppends == Spec => CarrierHistory
<1> DEFINE Appends == \A f \in Features : Born(f) =>
       LET old == LiveStateOf(f) new == LiveStateOf(f)' IN
       /\ new.pixels = old.pixels
       /\ Len(old.tip) <= Len(new.tip)
       /\ SubSeq(new.tip, 1, Len(old.tip)) = old.tip
<1>1. ASSUME IndInv, [Next]_vars PROVE Appends
  BY <1>1, HistoryStep DEF Continues
<1>2. IndInv /\ [Next]_vars => [Appends]_vars
  BY <1>1
<1> QED BY <1>2, Inductive, PTL DEF Spec, CarrierHistory
--------------------------------------------------------------------------------
(* The refinement mapping, and where FeatureNFT alone says a carrier is.    *)
PhaseMap == [s \in Shadows |-> PhaseOf(s)]
PlaceMap == [f \in Features |-> PlaceOf(f)]

RecordedPlace(f) ==
  IF ~Born(f) THEN <<"unborn">>
  ELSE IF ~feature[f].isInserted THEN <<"held">>
  ELSE <<feature[f].hostShadowId, feature[f].hostSlotIdx>>

(* ShadowToken's slots put a carrier where FeatureNFT records it.           *)
LEMMA PlaceLemma ==
  ASSUME IndInv
  PROVE  PlaceMap = [f \in Features |-> RecordedPlace(f)]
<1> SUFFICES ASSUME NEW g \in Features PROVE PlaceOf(g) = RecordedPlace(g)
  BY DEF PlaceMap
<1> DEFINE s == feature[g].hostShadowId
           i == feature[g].hostSlotIdx
<1>T. TypeOK /\ SingleHost /\ NothingBeforeMint
  BY DEF IndInv
<1>1. ASSUME NEW x \in SlotsHolding(g)
      PROVE  feature[g].isInserted /\ x = <<s, i>>
  <2>1. /\ x[1] \in Shadows /\ x[2] \in Slots /\ x = <<x[1], x[2]>>
        /\ manifest[x[1]][x[2]].kind = "OCCUPIED"
        /\ manifest[x[1]][x[2]].featureId = g
    BY DEF SlotsHolding
  <2>2. x[2] \in Occupied(x[1])
    BY <2>1 DEF Occupied
  <2>3. MayExtract(g, x[1], x[2])
    BY <2>1, <2>2, <1>T DEF SingleHost
  <2> QED BY <2>1, <2>3 DEF MayExtract
<1>2. ASSUME feature[g].isInserted
      PROVE  <<s, i>> \in SlotsHolding(g)
  <2>1. s \in Shadows /\ i \in Occupied(s) /\ manifest[s][i].featureId = g
    BY <1>2, <1>T DEF SingleHost
  <2>2. i \in Slots /\ manifest[s][i].kind = "OCCUPIED"
    BY <2>1 DEF Occupied
  <2> QED BY <2>1, <2>2 DEF SlotsHolding
<1>3. CASE ~feature[g].isInserted
  BY <1>1, <1>3 DEF PlaceOf, RecordedPlace
<1>4. CASE feature[g].isInserted
  <2>1. SlotsHolding(g) # {} /\ (CHOOSE x \in SlotsHolding(g) : TRUE) = <<s, i>>
    BY <1>1, <1>2, <1>4
  <2> QED BY <1>4, <2>1 DEF PlaceOf, RecordedPlace
<1> QED BY <1>3, <1>4

LEMMA PlaceLemmaNext ==
  ASSUME IndInv'
  PROVE  PlaceMap' = [f \in Features |-> RecordedPlace(f)']
<1>1. (IndInv => PlaceMap = [f \in Features |-> RecordedPlace(f)])'
  BY PlaceLemma, PTL
<1> QED BY <1>1

(* What the abstract specification calls inside a shadow is what its slots *)
(* refer to.                                                               *)
LEMMA InsideLemma ==
  ASSUME IndInv, NEW s \in Shadows
  PROVE  {c \in Features : \E i \in Slots : PlaceMap[c] = <<s, i>>} = CarriersOf(s)
<1>T. TypeOK /\ SingleHost /\ NothingBeforeMint
  BY DEF IndInv
<1>1. \A c \in Features : c \in CarriersOf(s) <=> feature[c].isInserted /\ feature[c].hostShadowId = s
  BY <1>T, CarrierLemma
<1>2. \A c \in Features : feature[c].isInserted => Born(c) /\ feature[c].hostSlotIdx \in Slots
  BY <1>T DEF NothingBeforeMint, NoFeature, TypeOK, FeatureTypeOK, Feature
<1>3. \A c \in Features : PlaceMap[c] = RecordedPlace(c)
  BY PlaceLemma
<1>4. ASSUME NEW c \in Features, NEW i \in Slots, PlaceMap[c] = <<s, i>>
      PROVE  feature[c].isInserted /\ feature[c].hostShadowId = s
  <2>1. <<"unborn">> # <<s, i>> /\ <<"held">> # <<s, i>>
    OBVIOUS
  <2>2. RecordedPlace(c) = <<s, i>>
    BY <1>3, <1>4
  <2>3. feature[c].isInserted
        /\ RecordedPlace(c) = <<feature[c].hostShadowId, feature[c].hostSlotIdx>>
    BY <2>1, <2>2 DEF RecordedPlace
  <2> QED BY <2>2, <2>3
<1>5. ASSUME NEW c \in Features, feature[c].isInserted, feature[c].hostShadowId = s
      PROVE  \E i \in Slots : PlaceMap[c] = <<s, i>>
  BY <1>2, <1>3, <1>5 DEF RecordedPlace
<1>6. CarriersOf(s) \subseteq Features
  BY <1>T, CarrierLemma
<1> QED BY <1>1, <1>4, <1>5, <1>6

(* Every call of the two contracts is a step of the abstract specification *)
(* or leaves possession as it was.                                         *)
LEMMA CustodyStep ==
  ASSUME IndInv, IndInv', [Next]_vars
  PROVE  Possession!Next \/ UNCHANGED <<PhaseMap, shadowOwner, featureOwner, PlaceMap>>
<1> USE ConstantFacts
<1> DEFINE Still == UNCHANGED <<PhaseMap, shadowOwner, featureOwner, PlaceMap>>
<1>T. /\ TypeOK /\ NothingBeforeMint /\ SingleHost /\ CarriersFollowHost
      /\ feature \in [Features -> Feature]
      /\ featureOwner \in [Features -> Users \cup {Zero}]
      /\ shadowOwner \in [Shadows -> Users \cup {Zero}]
      /\ shadow \in [Shadows -> Shadow]
  BY DEF IndInv, TypeOK, FeatureTypeOK
<1>P. /\ PlaceMap = [f \in Features |-> RecordedPlace(f)]
      /\ PlaceMap' = [f \in Features |-> RecordedPlace(f)']
  BY PlaceLemma, PlaceLemmaNext
<1>A. \A f \in Features : /\ PlaceMap[f] = RecordedPlace(f)
                          /\ PlaceMap'[f] = RecordedPlace(f)'
  BY <1>P
<1>H. \A s \in Shadows : PhaseMap[s] = PhaseOf(s)
  BY DEF PhaseMap
<1>B. \A g \in Features : feature[g].isInserted => Born(g)
  BY <1>T DEF NothingBeforeMint, NoFeature
<1>O. ASSUME NEW u \in Users, NEW s \in Shadows, OwnerCall(u, s)
      PROVE  PhaseMap[s] = "open" /\ shadowOwner[s] = u /\ Minted(s) /\ ~shadow[s].solved
  BY <1>O, <1>H DEF OwnerCall, OwnsUnsolved, PhaseOf, Minted
<1>1. ASSUME UNCHANGED <<shadowOwner, featureOwner>>,
             \A s \in Shadows : shadow'[s].solved = shadow[s].solved,
             \A f \in Features :
               /\ feature'[f].isInserted = feature[f].isInserted
               /\ feature'[f].hostShadowId = feature[f].hostShadowId
               /\ feature'[f].hostSlotIdx = feature[f].hostSlotIdx
      PROVE  Still
  <2>1. \A f \in Features : RecordedPlace(f)' = RecordedPlace(f)
    BY <1>1 DEF RecordedPlace, Born
  <2>2. PlaceMap' = PlaceMap
    BY <2>1, <1>P
  <2>3. \A s \in Shadows : PhaseOf(s)' = PhaseOf(s)
    BY <1>1 DEF PhaseOf, Minted
  <2>4. PhaseMap' = PhaseMap
    BY <2>3 DEF PhaseMap
  <2> QED BY <1>1, <2>2, <2>4
<1>2. ASSUME NEW u \in Users, NEW s \in Shadows, NEW pixels \in [MintSlots -> Pixels],
             MintShadow(u, s, pixels)
      PROVE  Possession!Mint(u, s)
  <2> DEFINE born(i) == MintedState(pixels[i], pk[u])
  <2>1. /\ ~Minted(s)
        /\ shadowOwner' = [shadowOwner EXCEPT ![s] = u]
        /\ shadow' = [shadow EXCEPT ![s] = OpenedFor(pk[u])]
        /\ feature' = [f \in Features |->
             IF f[1] = s THEN BornIn(s, f[2], born(f[2])) ELSE feature[f]]
        /\ featureOwner' = [f \in Features |-> IF f[1] = s THEN u ELSE featureOwner[f]]
    BY <1>2 DEF MintShadow, Minted
  <2> HIDE DEF born
  <2>2. \A t \in Shadows : PhaseOf(t)' = IF t = s THEN "open" ELSE PhaseOf(t)
    BY <2>1, <1>T DEF PhaseOf, Minted, OpenedFor
  <2>3. PhaseMap' = [PhaseMap EXCEPT ![s] = "open"]
    BY <2>2 DEF PhaseMap
  <2>4. PhaseMap[s] = "unminted"
    BY <2>1, <1>H DEF PhaseOf
  <2>5. ASSUME NEW f \in Features
        PROVE  PlaceMap'[f] = IF f[1] = s THEN f ELSE PlaceMap[f]
    <3>1. CASE f[1] = s
      <4>1. featureOwner'[f] = u /\ feature'[f] = BornIn(s, f[2], born(f[2]))
        BY <2>1, <3>1
      <4>2. RecordedPlace(f)' = <<s, f[2]>>
        BY <4>1 DEF RecordedPlace, Born, BornIn
      <4> QED BY <3>1, <4>2, <1>A
    <3>2. CASE f[1] # s
      <4>1. featureOwner'[f] = featureOwner[f] /\ feature'[f] = feature[f]
        BY <2>1, <3>2
      <4>2. RecordedPlace(f)' = RecordedPlace(f)
        BY <4>1 DEF RecordedPlace, Born
      <4> QED BY <3>2, <4>2, <1>A
    <3> QED BY <3>1, <3>2
  <2>6. \A f \in Features : f \in {c \in Features : c[1] = s} <=> f[1] = s
    OBVIOUS
  <2>7. PlaceMap' = [f \in Features |->
          IF f \in {c \in Features : c[1] = s} THEN f ELSE PlaceMap[f]]
    BY <2>5, <2>6, <1>P
  <2>8. featureOwner' = [f \in Features |->
          IF f \in {c \in Features : c[1] = s} THEN u ELSE featureOwner[f]]
    BY <2>1, <2>6
  <2> QED BY <2>1, <2>3, <2>4, <2>7, <2>8 DEF Possession!Mint, PhaseMap, PlaceMap
<1>3. ASSUME NEW u \in Users, NEW s \in Shadows, NEW i \in Slots, ExtractSlot(u, s, i)
      PROVE  \E f \in Features : Possession!Extract(f, s)
  <2> DEFINE f == manifest[s][i].featureId
  <2>1. /\ f \in Features /\ MayExtract(f, s, i)
        /\ feature' = [feature EXCEPT
                         ![f] = Extracted(feature[f], manifest[s][i].liveStateHash)]
        /\ UNCHANGED <<shadowOwner, featureOwner, shadow>>
        /\ OwnerCall(u, s)
    BY <1>3, <1>T, OccupiedLemma DEF ExtractSlot
  <2> HIDE DEF f
  <2>2. PhaseMap[s] = "open"
    BY <2>1, <1>O
  <2>3. \A t \in Shadows : PhaseOf(t)' = PhaseOf(t)
    BY <2>1 DEF PhaseOf, Minted
  <2>4. PhaseMap' = PhaseMap
    BY <2>3 DEF PhaseMap
  <2>5. f \in CarriersOf(s)
    BY <2>1, <1>T, CarrierLemma DEF MayExtract
  <2>6. f \in {c \in Features : \E j \in Slots : PlaceMap[c] = <<s, j>>}
    BY <2>5, InsideLemma
  <2>7. ASSUME NEW g \in Features
        PROVE  PlaceMap'[g] = IF g = f THEN <<"held">> ELSE PlaceMap[g]
    <3>1. CASE g = f
      <4>1. ~feature'[g].isInserted
        BY <2>1, <3>1, <1>T DEF Extracted
      <4>2. Born(g)'
        BY <2>1, <3>1, <1>B DEF MayExtract, Born
      <4> QED BY <3>1, <4>1, <4>2, <1>A DEF RecordedPlace
    <3>2. CASE g # f
      <4>1. feature'[g] = feature[g] /\ featureOwner'[g] = featureOwner[g]
        BY <2>1, <3>2, <1>T
      <4>2. RecordedPlace(g)' = RecordedPlace(g)
        BY <4>1 DEF RecordedPlace, Born
      <4> QED BY <3>2, <4>2, <1>A
    <3> QED BY <3>1, <3>2
  <2>8. PlaceMap' = [PlaceMap EXCEPT ![f] = <<"held">>]
    BY <2>1, <2>7, <1>P
  <2>9. Possession!Extract(f, s)
    BY <2>1, <2>2, <2>4, <2>6, <2>8
       DEF Possession!Extract, Possession!Inside, PhaseMap, PlaceMap
  <2> QED BY <2>1, <2>9
<1>4. ASSUME NEW u \in Users, NEW s \in Shadows, NEW i \in Slots, NEW f \in Features,
             InsertFeature(u, s, i, f)
      PROVE  Possession!Insert(f, s, i)
  <2>1. /\ OwnerCall(u, s) /\ featureOwner[f] = u /\ ~feature[f].isInserted
        /\ i \notin Occupied(s)
        /\ feature' = [feature EXCEPT ![f] = InsertedInto(feature[f], s, i)]
        /\ UNCHANGED <<shadowOwner, featureOwner, shadow>>
    BY <1>4 DEF InsertFeature, MayInsert
  <2>2. PhaseMap[s] = "open" /\ featureOwner[f] = shadowOwner[s]
    BY <2>1, <1>O
  <2>3. \A t \in Shadows : PhaseOf(t)' = PhaseOf(t)
    BY <2>1 DEF PhaseOf, Minted
  <2>4. PhaseMap' = PhaseMap
    BY <2>3 DEF PhaseMap
  <2>5. Born(f)
    BY <2>1, <1>T DEF Born
  <2>6. PlaceMap[f] = <<"held">>
    BY <2>1, <2>5, <1>A DEF RecordedPlace
  <2>7. ASSUME NEW d \in Features PROVE PlaceMap[d] # <<s, i>>
    <3> SUFFICES ASSUME PlaceMap[d] = <<s, i>> PROVE FALSE
      OBVIOUS
    <3>1. d \in {c \in Features : \E j \in Slots : PlaceMap[c] = <<s, j>>}
      OBVIOUS
    <3>2. feature[d].isInserted /\ Born(d)
      BY <3>1, InsideLemma, CarrierLemma, <1>T, <1>B
    <3>3. <<feature[d].hostShadowId, feature[d].hostSlotIdx>> = <<s, i>>
      BY <3>2, <1>A DEF RecordedPlace
    <3>4. feature[d].hostShadowId = s /\ feature[d].hostSlotIdx = i
      BY <3>3
    <3> QED BY <2>1, <3>2, <3>4, <1>T DEF SingleHost
  <2>8. ASSUME NEW g \in Features
        PROVE  PlaceMap'[g] = IF g = f THEN <<s, i>> ELSE PlaceMap[g]
    <3>1. CASE g = f
      <4>1. feature'[g] = InsertedInto(feature[g], s, i) /\ Born(g)'
        BY <2>1, <2>5, <3>1, <1>T DEF Born
      <4>2. RecordedPlace(g)' = <<s, i>>
        BY <4>1 DEF RecordedPlace, InsertedInto
      <4> QED BY <3>1, <4>2, <1>A
    <3>2. CASE g # f
      <4>1. feature'[g] = feature[g] /\ featureOwner'[g] = featureOwner[g]
        BY <2>1, <3>2, <1>T
      <4>2. RecordedPlace(g)' = RecordedPlace(g)
        BY <4>1 DEF RecordedPlace, Born
      <4> QED BY <3>2, <4>2, <1>A
    <3> QED BY <3>1, <3>2
  <2>9. PlaceMap' = [PlaceMap EXCEPT ![f] = <<s, i>>]
    BY <2>8, <1>P
  <2> QED BY <2>1, <2>2, <2>4, <2>6, <2>7, <2>9 DEF Possession!Insert, PhaseMap, PlaceMap
<1>5. ASSUME NEW u \in Users, NEW to \in Users, NEW s \in Shadows, TransferShadow(u, s, to)
      PROVE  Possession!HandOver(s, to)
  <2>1. /\ OwnerCall(u, s)
        /\ featureOwner' = [f \in Features |->
             IF f \in CarriersOf(s) THEN to ELSE featureOwner[f]]
        /\ shadow' = [shadow EXCEPT ![s].ecdhPub = pk[to]]
        /\ shadowOwner' = [shadowOwner EXCEPT ![s] = to]
        /\ feature' = feature
    BY <1>5 DEF TransferShadow
  <2>2. PhaseMap[s] = "open" /\ Minted(s)
    BY <2>1, <1>O
  <2>3. ASSUME NEW t \in Shadows PROVE PhaseOf(t)' = PhaseOf(t)
    <3>1. shadow'[t].solved = shadow[t].solved
      BY <2>1, <1>T DEF Shadow
    <3>2. Minted(t)' <=> Minted(t)
      BY <2>1, <2>2, <1>T DEF Minted
    <3> QED BY <3>1, <3>2 DEF PhaseOf
  <2>4. PhaseMap' = PhaseMap
    BY <2>3 DEF PhaseMap
  <2>5. \A f \in Features : Born(f)' <=> Born(f)
    <3>1. \A f \in CarriersOf(s) : feature[f].isInserted
      BY <1>T, CarrierLemma
    <3> QED BY <2>1, <3>1, <1>B, <1>T DEF Born
  <2>6. \A f \in Features : RecordedPlace(f)' = RecordedPlace(f)
    BY <2>1, <2>5 DEF RecordedPlace
  <2>7. PlaceMap' = PlaceMap
    BY <2>6, <1>P
  <2>8. {c \in Features : \E j \in Slots : PlaceMap[c] = <<s, j>>} = CarriersOf(s)
    BY InsideLemma
  <2> QED BY <2>1, <2>2, <2>4, <2>7, <2>8
          DEF Possession!HandOver, Possession!Inside, PhaseMap, PlaceMap
<1>6. ASSUME NEW u \in Users, NEW s \in Shadows, Solve(u, s)
      PROVE  Possession!Solve(s)
  <2>1. /\ OwnerCall(u, s)
        /\ shadow' = [shadow EXCEPT ![s] = Frozen(shadow[s])]
        /\ feature' = [f \in Features |->
             IF f \in CarriersOf(s)
             THEN Revealed(Extracted(feature[f],
                    manifest[s][feature[f].hostSlotIdx].liveStateHash))
             ELSE feature[f]]
        /\ UNCHANGED <<shadowOwner, featureOwner>>
    BY <1>6 DEF Solve
  <2>2. PhaseMap[s] = "open" /\ Minted(s)
    BY <2>1, <1>O
  <2>3. \A t \in Shadows : PhaseOf(t)' = IF t = s THEN "solved" ELSE PhaseOf(t)
    BY <2>1, <2>2, <1>T DEF PhaseOf, Minted, Frozen
  <2>4. PhaseMap' = [PhaseMap EXCEPT ![s] = "solved"]
    BY <2>3 DEF PhaseMap
  <2>5. ASSUME NEW g \in Features
        PROVE  PlaceMap'[g] = IF g \in CarriersOf(s) THEN <<"held">> ELSE PlaceMap[g]
    <3>1. CASE g \in CarriersOf(s)
      <4>1. feature[g].isInserted
        BY <3>1, <1>T, CarrierLemma
      <4>2. Born(g)'
        BY <2>1, <4>1, <1>B DEF Born
      <4>3. ~feature'[g].isInserted
        BY <2>1, <3>1 DEF Revealed, Extracted
      <4> QED BY <3>1, <4>2, <4>3, <1>A DEF RecordedPlace
    <3>2. CASE g \notin CarriersOf(s)
      <4>1. feature'[g] = feature[g] /\ featureOwner'[g] = featureOwner[g]
        BY <2>1, <3>2
      <4>2. RecordedPlace(g)' = RecordedPlace(g)
        BY <4>1 DEF RecordedPlace, Born
      <4> QED BY <3>2, <4>2, <1>A
    <3> QED BY <3>1, <3>2
  <2>6. PlaceMap' = [g \in Features |-> IF g \in CarriersOf(s) THEN <<"held">> ELSE PlaceMap[g]]
    BY <2>5, <1>P
  <2>7. {c \in Features : \E j \in Slots : PlaceMap[c] = <<s, j>>} = CarriersOf(s)
    BY InsideLemma
  <2> QED BY <2>1, <2>2, <2>4, <2>6, <2>7
          DEF Possession!Solve, Possession!Inside, PhaseMap, PlaceMap
<1>7. ASSUME NEW s \in Shadows, NEW to \in Users, TransferFrom(s, to)
      PROVE  Possession!Sell(s, to)
  <2>1. /\ shadow[s].solved
        /\ shadowOwner' = [shadowOwner EXCEPT ![s] = to]
        /\ UNCHANGED <<feature, featureOwner, shadow>>
    BY <1>7 DEF TransferFrom, featureVars
  <2>2. Minted(s)
    BY <2>1, <1>T DEF NothingBeforeMint, NoShadow
  <2>3. \A t \in Shadows : Minted(t)' <=> Minted(t)
    BY <2>1, <2>2, <1>T DEF Minted
  <2>4. \A t \in Shadows : PhaseOf(t)' = PhaseOf(t)
    BY <2>1, <2>3 DEF PhaseOf
  <2>5. PhaseMap' = PhaseMap
    BY <2>4 DEF PhaseMap
  <2>6. \A f \in Features : RecordedPlace(f)' = RecordedPlace(f)
    BY <2>1 DEF RecordedPlace, Born
  <2>7. PlaceMap' = PlaceMap
    BY <2>6, <1>P
  <2>8. PhaseMap[s] = "solved"
    BY <2>1, <2>2, <1>H DEF PhaseOf
  <2> QED BY <2>1, <2>5, <2>7, <2>8 DEF Possession!Sell, PhaseMap, PlaceMap
<1>8. ASSUME NEW u \in Users, NEW to \in Users, NEW f \in Features, TransferHeld(u, to, f)
      PROVE  Possession!Give(f, to)
  <2>1. /\ ~feature[f].isInserted /\ featureOwner[f] = u
        /\ feature' = [feature EXCEPT ![f].checkpoint =
                         Rekeyed(feature[f].checkpoint, pk[to], "HELD_TRANSFER")]
        /\ featureOwner' = [featureOwner EXCEPT ![f] = to]
        /\ UNCHANGED <<shadowOwner, shadow>>
    BY <1>8 DEF TransferHeld, TransferFeature, tokenVars
  <2>2. \A g \in Features : Born(g)' <=> Born(g)
    BY <2>1, <1>T DEF Born
  <2>3. \A g \in Features : /\ feature'[g].isInserted = feature[g].isInserted
                            /\ feature'[g].hostShadowId = feature[g].hostShadowId
                            /\ feature'[g].hostSlotIdx = feature[g].hostSlotIdx
    BY <2>1, <1>T DEF Feature
  <2>4. \A g \in Features : RecordedPlace(g)' = RecordedPlace(g)
    BY <2>2, <2>3 DEF RecordedPlace
  <2>5. PlaceMap' = PlaceMap
    BY <2>4, <1>P
  <2>6. \A t \in Shadows : PhaseOf(t)' = PhaseOf(t)
    BY <2>1 DEF PhaseOf, Minted
  <2>7. PhaseMap' = PhaseMap
    BY <2>6 DEF PhaseMap
  <2>8. PlaceMap[f] = <<"held">>
    BY <2>1, <1>A, <1>T DEF RecordedPlace, Born
  <2> QED BY <2>1, <2>5, <2>7, <2>8 DEF Possession!Give, PhaseMap, PlaceMap
<1>9. ASSUME NEW u \in Users, NEW s \in Shadows, NEW times \in [Slots -> Nat],
             MutateEntries(u, s, times)
      PROVE  Still
  BY <1>1, <1>9 DEF MutateEntries, featureVars
<1>10. ASSUME NEW u \in Users, NEW s \in Shadows, NEW perm \in Perms,
              SetZIndexCommit(u, s, perm)
       PROVE  Still
  <2>1. \A t \in Shadows : shadow'[t].solved = shadow[t].solved
    BY <1>10, <1>T DEF SetZIndexCommit, Shadow
  <2> QED BY <1>1, <1>10, <2>1 DEF SetZIndexCommit, featureVars
<1>11. ASSUME \/ UNCHANGED vars
              \/ \E u \in Users, k \in Keys : RegisterKey(u, k)
              \/ \E s \in Shadows : RegisterImage(s)
              \/ RefreshAfterCallback
              \/ \E c \in Pausable : Pause(c) \/ Unpause(c)
       PROVE  Still
  <2>1. UNCHANGED <<shadowOwner, featureOwner, shadow, feature>>
    BY <1>11 DEF vars, tokenVars, featureVars, RegisterKey, RegisterImage,
       RefreshAfterCallback, Pause, Unpause
  <2> QED BY <1>1, <2>1
<1> HIDE DEF Still
<1>12. Possession!Next \/ Still
  BY <1>2, <1>3, <1>4, <1>5, <1>6, <1>7, <1>8, <1>9, <1>10, <1>11, MutateLemma
     DEF Next, Possession!Next
<1> QED BY <1>12 DEF Still

LEMMA CustodyInit == Init => Possession!Init
<1> SUFFICES ASSUME Init PROVE Possession!Init
  OBVIOUS
<1>1. IndInv
  BY InitLemma
<1>2. \A f \in Features : RecordedPlace(f) = <<"unborn">>
  BY DEF Init, FeatureInit, RecordedPlace, Born
<1>3. PlaceMap = [f \in Features |-> <<"unborn">>]
  BY <1>1, <1>2, PlaceLemma
<1>4. PhaseMap = [s \in Shadows |-> "unminted"]
  BY DEF Init, PhaseMap, PhaseOf, Minted
<1> QED BY <1>3, <1>4 DEF Possession!Init, PhaseMap, PlaceMap, Init, FeatureInit

(* Two contracts that keep half of the books each still implement the one  *)
(* ledger of possession: what a step of either changes is a step of Custody*)
(* or nothing.                                                             *)
THEOREM CustodyImplemented == Spec => ImplementsCustody
<1>1. IndInv /\ IndInv' /\ [Next]_vars => [Possession!Next]_(Possession!vars)
  BY CustodyStep DEF Possession!vars, PhaseMap, PlaceMap
<1> QED BY <1>1, CustodyInit, Inductive, PTL DEF Spec, ImplementsCustody, Possession!Spec
--------------------------------------------------------------------------------
(* The bridge and the mirror.                                              *)

LEMMA MessageKinds == MintMessage \cap UnbridgeMessage = {}
<1>1. \A m \in MintMessage : "state" \in DOMAIN m
  BY DEF MintMessage
<1>2. \A m \in UnbridgeMessage : "state" \notin DOMAIN m
  BY DEF UnbridgeMessage
<1> QED BY <1>1, <1>2

(* Every step of the composition is one of the token's or leaves it alone. *)
LEMMA TokenOrStutter ==
  ASSUME BridgeTypeOK, [BridgeNext]_allVars
  PROVE  [Next]_vars
<1> USE BridgeAddressAssumption
<1>1. ASSUME TokenStep PROVE Next
  BY <1>1 DEF TokenStep
<1>2. ASSUME SetL1Mirror \/ SetL2Bridge PROVE UNCHANGED vars
  BY <1>2 DEF SetL1Mirror, SetL2Bridge
<1>3. ASSUME NEW u \in Users, NEW to \in Users, NEW s \in Shadows, BridgeShadow(u, s, to)
      PROVE  \E t \in Shadows, v \in Users : TransferFrom(t, v)
  BY <1>3 DEF BridgeShadow
<1>4. ASSUME NEW s \in Shadows, RelayToL1(s) PROVE UNCHANGED vars
  BY <1>4 DEF RelayToL1, MintFromBridge
<1>5. ASSUME NEW s \in Shadows, NEW to \in Users, MirrorTransfer(s, to)
      PROVE  UNCHANGED vars
  BY <1>5 DEF MirrorTransfer
<1>6. ASSUME NEW s \in Shadows, NEW to \in Users \cup {Zero}, BurnAndUnbridge(s, to)
      PROVE  UNCHANGED vars
  BY <1>6 DEF BurnAndUnbridge
<1>7. ASSUME NEW s \in Shadows, RelayToL2(s)
      PROVE  \E t \in Shadows, v \in Users : TransferFrom(t, v)
  <2>1. PICK m \in toL2 : m.shadowId = s /\ UnbridgeShadow(m)
    BY <1>7 DEF RelayToL2
  <2>2. m.recipient \in Users
    BY DEF BridgeTypeOK, UnbridgeMessage
  <2> QED BY <2>1, <2>2 DEF UnbridgeShadow
<1>8. ASSUME NEW s \in Shadows, NEW to \in Users, TransferFrom(s, to)
      PROVE  Next
  BY <1>8 DEF Next
<1> QED BY <1>1, <1>2, <1>3, <1>4, <1>5, <1>6, <1>7, <1>8 DEF BridgeNext, allVars

LEMMA PayloadType ==
  ASSUME TypeOK, NEW s \in Shadows
  PROVE  Payload(s) \in MirrorState
<1>1. /\ shadow[s] \in Shadow
      /\ manifest[s] \in [Slots -> ManifestEntry]
      /\ shadowT10[s] \in T10 \cup {Zero}
  BY DEF TypeOK
<1>2. \A i \in Occupied(s) : manifest[s][i].featureId \in Features
  BY OccupiedLemma
<1>3. [i \in Slots |-> IF i \in Occupied(s) THEN manifest[s][i].featureId ELSE Zero]
        \in [Slots -> Features \cup {Zero}]
  BY <1>2
<1> QED BY <1>1, <1>3 DEF Payload, MirrorState, Shadow

LEMMA BridgeTypeStep ==
  ASSUME TypeOK, BridgeTypeOK, [BridgeNext]_allVars
  PROVE  BridgeTypeOK'
<1>T. /\ l1MirrorSet \in BOOLEAN
      /\ bridged \in [Shadows -> {"OWNED_ON_L2", "OWNED_ON_L1"}]
      /\ l2BridgeSet \in BOOLEAN
      /\ mintedFromBridge \in [Shadows -> BOOLEAN]
      /\ mirrorOwner \in [Shadows -> Users \cup {Zero}]
      /\ mirror \in [Shadows -> MirrorState \cup {Zero}]
      /\ toL1 \in SUBSET MintMessage
      /\ toL2 \in SUBSET UnbridgeMessage
      /\ sent \in Nat
  BY DEF BridgeTypeOK
<1>1. ASSUME UNCHANGED bridgeVars PROVE BridgeTypeOK'
  BY <1>1, <1>T DEF bridgeVars, l1Vars, l2Vars, messageVars, BridgeTypeOK
<1>2. ASSUME SetL1Mirror \/ SetL2Bridge PROVE BridgeTypeOK'
  BY <1>2, <1>T DEF SetL1Mirror, SetL2Bridge, l1Vars, l2Vars, messageVars, BridgeTypeOK
<1>3. ASSUME NEW u \in Users, NEW to \in Users, NEW s \in Shadows, BridgeShadow(u, s, to)
      PROVE  BridgeTypeOK'
  <2>1. [nonce |-> sent, shadowId |-> s, recipient |-> to, state |-> Payload(s)]
          \in MintMessage
    BY <1>T, PayloadType DEF MintMessage
  <2>2. sent + 1 \in Nat
    BY <1>T
  <2> QED BY <1>3, <2>1, <2>2, <1>T DEF BridgeShadow, l1Vars, BridgeTypeOK
<1>4. ASSUME NEW s \in Shadows, RelayToL1(s) PROVE BridgeTypeOK'
  <2>1. PICK m \in toL1 : m.shadowId = s /\ MintFromBridge(m)
    BY <1>4 DEF RelayToL1
  <2>2. m.recipient \in Users /\ m.state \in MirrorState
    BY <1>T DEF MintMessage
  <2> QED BY <2>1, <2>2, <1>T DEF MintFromBridge, l2Vars, BridgeTypeOK
<1>5. ASSUME NEW s \in Shadows, NEW to \in Users, MirrorTransfer(s, to)
      PROVE  BridgeTypeOK'
  BY <1>5, <1>T DEF MirrorTransfer, l2Vars, messageVars, BridgeTypeOK
<1>6. ASSUME NEW s \in Shadows, NEW to \in Users \cup {Zero}, BurnAndUnbridge(s, to)
      PROVE  BridgeTypeOK'
  <2>1. [nonce |-> sent, shadowId |-> s, recipient |-> to] \in UnbridgeMessage
    BY <1>6, <1>T DEF BurnAndUnbridge, UnbridgeMessage
  <2>2. sent + 1 \in Nat
    BY <1>T
  <2> QED BY <1>6, <2>1, <2>2, <1>T DEF BurnAndUnbridge, l2Vars, BridgeTypeOK
<1>7. ASSUME NEW s \in Shadows, RelayToL2(s) PROVE BridgeTypeOK'
  BY <1>7, <1>T DEF RelayToL2, UnbridgeShadow, l1Vars, BridgeTypeOK
<1> QED BY <1>1, <1>2, <1>3, <1>4, <1>5, <1>6, <1>7 DEF BridgeNext, allVars, TokenStep
--------------------------------------------------------------------------------
(* One conjunct of OneLiveCopy.                                            *)
LivesOnce(s) ==
  /\ bridged[s] = "OWNED_ON_L2" => mirrorOwner[s] = Zero /\ InFlight(s) = {}
  /\ bridged[s] = "OWNED_ON_L1" =>
       /\ shadowOwner[s] = BridgeAddress
       /\ shadow[s].solved
       /\ \/ mirrorOwner[s] # Zero /\ InFlight(s) = {}
          \/ mirrorOwner[s] = Zero /\ \E m \in toL1 \cup toL2 : InFlight(s) = {m}

(* A shadow whose part of the state a step leaves alone goes on living once.*)
LEMMA LivesOnceFrame ==
  ASSUME NEW t \in Shadows, LivesOnce(t),
         bridged'[t] = bridged[t], mirrorOwner'[t] = mirrorOwner[t],
         InFlight(t)' = InFlight(t),
         shadow[t].solved => shadow'[t].solved,
         bridged[t] = "OWNED_ON_L1" => shadowOwner'[t] = shadowOwner[t]
  PROVE  LivesOnce(t)'
<1>1. ASSUME NEW m \in toL1 \cup toL2, InFlight(t) = {m}
      PROVE  m \in toL1' \cup toL2' /\ InFlight(t)' = {m}
  BY <1>1 DEF InFlight
<1> QED BY <1>1 DEF LivesOnce

LEMMA LivesOnceStep ==
  ASSUME IndInv, BridgeTypeOK, OneLiveCopy, NothingStranded, [BridgeNext]_allVars,
         NEW t \in Shadows
  PROVE  LivesOnce(t)'
<1>T. /\ bridged \in [Shadows -> {"OWNED_ON_L2", "OWNED_ON_L1"}]
      /\ mirrorOwner \in [Shadows -> Users \cup {Zero}]
      /\ toL1 \in SUBSET MintMessage
      /\ toL2 \in SUBSET UnbridgeMessage
      /\ shadowOwner \in [Shadows -> Users \cup {Zero}]
      /\ Zero \notin Users
      /\ BridgeAddress \in Users
  BY ConstantFacts, BridgeAddressAssumption DEF BridgeTypeOK, IndInv, TypeOK
<1>L. LivesOnce(t)
  BY DEF OneLiveCopy, LivesOnce
<1>S. shadow[t].solved => shadow'[t].solved
  BY TokenOrStutter, FrozenStep
<1>M. \A m \in toL1 \cup toL2 : m.shadowId = t <=> m \in InFlight(t)
  BY DEF InFlight
<1>1. ASSUME UNCHANGED <<bridgeVars>>,
             bridged[t] = "OWNED_ON_L1" => shadowOwner'[t] = shadowOwner[t]
      PROVE  LivesOnce(t)'
  BY <1>1, <1>L, <1>S, LivesOnceFrame
     DEF InFlight, bridgeVars, l1Vars, l2Vars, messageVars
<1>2. ASSUME TokenStep PROVE LivesOnce(t)'
  <2>1. bridged[t] = "OWNED_ON_L1" => shadowOwner'[t] = shadowOwner[t]
    BY <1>2, <1>L DEF TokenStep, LivesOnce
  <2> QED BY <1>1, <1>2, <2>1 DEF TokenStep
<1>3. ASSUME SetL1Mirror \/ SetL2Bridge PROVE LivesOnce(t)'
  <2>1. /\ bridged' = bridged /\ mirrorOwner' = mirrorOwner
        /\ toL1' = toL1 /\ toL2' = toL2 /\ shadowOwner' = shadowOwner
    BY <1>3 DEF SetL1Mirror, SetL2Bridge, l1Vars, l2Vars, messageVars, vars, tokenVars
  <2> QED BY <2>1, <1>L, <1>S, LivesOnceFrame DEF InFlight
<1>4. ASSUME NEW u \in Users, NEW to \in Users, NEW s \in Shadows, BridgeShadow(u, s, to)
      PROVE  LivesOnce(t)'
  <2> DEFINE m0 == [nonce |-> sent, shadowId |-> s, recipient |-> to, state |-> Payload(s)]
  <2>1. /\ bridged' = [bridged EXCEPT ![s] = "OWNED_ON_L1"]
        /\ shadowOwner' = [shadowOwner EXCEPT ![s] = BridgeAddress]
        /\ toL1' = toL1 \cup {m0} /\ toL2' = toL2 /\ mirrorOwner' = mirrorOwner
        /\ shadowOwner[s] # BridgeAddress /\ shadow[s].solved
    BY <1>4 DEF BridgeShadow, TransferFrom, l1Vars
  <2>2. m0.shadowId = s
    OBVIOUS
  <2> HIDE DEF m0
  <2>3. CASE t # s
    <3>1. InFlight(t)' = InFlight(t)
      BY <2>1, <2>2, <2>3 DEF InFlight
    <3> QED BY <2>1, <2>3, <3>1, <1>L, <1>S, <1>T, LivesOnceFrame
  <2>4. CASE t = s
    <3>1. bridged[t] = "OWNED_ON_L2"
      BY <2>1, <2>4, <1>L, <1>T DEF LivesOnce
    <3>2. mirrorOwner[t] = Zero /\ InFlight(t) = {}
      BY <3>1, <1>L DEF LivesOnce
    <3>3. InFlight(t)' = {m0} /\ m0 \in toL1' \cup toL2'
      BY <2>1, <2>2, <2>4, <3>2 DEF InFlight
    <3>4. shadow'[t].solved
      BY <2>1, <2>4, <1>S
    <3> QED BY <2>1, <2>4, <3>2, <3>3, <3>4, <1>T DEF LivesOnce
  <2> QED BY <2>3, <2>4
<1>5. ASSUME NEW s \in Shadows, RelayToL1(s) PROVE LivesOnce(t)'
  <2>1. PICK m \in toL1 : m.shadowId = s /\ MintFromBridge(m)
    BY <1>5 DEF RelayToL1
  <2>2. /\ mirrorOwner' = [mirrorOwner EXCEPT ![s] = m.recipient]
        /\ toL1' = toL1 \ {m} /\ toL2' = toL2
        /\ bridged' = bridged /\ shadowOwner' = shadowOwner
    BY <2>1 DEF MintFromBridge, l2Vars, vars, tokenVars
  <2>3. m.recipient \in Users /\ m \notin toL2
    BY <1>T, MessageKinds DEF MintMessage
  <2>4. CASE t # s
    <3>1. InFlight(t)' = InFlight(t)
      BY <2>1, <2>2, <2>4 DEF InFlight
    <3> QED BY <2>2, <2>4, <3>1, <1>L, <1>S, <1>T, LivesOnceFrame
  <2>5. CASE t = s
    <3>1. m \in InFlight(t)
      BY <2>1, <2>5, <1>M
    <3>2. bridged[t] = "OWNED_ON_L1" /\ InFlight(t) = {m}
      BY <3>1, <1>L, <1>T DEF LivesOnce
    <3>3. InFlight(t)' = {}
      BY <2>2, <2>3, <3>2 DEF InFlight
    <3> QED BY <2>2, <2>3, <2>5, <3>2, <3>3, <1>L, <1>S, <1>T DEF LivesOnce
  <2> QED BY <2>4, <2>5
<1>6. ASSUME NEW s \in Shadows, NEW to \in Users, MirrorTransfer(s, to)
      PROVE  LivesOnce(t)'
  <2>1. /\ mirrorOwner[s] # Zero /\ mirrorOwner' = [mirrorOwner EXCEPT ![s] = to]
        /\ toL1' = toL1 /\ toL2' = toL2 /\ bridged' = bridged /\ shadowOwner' = shadowOwner
    BY <1>6 DEF MirrorTransfer, l2Vars, messageVars, vars, tokenVars
  <2>2. InFlight(t)' = InFlight(t)
    BY <2>1 DEF InFlight
  <2>3. mirrorOwner'[t] = Zero <=> mirrorOwner[t] = Zero
    BY <2>1, <1>T
  <2> QED BY <2>1, <2>2, <2>3, <1>L, <1>S DEF LivesOnce
<1>7. ASSUME NEW s \in Shadows, NEW to \in Users \cup {Zero}, BurnAndUnbridge(s, to)
      PROVE  LivesOnce(t)'
  <2> DEFINE m0 == [nonce |-> sent, shadowId |-> s, recipient |-> to]
  <2>1. /\ mirrorOwner[s] # Zero /\ mirrorOwner' = [mirrorOwner EXCEPT ![s] = Zero]
        /\ toL1' = toL1 /\ toL2' = toL2 \cup {m0}
        /\ bridged' = bridged /\ shadowOwner' = shadowOwner
    BY <1>7 DEF BurnAndUnbridge, l2Vars, vars, tokenVars
  <2>2. m0.shadowId = s
    OBVIOUS
  <2> HIDE DEF m0
  <2>3. CASE t # s
    <3>1. InFlight(t)' = InFlight(t)
      BY <2>1, <2>2, <2>3 DEF InFlight
    <3> QED BY <2>1, <2>3, <3>1, <1>L, <1>S, <1>T, LivesOnceFrame
  <2>4. CASE t = s
    <3>1. bridged[t] = "OWNED_ON_L1" /\ InFlight(t) = {}
      BY <2>1, <2>4, <1>L, <1>T DEF LivesOnce
    <3>2. InFlight(t)' = {m0} /\ m0 \in toL1' \cup toL2'
      BY <2>1, <2>2, <2>4, <3>1 DEF InFlight
    <3> QED BY <2>1, <2>4, <3>1, <3>2, <1>L, <1>S, <1>T DEF LivesOnce
  <2> QED BY <2>3, <2>4
<1>8. ASSUME NEW s \in Shadows, RelayToL2(s) PROVE LivesOnce(t)'
  <2>1. PICK m \in toL2 : m.shadowId = s /\ UnbridgeShadow(m)
    BY <1>8 DEF RelayToL2
  <2>2. /\ bridged' = [bridged EXCEPT ![s] = "OWNED_ON_L2"]
        /\ shadowOwner' = [shadowOwner EXCEPT ![s] = m.recipient]
        /\ toL2' = toL2 \ {m} /\ toL1' = toL1 /\ mirrorOwner' = mirrorOwner
    BY <2>1 DEF UnbridgeShadow, TransferFrom, l1Vars
  <2>3. m \notin toL1
    BY <1>T, MessageKinds
  <2>4. CASE t # s
    <3>1. InFlight(t)' = InFlight(t)
      BY <2>1, <2>2, <2>4 DEF InFlight
    <3> QED BY <2>2, <2>4, <3>1, <1>L, <1>S, <1>T, LivesOnceFrame
  <2>5. CASE t = s
    <3>1. m \in InFlight(t)
      BY <2>1, <2>5, <1>M
    <3>2. mirrorOwner[t] = Zero /\ InFlight(t) = {m}
      BY <3>1, <1>L, <1>T DEF LivesOnce
    <3>3. InFlight(t)' = {}
      BY <2>2, <2>3, <3>2 DEF InFlight
    <3> QED BY <2>2, <2>5, <3>2, <3>3, <1>T DEF LivesOnce
  <2> QED BY <2>4, <2>5
<1>9. ASSUME UNCHANGED allVars PROVE LivesOnce(t)'
  BY <1>1, <1>9 DEF allVars, vars, tokenVars
<1> QED BY <1>2, <1>3, <1>4, <1>5, <1>6, <1>7, <1>8, <1>9 DEF BridgeNext
--------------------------------------------------------------------------------
(* The flag is the mirror's existence, step by step.                       *)
LEMMA FlagStep ==
  ASSUME BridgeTypeOK, NothingStranded, [BridgeNext]_allVars
  PROVE  \A s \in Shadows : mintedFromBridge'[s] <=> mirrorOwner'[s] # Zero
<1>T. /\ mintedFromBridge \in [Shadows -> BOOLEAN]
      /\ mirrorOwner \in [Shadows -> Users \cup {Zero}]
      /\ \A m \in toL1 : m.recipient \in Users
      /\ Zero \notin Users
  BY ConstantFacts DEF BridgeTypeOK, MintMessage
<1>F. \A s \in Shadows : mintedFromBridge[s] <=> mirrorOwner[s] # Zero
  BY DEF NothingStranded
<1>1. ASSUME UNCHANGED <<mintedFromBridge, mirrorOwner>>
      PROVE  \A s \in Shadows : mintedFromBridge'[s] <=> mirrorOwner'[s] # Zero
  BY <1>1, <1>F
<1>2. ASSUME NEW s \in Shadows, RelayToL1(s)
      PROVE  \A t \in Shadows : mintedFromBridge'[t] <=> mirrorOwner'[t] # Zero
  BY <1>2, <1>T, <1>F DEF RelayToL1, MintFromBridge
<1>3. ASSUME NEW s \in Shadows, NEW to \in Users, MirrorTransfer(s, to)
      PROVE  \A t \in Shadows : mintedFromBridge'[t] <=> mirrorOwner'[t] # Zero
  BY <1>3, <1>T, <1>F DEF MirrorTransfer
<1>4. ASSUME NEW s \in Shadows, NEW to \in Users \cup {Zero}, BurnAndUnbridge(s, to)
      PROVE  \A t \in Shadows : mintedFromBridge'[t] <=> mirrorOwner'[t] # Zero
  BY <1>4, <1>T, <1>F DEF BurnAndUnbridge
<1> QED BY <1>1, <1>2, <1>3, <1>4
     DEF BridgeNext, allVars, bridgeVars, l1Vars, TokenStep, SetL1Mirror, SetL2Bridge,
         BridgeShadow, RelayToL2, UnbridgeShadow

(* Where a message is on its way there is no mirror and the bridge has the *)
(* shadow: the rest of NothingStranded follows from OneLiveCopy.           *)
InCustody(m) ==
  /\ mirrorOwner[m.shadowId] = Zero
  /\ bridged[m.shadowId] = "OWNED_ON_L1"
  /\ shadowOwner[m.shadowId] = BridgeAddress

LEMMA InFlightCustody ==
  BridgeTypeOK /\ OneLiveCopy => \A m \in toL1 \cup toL2 : InCustody(m)
<1> SUFFICES ASSUME BridgeTypeOK, OneLiveCopy, NEW m \in toL1 \cup toL2
             PROVE  InCustody(m)
  OBVIOUS
<1>1. m.shadowId \in Shadows
  BY DEF BridgeTypeOK, MintMessage, UnbridgeMessage
<1>2. m \in InFlight(m.shadowId)
  BY DEF InFlight
<1>3. bridged[m.shadowId] \in {"OWNED_ON_L2", "OWNED_ON_L1"}
  BY <1>1 DEF BridgeTypeOK
<1> QED BY <1>1, <1>2, <1>3 DEF OneLiveCopy, InCustody

LEMMA InFlightCustodyNext ==
  (BridgeTypeOK /\ OneLiveCopy => \A m \in toL1 \cup toL2 : InCustody(m))'
BY InFlightCustody, PTL

(* Both setters come before the first message: bridgeShadow asks for the   *)
(* mirror, and only a shadow it has bridged can come back.                 *)
Wired == \A s \in Shadows : bridged[s] = "OWNED_ON_L1" => l1MirrorSet

LEMMA WiredStep ==
  ASSUME BridgeTypeOK, Wired, [BridgeNext]_allVars
  PROVE  Wired'
<1>T. bridged \in [Shadows -> {"OWNED_ON_L2", "OWNED_ON_L1"}]
  BY DEF BridgeTypeOK
<1>1. ASSUME UNCHANGED <<bridged, l1MirrorSet>> PROVE Wired'
  BY <1>1 DEF Wired
<1>2. ASSUME SetL1Mirror PROVE Wired'
  BY <1>2 DEF SetL1Mirror, Wired
<1>3. ASSUME NEW u \in Users, NEW to \in Users, NEW s \in Shadows, BridgeShadow(u, s, to)
      PROVE  Wired'
  BY <1>3 DEF BridgeShadow, Wired
<1>4. ASSUME NEW s \in Shadows, RelayToL2(s) PROVE Wired'
  BY <1>4 DEF RelayToL2, UnbridgeShadow, Wired
<1> QED BY <1>1, <1>2, <1>3, <1>4
     DEF BridgeNext, allVars, bridgeVars, l2Vars, TokenStep, SetL2Bridge, RelayToL1,
         MintFromBridge, MirrorTransfer, BurnAndUnbridge

LEMMA RecipientStep ==
  ASSUME BridgeTypeOK', NEW m \in toL2'
  PROVE  m.recipient # Zero
BY ConstantFacts DEF BridgeTypeOK, UnbridgeMessage

BridgeInv ==
  /\ IndInv
  /\ BridgeTypeOK
  /\ OneLiveCopy
  /\ NothingStranded
  /\ Wired

LEMMA BridgeInitLemma == BridgeInit => BridgeInv
<1> SUFFICES ASSUME BridgeInit PROVE BridgeInv
  OBVIOUS
<1>1. IndInv
  BY InitLemma DEF BridgeInit
<1>2. BridgeTypeOK
  BY DEF BridgeInit, BridgeTypeOK
<1>3. OneLiveCopy
  BY DEF BridgeInit, OneLiveCopy, InFlight
<1>4. NothingStranded /\ Wired
  BY DEF BridgeInit, NothingStranded, Wired
<1> QED BY <1>1, <1>2, <1>3, <1>4 DEF BridgeInv

LEMMA BridgeStepLemma == BridgeInv /\ [BridgeNext]_allVars => BridgeInv'
<1> SUFFICES ASSUME BridgeInv, [BridgeNext]_allVars PROVE BridgeInv'
  OBVIOUS
<1> USE DEF BridgeInv
<1>1. IndInv'
  BY TokenOrStutter, StepLemma
<1>2. BridgeTypeOK'
  BY BridgeTypeStep DEF IndInv
<1>3. OneLiveCopy'
  <2>1. \A s \in Shadows : LivesOnce(s)'
    BY LivesOnceStep
  <2> QED BY <2>1 DEF LivesOnce, OneLiveCopy
<1>4. Wired'
  BY WiredStep
<1>5. NothingStranded'
  <2>1. \A s \in Shadows : mintedFromBridge'[s] <=> mirrorOwner'[s] # Zero
    BY FlagStep
  <2>2. \A m \in toL1' \cup toL2' : InCustody(m)'
    BY <1>2, <1>3, InFlightCustodyNext
  <2>3. \A m \in toL1' \cup toL2' : m.shadowId \in Shadows
    BY <1>2 DEF BridgeTypeOK, MintMessage, UnbridgeMessage
  <2>4. \A m \in toL2' : m.recipient # Zero
    BY <1>2, RecipientStep
  <2> QED BY <2>1, <2>2, <2>3, <2>4, <1>4 DEF NothingStranded, InCustody, Wired
<1> QED BY <1>1, <1>2, <1>3, <1>4, <1>5

THEOREM BridgeInductive == BridgeSpec => []BridgeInv
BY BridgeInitLemma, BridgeStepLemma, PTL DEF BridgeSpec

(* The bridge is one more user of the token: whatever is proved of the     *)
(* token alone holds of it with the bridge around.                         *)
THEOREM BridgeIsAUser == BridgeSpec => Spec
<1>1. BridgeInit => Init
  BY DEF BridgeInit
<1>2. BridgeInv /\ [BridgeNext]_allVars => [Next]_vars
  BY TokenOrStutter DEF BridgeInv
<1> QED BY <1>1, <1>2, BridgeInductive, PTL DEF BridgeSpec, Spec

(* The ledgers of both chains and the messages between them are well typed.*)
THEOREM BridgeTyped == BridgeSpec => []BridgeTypeOK
<1>1. BridgeInv => BridgeTypeOK
  BY DEF BridgeInv
<1> QED BY <1>1, BridgeInductive, PTL

(* At any time a shadow is on L2, or mirrored on L1, or in one message.    *)
THEOREM Conserved == BridgeSpec => []OneLiveCopy
<1>1. BridgeInv => OneLiveCopy
  BY DEF BridgeInv
<1> QED BY <1>1, BridgeInductive, PTL

(* After any number of round trips every message can still be run.         *)
THEOREM RoundTripsOpen == BridgeSpec => []NothingStranded
<1>1. BridgeInv => NothingStranded
  BY DEF BridgeInv
<1> QED BY <1>1, BridgeInductive, PTL
--------------------------------------------------------------------------------
(* The refinement mapping, case by case.                                   *)
Mapped(s) ==
  /\ bridged[s] = "OWNED_ON_L2" =>
       PlaceOnChains(s) = "L2" /\ ControllerOf(s) = shadowOwner[s]
  /\ bridged[s] = "OWNED_ON_L1" /\ mirrorOwner[s] # Zero =>
       PlaceOnChains(s) = "L1" /\ ControllerOf(s) = mirrorOwner[s]
  /\ \A m \in toL1 : m.shadowId = s =>
       PlaceOnChains(s) = "toL1" /\ ControllerOf(s) = m.recipient
  /\ \A m \in toL2 : m.shadowId = s =>
       PlaceOnChains(s) = "toL2" /\ ControllerOf(s) = m.recipient

LEMMA MappedLemma ==
  BridgeTypeOK /\ OneLiveCopy => \A s \in Shadows : Mapped(s)
<1> SUFFICES ASSUME BridgeTypeOK, OneLiveCopy, NEW s \in Shadows PROVE Mapped(s)
  OBVIOUS
<1>1. /\ bridged[s] = "OWNED_ON_L2" => InFlight(s) = {}
      /\ bridged[s] = "OWNED_ON_L1" /\ mirrorOwner[s] # Zero => InFlight(s) = {}
  BY DEF OneLiveCopy
<1>2. \A m \in toL1 \cup toL2 : m.shadowId = s <=> m \in InFlight(s)
  BY DEF InFlight
<1>3. CASE InFlight(s) = {}
  <2>1. /\ ~\E m \in toL1 : m.shadowId = s
        /\ ~\E m \in toL2 : m.shadowId = s
    BY <1>2, <1>3
  <2>2. /\ bridged[s] = "OWNED_ON_L2" => PlaceOnChains(s) = "L2"
        /\ bridged[s] = "OWNED_ON_L1" => PlaceOnChains(s) = "L1"
    BY <2>1 DEF PlaceOnChains
  <2> QED BY <2>1, <2>2 DEF Mapped, ControllerOf
<1>4. CASE InFlight(s) # {}
  <2>1. PICK m \in toL1 \cup toL2 : m.shadowId = s
    BY <1>4, <1>2 DEF InFlight
  <2>2. bridged[s] = "OWNED_ON_L1" /\ mirrorOwner[s] = Zero
    BY <2>1, InFlightCustody DEF InCustody
  <2>3. \A n \in toL1 \cup toL2 : n.shadowId = s <=> n = m
    BY <2>1, <2>2, <1>2 DEF OneLiveCopy
  <2>4. (CHOOSE n \in toL1 \cup toL2 : n.shadowId = s) = m
    BY <2>1, <2>3
  <2>5. ~(m \in toL1 /\ m \in toL2)
    BY MessageKinds DEF BridgeTypeOK
  <2>6. /\ m \in toL1 => PlaceOnChains(s) = "toL1"
        /\ m \in toL2 => PlaceOnChains(s) = "toL2"
    BY <2>2, <2>3, <2>5 DEF PlaceOnChains
  <2>7. ControllerOf(s) = m.recipient
    BY <2>1, <2>4, <2>6 DEF ControllerOf
  <2> QED BY <2>2, <2>3, <2>6, <2>7 DEF Mapped
<1> QED BY <1>3, <1>4

LEMMA MappedLemmaNext ==
  (BridgeTypeOK /\ OneLiveCopy => \A s \in Shadows : Mapped(s))'
BY MappedLemma, PTL

(* What a step does not touch keeps its place and its controller.          *)
LEMMA MappedFrame ==
  ASSUME BridgeInv, BridgeInv', NEW t \in Shadows,
         bridged'[t] = bridged[t], mirrorOwner'[t] = mirrorOwner[t],
         \A m : m.shadowId = t => (m \in toL1' <=> m \in toL1),
         \A m : m.shadowId = t => (m \in toL2' <=> m \in toL2),
         bridged[t] = "OWNED_ON_L2" => shadowOwner'[t] = shadowOwner[t]
  PROVE  PlaceOnChains(t)' = PlaceOnChains(t) /\ ControllerOf(t)' = ControllerOf(t)
<1>1. Mapped(t) /\ Mapped(t)'
  BY MappedLemma, MappedLemmaNext DEF BridgeInv
<1>2. bridged[t] \in {"OWNED_ON_L2", "OWNED_ON_L1"}
  BY DEF BridgeInv, BridgeTypeOK
<1>3. CASE bridged[t] = "OWNED_ON_L2" \/ mirrorOwner[t] # Zero
  BY <1>1, <1>2, <1>3 DEF Mapped
<1>4. CASE bridged[t] = "OWNED_ON_L1" /\ mirrorOwner[t] = Zero
  <2>1. PICK m \in toL1 \cup toL2 : InFlight(t) = {m}
    BY <1>4 DEF BridgeInv, OneLiveCopy
  <2>2. m.shadowId = t
    BY <2>1 DEF InFlight
  <2> QED BY <2>1, <2>2, <1>1 DEF Mapped
<1> QED BY <1>2, <1>3, <1>4

(* The token moves one shadow at a time, to a user.                        *)
LEMMA OneMove ==
  ASSUME IndInv, Next
  PROVE  \/ UNCHANGED shadowOwner
         \/ \E s \in Shadows, to \in Users :
              shadowOwner' = [shadowOwner EXCEPT ![s] = to]
<1>1. ASSUME NEW u \in Users, NEW s \in Shadows, NEW pixels \in [MintSlots -> Pixels],
             MintShadow(u, s, pixels)
      PROVE  shadowOwner' = [shadowOwner EXCEPT ![s] = u]
  BY <1>1 DEF MintShadow
<1>2. ASSUME NEW u \in Users, NEW to \in Users, NEW s \in Shadows, TransferShadow(u, s, to)
      PROVE  shadowOwner' = [shadowOwner EXCEPT ![s] = to]
  BY <1>2 DEF TransferShadow
<1>3. ASSUME NEW s \in Shadows, NEW to \in Users, TransferFrom(s, to)
      PROVE  shadowOwner' = [shadowOwner EXCEPT ![s] = to]
  BY <1>3 DEF TransferFrom
<1>4. ASSUME NEW u \in Users, NEW s \in Shadows, NEW times \in [Slots -> Nat],
             MutateEntries(u, s, times)
      PROVE  UNCHANGED shadowOwner
  BY <1>4 DEF MutateEntries
<1> QED BY <1>1, <1>2, <1>3, <1>4, MutateLemma
     DEF Next, tokenVars, RegisterKey, RegisterImage, RefreshAfterCallback, ExtractSlot,
         InsertFeature, SetZIndexCommit, Solve, TransferHeld, Pause, Unpause

Places      == [s \in Shadows |-> PlaceOnChains(s)]
Controllers == [s \in Shadows |-> ControllerOf(s)]

(* A step that touches one shadow only is a step of that shadow.           *)
LEMMA OneShadow ==
  ASSUME NEW s \in Shadows,
         \A t \in Shadows : t # s =>
           PlaceOnChains(t)' = PlaceOnChains(t) /\ ControllerOf(t)' = ControllerOf(t)
  PROVE  /\ Places' = [Places EXCEPT ![s] = PlaceOnChains(s)']
         /\ Controllers' = [Controllers EXCEPT ![s] = ControllerOf(s)']
         /\ Places[s] = PlaceOnChains(s) /\ Controllers[s] = ControllerOf(s)
BY DEF Places, Controllers

LEMMA AssetStep ==
  ASSUME BridgeInv, BridgeInv', [BridgeNext]_allVars
  PROVE  Asset!Next \/ UNCHANGED <<Places, Controllers>>
<1>T. /\ bridged \in [Shadows -> {"OWNED_ON_L2", "OWNED_ON_L1"}]
      /\ mirrorOwner \in [Shadows -> Users \cup {Zero}]
      /\ toL1 \in SUBSET MintMessage
      /\ toL2 \in SUBSET UnbridgeMessage
      /\ shadowOwner \in [Shadows -> Users \cup {Zero}]
      /\ Zero \notin Users
      /\ BridgeAddress \in Users
  BY ConstantFacts, BridgeAddressAssumption DEF BridgeInv, BridgeTypeOK, IndInv, TypeOK
<1>M. \A s \in Shadows : Mapped(s) /\ Mapped(s)'
  BY MappedLemma, MappedLemmaNext DEF BridgeInv
<1>C. \A m \in toL1 \cup toL2 : InCustody(m) /\ m.recipient \in Users
  BY <1>T, InFlightCustody
     DEF BridgeInv, MintMessage, UnbridgeMessage
<1>1. ASSUME UNCHANGED <<bridged, mirrorOwner, toL1, toL2, shadowOwner>>
      PROVE  UNCHANGED <<Places, Controllers>>
  <2>1. \A t \in Shadows : PlaceOnChains(t)' = PlaceOnChains(t)
                            /\ ControllerOf(t)' = ControllerOf(t)
    BY <1>1, MappedFrame
  <2> QED BY <2>1 DEF Places, Controllers
<1>2. ASSUME UNCHANGED <<bridged, mirrorOwner, toL1, toL2>>, Next,
             \A s \in Shadows :
               shadowOwner[s] = BridgeAddress => shadowOwner'[s] = BridgeAddress
      PROVE  Asset!Next \/ UNCHANGED <<Places, Controllers>>
  <2>1. CASE UNCHANGED shadowOwner
    BY <1>1, <1>2, <2>1
  <2>2. ASSUME NEW s \in Shadows, NEW to \in Users,
               shadowOwner' = [shadowOwner EXCEPT ![s] = to]
        PROVE  Asset!Next \/ UNCHANGED <<Places, Controllers>>
    <3>1. \A t \in Shadows : t # s =>
            PlaceOnChains(t)' = PlaceOnChains(t) /\ ControllerOf(t)' = ControllerOf(t)
      BY <1>2, <2>2, <1>T, MappedFrame
    <3>2. CASE shadowOwner'[s] = shadowOwner[s]
      BY <1>1, <1>2, <2>2, <3>2, <1>T
    <3>3. CASE bridged[s] = "OWNED_ON_L1"
      BY <1>2, <3>2, <3>3 DEF BridgeInv, OneLiveCopy
    <3>4. CASE bridged[s] = "OWNED_ON_L2" /\ shadowOwner'[s] # shadowOwner[s]
      <4>1. /\ PlaceOnChains(s) = "L2" /\ ControllerOf(s) = shadowOwner[s]
            /\ PlaceOnChains(s)' = "L2" /\ ControllerOf(s)' = to
        BY <1>2, <2>2, <3>4, <1>M, <1>T DEF Mapped
      <4>2. /\ Places' = Places
            /\ Controllers' = [Controllers EXCEPT ![s] = to]
            /\ Places[s] = "L2" /\ Controllers[s] = shadowOwner[s]
        BY <3>1, <4>1, OneShadow DEF Places
      <4>3. shadowOwner[s] # BridgeAddress
        BY <1>2, <3>4
      <4>4. CASE shadowOwner[s] = Zero
        <5>1. Asset!Create(s, to)
          BY <4>2, <4>4 DEF Asset!Create, Places, Controllers
        <5> QED BY <5>1 DEF Asset!Next
      <4>5. CASE shadowOwner[s] # Zero
        <5>1. Asset!Trade(s, to)
          BY <4>2, <4>3, <4>5 DEF Asset!Trade, Asset!OutOfReach, Places, Controllers
        <5> QED BY <5>1 DEF Asset!Next
      <4> QED BY <4>4, <4>5
    <3> QED BY <3>2, <3>3, <3>4, <1>T
  <2> QED BY <2>1, <2>2, <1>2, OneMove DEF BridgeInv
<1>3. ASSUME SetL1Mirror \/ SetL2Bridge
      PROVE  UNCHANGED <<Places, Controllers>>
  BY <1>1, <1>3 DEF SetL1Mirror, SetL2Bridge, l1Vars, l2Vars, messageVars, vars, tokenVars
<1>4. ASSUME NEW u \in Users, NEW to \in Users, NEW s \in Shadows, BridgeShadow(u, s, to)
      PROVE  Asset!Next
  <2> DEFINE m0 == [nonce |-> sent, shadowId |-> s, recipient |-> to, state |-> Payload(s)]
  <2>1. /\ bridged' = [bridged EXCEPT ![s] = "OWNED_ON_L1"]
        /\ shadowOwner' = [shadowOwner EXCEPT ![s] = BridgeAddress]
        /\ toL1' = toL1 \cup {m0} /\ toL2' = toL2 /\ mirrorOwner' = mirrorOwner
        /\ shadowOwner[s] # BridgeAddress /\ shadowOwner[s] # Zero
    BY <1>4, <1>T DEF BridgeShadow, TransferFrom, l1Vars
  <2>2. m0.shadowId = s /\ m0.recipient = to
    OBVIOUS
  <2> HIDE DEF m0
  <2>3. \A t \in Shadows : t # s =>
          PlaceOnChains(t)' = PlaceOnChains(t) /\ ControllerOf(t)' = ControllerOf(t)
    BY <2>1, <2>2, <1>T, MappedFrame
  <2>4. bridged[s] = "OWNED_ON_L2"
    BY <2>1, <1>T DEF BridgeInv, OneLiveCopy
  <2>5. /\ PlaceOnChains(s) = "L2" /\ ControllerOf(s) = shadowOwner[s]
        /\ PlaceOnChains(s)' = "toL1" /\ ControllerOf(s)' = to
    BY <2>1, <2>2, <2>4, <1>M DEF Mapped
  <2>6. /\ Places' = [Places EXCEPT ![s] = "toL1"]
        /\ Controllers' = [Controllers EXCEPT ![s] = to]
        /\ Places[s] = "L2" /\ Controllers[s] = shadowOwner[s]
    BY <2>3, <2>5, OneShadow
  <2>7. Asset!Depart(s, to)
    BY <2>1, <2>6 DEF Asset!Depart, Asset!OutOfReach, Places, Controllers
  <2> QED BY <2>7 DEF Asset!Next
<1>5. ASSUME NEW s \in Shadows, RelayToL1(s) PROVE Asset!Next
  <2>1. PICK m \in toL1 : m.shadowId = s /\ MintFromBridge(m)
    BY <1>5 DEF RelayToL1
  <2>2. /\ mirrorOwner' = [mirrorOwner EXCEPT ![s] = m.recipient]
        /\ toL1' = toL1 \ {m} /\ toL2' = toL2
        /\ bridged' = bridged /\ shadowOwner' = shadowOwner
    BY <2>1 DEF MintFromBridge, l2Vars, vars, tokenVars
  <2>3. \A t \in Shadows : t # s =>
          PlaceOnChains(t)' = PlaceOnChains(t) /\ ControllerOf(t)' = ControllerOf(t)
    BY <2>1, <2>2, <1>T, MappedFrame
  <2>4. bridged[s] = "OWNED_ON_L1" /\ mirrorOwner'[s] = m.recipient /\ m.recipient # Zero
    BY <2>1, <2>2, <1>C, <1>T DEF InCustody
  <2>5. /\ PlaceOnChains(s) = "toL1" /\ ControllerOf(s) = m.recipient
        /\ PlaceOnChains(s)' = "L1" /\ ControllerOf(s)' = m.recipient
    BY <2>1, <2>2, <2>4, <1>M DEF Mapped
  <2>6. Places' = [Places EXCEPT ![s] = "L1"] /\ Controllers' = Controllers
        /\ Places[s] = "toL1"
    BY <2>3, <2>5, OneShadow DEF Controllers
  <2>7. Asset!Arrive(s)
    BY <2>6 DEF Asset!Arrive, Places, Controllers
  <2> QED BY <2>7 DEF Asset!Next
<1>6. ASSUME NEW s \in Shadows, NEW to \in Users, MirrorTransfer(s, to)
      PROVE  Asset!Next
  <2>1. /\ mirrorOwner[s] # Zero /\ mirrorOwner' = [mirrorOwner EXCEPT ![s] = to]
        /\ toL1' = toL1 /\ toL2' = toL2 /\ bridged' = bridged /\ shadowOwner' = shadowOwner
    BY <1>6 DEF MirrorTransfer, l2Vars, messageVars, vars, tokenVars
  <2>2. \A t \in Shadows : t # s =>
          PlaceOnChains(t)' = PlaceOnChains(t) /\ ControllerOf(t)' = ControllerOf(t)
    BY <2>1, <1>T, MappedFrame
  <2>3. bridged[s] = "OWNED_ON_L1" /\ mirrorOwner'[s] = to /\ to # Zero
    BY <2>1, <1>T DEF BridgeInv, OneLiveCopy
  <2>4. /\ PlaceOnChains(s) = "L1" /\ ControllerOf(s) = mirrorOwner[s]
        /\ PlaceOnChains(s)' = "L1" /\ ControllerOf(s)' = to
    BY <2>1, <2>3, <1>M DEF Mapped
  <2>5. Places' = Places /\ Controllers' = [Controllers EXCEPT ![s] = to]
        /\ Places[s] = "L1" /\ Controllers[s] = mirrorOwner[s]
    BY <2>2, <2>4, OneShadow DEF Places
  <2>6. Asset!Trade(s, to)
    BY <2>1, <2>5 DEF Asset!Trade, Asset!OutOfReach, Places, Controllers
  <2> QED BY <2>6 DEF Asset!Next
<1>7. ASSUME NEW s \in Shadows, NEW to \in Users \cup {Zero}, BurnAndUnbridge(s, to)
      PROVE  Asset!Next
  <2> DEFINE m0 == [nonce |-> sent, shadowId |-> s, recipient |-> to]
  <2>1. /\ mirrorOwner[s] # Zero /\ mirrorOwner' = [mirrorOwner EXCEPT ![s] = Zero]
        /\ toL1' = toL1 /\ toL2' = toL2 \cup {m0}
        /\ bridged' = bridged /\ shadowOwner' = shadowOwner /\ to \in Users
    BY <1>7 DEF BurnAndUnbridge, l2Vars, vars, tokenVars
  <2>2. m0.shadowId = s /\ m0.recipient = to
    OBVIOUS
  <2> HIDE DEF m0
  <2>3. \A t \in Shadows : t # s =>
          PlaceOnChains(t)' = PlaceOnChains(t) /\ ControllerOf(t)' = ControllerOf(t)
    BY <2>1, <2>2, <1>T, MappedFrame
  <2>4. bridged[s] = "OWNED_ON_L1"
    BY <2>1, <1>T DEF BridgeInv, OneLiveCopy
  <2>5. /\ PlaceOnChains(s) = "L1" /\ ControllerOf(s) = mirrorOwner[s]
        /\ PlaceOnChains(s)' = "toL2" /\ ControllerOf(s)' = to
    BY <2>1, <2>2, <2>4, <1>M DEF Mapped
  <2>6. /\ Places' = [Places EXCEPT ![s] = "toL2"]
        /\ Controllers' = [Controllers EXCEPT ![s] = to]
        /\ Places[s] = "L1" /\ Controllers[s] = mirrorOwner[s]
    BY <2>3, <2>5, OneShadow
  <2>7. Asset!Depart(s, to)
    BY <2>1, <2>6 DEF Asset!Depart, Asset!OutOfReach, Places, Controllers
  <2> QED BY <2>1, <2>7 DEF Asset!Next
<1>8. ASSUME NEW s \in Shadows, RelayToL2(s) PROVE Asset!Next
  <2>1. PICK m \in toL2 : m.shadowId = s /\ UnbridgeShadow(m)
    BY <1>8 DEF RelayToL2
  <2>2. /\ bridged' = [bridged EXCEPT ![s] = "OWNED_ON_L2"]
        /\ shadowOwner' = [shadowOwner EXCEPT ![s] = m.recipient]
        /\ toL2' = toL2 \ {m} /\ toL1' = toL1 /\ mirrorOwner' = mirrorOwner
    BY <2>1 DEF UnbridgeShadow, TransferFrom, l1Vars
  <2>3. \A t \in Shadows : t # s =>
          PlaceOnChains(t)' = PlaceOnChains(t) /\ ControllerOf(t)' = ControllerOf(t)
    BY <2>1, <2>2, <1>T, MappedFrame
  <2>4. bridged'[s] = "OWNED_ON_L2" /\ shadowOwner'[s] = m.recipient
    BY <2>2, <1>T
  <2>5. /\ PlaceOnChains(s) = "toL2" /\ ControllerOf(s) = m.recipient
        /\ PlaceOnChains(s)' = "L2" /\ ControllerOf(s)' = m.recipient
    BY <2>1, <2>4, <1>M DEF Mapped
  <2>6. Places' = [Places EXCEPT ![s] = "L2"] /\ Controllers' = Controllers
        /\ Places[s] = "toL2"
    BY <2>3, <2>5, OneShadow DEF Controllers
  <2>7. Asset!Arrive(s)
    BY <2>6 DEF Asset!Arrive, Places, Controllers
  <2> QED BY <2>7 DEF Asset!Next
<1>9. ASSUME TokenStep PROVE Asset!Next \/ UNCHANGED <<Places, Controllers>>
  BY <1>2, <1>9 DEF TokenStep, bridgeVars, l1Vars, l2Vars, messageVars
<1>10. ASSUME UNCHANGED allVars PROVE UNCHANGED <<Places, Controllers>>
  BY <1>1, <1>10
     DEF allVars, vars, tokenVars, bridgeVars, l1Vars, l2Vars, messageVars
<1> QED BY <1>3, <1>4, <1>5, <1>6, <1>7, <1>8, <1>9, <1>10 DEF BridgeNext

LEMMA AssetInit == BridgeInit => Asset!Init
<1> SUFFICES ASSUME BridgeInit PROVE Asset!Init
  OBVIOUS
<1>1. \A s \in Shadows : PlaceOnChains(s) = "L2"
  BY DEF BridgeInit, PlaceOnChains
<1>2. \A s \in Shadows : ControllerOf(s) = Zero
  BY <1>1 DEF BridgeInit, Init, ControllerOf
<1> QED BY <1>1, <1>2 DEF Asset!Init

(* Over any number of shadows, users and crossings, bridge, mirror and     *)
(* messages behave as one asset on two chains.                             *)
THEOREM OneAsset == BridgeSpec => ImplementsAsset
<1>1. BridgeInv /\ BridgeInv' /\ [BridgeNext]_allVars => [Asset!Next]_(Asset!vars)
  BY AssetStep DEF Asset!vars, Places, Controllers
<1> QED BY <1>1, AssetInit, BridgeInductive, PTL DEF BridgeSpec, ImplementsAsset, Asset!Spec
--------------------------------------------------------------------------------
(* What s is on L2 apart from its thumbnail, which the end of a contract's *)
(* own mint may still write after the contract has bridged it.             *)
ShowsRecord(state, s) ==
  /\ state.ecdhPub = shadow[s].ecdhPub
  /\ state.zIndexCommit = shadow[s].zIndexCommit
  /\ state.zIndexRevealed = shadow[s].zIndexRevealed
  /\ state.manifest = manifest[s]

MirrorsRecord ==
  /\ \A s \in Shadows : mirrorOwner[s] # Zero => ShowsRecord(mirror[s], s)
  /\ \A m \in toL1 : ShowsRecord(m.state, m.shadowId)

(* ShowsRecord, and the thumbnail where nobody can re-enter a mint.        *)
ShowsAll(state, s) ==
  /\ ShowsRecord(state, s)
  /\ Contracts = {} => state.t10 = shadowT10[s]

MirrorInv ==
  /\ Contracts = {} => minting = <<>>
  /\ \A s \in Shadows : mirrorOwner[s] # Zero => ShowsAll(mirror[s], s)
  /\ \A m \in toL1 : ShowsAll(m.state, m.shadowId)

(* Only a contract's mint leaves a callback behind.                        *)
LEMMA NoCallback ==
  ASSUME BridgeInv, Contracts = {} => minting = <<>>, [BridgeNext]_allVars
  PROVE  Contracts = {} => minting' = <<>>
<1> SUFFICES ASSUME Contracts = {} PROVE minting' = <<>>
  OBVIOUS
<1>1. [Next]_vars
  BY TokenOrStutter DEF BridgeInv
<1>2. ASSUME NEW u \in Users, NEW s \in Shadows, NEW pixels \in [MintSlots -> Pixels],
             MintShadow(u, s, pixels)
      PROVE  minting' = minting
  BY <1>2 DEF MintShadow
<1>3. ~RefreshAfterCallback
  BY DEF RefreshAfterCallback
<1>4. ASSUME NEW u \in Users, NEW s \in Shadows, NEW times \in [Slots -> Nat],
             MutateEntries(u, s, times)
      PROVE  minting' = minting
  BY <1>4 DEF MutateEntries
<1> QED BY <1>1, <1>2, <1>3, <1>4, MutateLemma
     DEF Next, vars, tokenVars, RegisterKey, RegisterImage, ExtractSlot, InsertFeature,
         TransferShadow, SetZIndexCommit, Solve, TransferFrom, TransferHeld, Pause, Unpause

(* What a mirror shows of a shadow in custody stays what it is on L2.      *)
LEMMA CustodyFreezes ==
  ASSUME BridgeInv, Contracts = {} => minting = <<>>, [BridgeNext]_allVars,
         NEW s \in Shadows, bridged[s] = "OWNED_ON_L1"
  PROVE  /\ shadow'[s] = shadow[s]
         /\ manifest'[s] = manifest[s]
         /\ Contracts = {} => shadowT10'[s] = shadowT10[s]
<1>1. shadow[s].solved /\ IndInv
  BY DEF BridgeInv, OneLiveCopy
<1>2. [Next]_vars
  BY TokenOrStutter DEF BridgeInv
<1>3. shadow'[s] = shadow[s] /\ manifest'[s] = manifest[s]
  BY <1>1, <1>2, FrozenStep
<1>4. minting = <<>> => \A n \in DOMAIN minting : minting[n] # s
  OBVIOUS
<1> QED BY <1>1, <1>2, <1>3, <1>4, ThumbnailStep

LEMMA MirrorStep ==
  ASSUME BridgeInv, MirrorInv, [BridgeNext]_allVars
  PROVE  MirrorInv'
<1>T. /\ mirrorOwner \in [Shadows -> Users \cup {Zero}]
      /\ mirror \in [Shadows -> MirrorState \cup {Zero}]
      /\ toL1 \in SUBSET MintMessage
      /\ bridged \in [Shadows -> {"OWNED_ON_L2", "OWNED_ON_L1"}]
      /\ \A m \in toL1 : m.shadowId \in Shadows
  BY DEF BridgeInv, BridgeTypeOK, MintMessage
<1>C. (Contracts = {} => minting = <<>>) /\ (Contracts = {} => minting' = <<>>)
  BY NoCallback DEF MirrorInv
<1>M. ASSUME NEW s \in Shadows, mirrorOwner[s] # Zero, mirror'[s] = mirror[s]
      PROVE  ShowsAll(mirror[s], s)'
  <2>1. bridged[s] = "OWNED_ON_L1"
    BY <1>M, <1>T DEF BridgeInv, OneLiveCopy
  <2>2. ShowsAll(mirror[s], s)
    BY <1>M DEF MirrorInv
  <2> QED BY <1>M, <2>1, <2>2, <1>C, CustodyFreezes DEF ShowsAll, ShowsRecord
<1>P. ASSUME NEW m \in toL1
      PROVE  /\ ShowsRecord(m.state, m.shadowId)'
             /\ Contracts = {} => m.state.t10 = shadowT10'[m.shadowId]
  <2>1. bridged[m.shadowId] = "OWNED_ON_L1"
    <3>1. m \in InFlight(m.shadowId)
      BY DEF InFlight
    <3> QED BY <3>1, <1>T DEF BridgeInv, OneLiveCopy
  <2>2. ShowsAll(m.state, m.shadowId)
    BY DEF MirrorInv
  <2> QED BY <2>1, <2>2, <1>T, <1>C, CustodyFreezes DEF ShowsAll, ShowsRecord
<1>1. ASSUME toL1' \subseteq toL1,
             \A s \in Shadows : mirrorOwner'[s] # Zero =>
               mirrorOwner[s] # Zero /\ mirror'[s] = mirror[s]
      PROVE  MirrorInv'
  <2>1. \A s \in Shadows : mirrorOwner'[s] # Zero => ShowsAll(mirror[s], s)'
    BY <1>1, <1>M
  <2>2. \A m \in toL1' : ShowsAll(m.state, m.shadowId)'
    BY <1>1, <1>P DEF ShowsAll
  <2> QED BY <2>1, <2>2, <1>C DEF MirrorInv
<1>2. ASSUME NEW u \in Users, NEW to \in Users, NEW s \in Shadows, BridgeShadow(u, s, to)
      PROVE  MirrorInv'
  <2> DEFINE m0 == [nonce |-> sent, shadowId |-> s, recipient |-> to, state |-> Payload(s)]
  <2>1. /\ toL1' = toL1 \cup {m0} /\ UNCHANGED <<mirror, mirrorOwner>>
        /\ UNCHANGED <<shadow, manifest, shadowT10>>
    BY <1>2 DEF BridgeShadow, TransferFrom, l1Vars
  <2>2. m0.shadowId = s /\ m0.state = Payload(s)
    OBVIOUS
  <2> HIDE DEF m0
  <2>3. ASSUME NEW m \in toL1' PROVE ShowsAll(m.state, m.shadowId)'
    <3>1. CASE m \in toL1
      BY <3>1, <1>P DEF ShowsAll
    <3>2. CASE m = m0
      <4>1. m.shadowId = s /\ m.state = Payload(s)
        BY <2>2, <3>2
      <4> QED BY <2>1, <4>1 DEF ShowsAll, ShowsRecord, Payload
    <3> QED BY <2>1, <3>1, <3>2
  <2>4. \A t \in Shadows : mirrorOwner'[t] # Zero => ShowsAll(mirror[t], t)'
    BY <2>1, <1>M
  <2> QED BY <2>3, <2>4, <1>C DEF MirrorInv
<1>3. ASSUME NEW s \in Shadows, RelayToL1(s)
      PROVE  MirrorInv'
  <2>1. PICK m \in toL1 : m.shadowId = s /\ MintFromBridge(m)
    BY <1>3 DEF RelayToL1
  <2>2. /\ mirror' = [mirror EXCEPT ![s] = m.state]
        /\ mirrorOwner' = [mirrorOwner EXCEPT ![s] = m.recipient]
        /\ toL1' = toL1 \ {m}
    BY <2>1 DEF MintFromBridge
  <2>3. ASSUME NEW t \in Shadows, mirrorOwner'[t] # Zero
        PROVE  ShowsAll(mirror[t], t)'
    <3>1. CASE t = s
      <4>1. mirror'[t] = m.state
        BY <2>2, <3>1, <1>T
      <4> QED BY <4>1, <2>1, <3>1, <1>P DEF ShowsAll, ShowsRecord
    <3>2. CASE t # s
      BY <2>2, <2>3, <3>2, <1>T, <1>M
    <3> QED BY <3>1, <3>2
  <2>4. \A n \in toL1' : ShowsAll(n.state, n.shadowId)'
    BY <2>2, <1>P DEF ShowsAll
  <2> QED BY <2>3, <2>4, <1>C DEF MirrorInv
<1>4. ASSUME NEW s \in Shadows, NEW to \in Users, MirrorTransfer(s, to)
      PROVE  MirrorInv'
  BY <1>1, <1>4, <1>T DEF MirrorTransfer, messageVars
<1>5. ASSUME NEW s \in Shadows, NEW to \in Users \cup {Zero}, BurnAndUnbridge(s, to)
      PROVE  MirrorInv'
  BY <1>1, <1>5, <1>T DEF BurnAndUnbridge
<1>6. ASSUME NEW s \in Shadows, RelayToL2(s) PROVE MirrorInv'
  <2>1. UNCHANGED <<toL1, mirror, mirrorOwner>>
    BY <1>6 DEF RelayToL2, UnbridgeShadow, l1Vars
  <2> QED BY <1>1, <2>1
<1>7. ASSUME TokenStep \/ SetL1Mirror \/ SetL2Bridge \/ UNCHANGED allVars
      PROVE  MirrorInv'
  <2>1. UNCHANGED <<toL1, mirror, mirrorOwner>>
    BY <1>7 DEF TokenStep, SetL1Mirror, SetL2Bridge, allVars, bridgeVars, l1Vars, messageVars
  <2> QED BY <1>1, <2>1
<1> QED BY <1>2, <1>3, <1>4, <1>5, <1>6, <1>7 DEF BridgeNext

LEMMA MirrorInductive == BridgeSpec => [](BridgeInv /\ MirrorInv)
<1>1. BridgeInit => BridgeInv /\ MirrorInv
  BY BridgeInitLemma DEF BridgeInit, Init, MirrorInv
<1>2. BridgeInv /\ MirrorInv /\ [BridgeNext]_allVars => (BridgeInv /\ MirrorInv)'
  BY BridgeStepLemma, MirrorStep
<1> QED BY <1>1, <1>2, PTL DEF BridgeSpec

(* Whoever mints: the key, the permutation and the slots a mirror or a     *)
(* message shows are the shadow's, as long as the mirror or message lasts. *)
THEOREM MirrorsShowTheRecord == BridgeSpec => []MirrorsRecord
<1>1. MirrorInv => MirrorsRecord
  BY DEF MirrorInv, ShowsAll, MirrorsRecord
<1> QED BY <1>1, MirrorInductive, PTL

(* Where no minter can re-enter its own mint, mirrors and messages show    *)
(* the shadow exactly, thumbnail included.                                 *)
THEOREM MirrorsExact ==
  ASSUME Contracts = {}
  PROVE  BridgeSpec => []MirrorFaithful
<1>1. MirrorInv => MirrorFaithful
  BY DEF MirrorInv, ShowsAll, ShowsRecord, Shows, MirrorFaithful
<1> QED BY <1>1, MirrorInductive, PTL
================================================================================
