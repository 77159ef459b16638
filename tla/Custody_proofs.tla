------------------------------ MODULE Custody_proofs ----------------------------
(***************************************************************************)
(* The promises of Custody, which ShadowToken implements, proved for every *)
(* set of users, shadows, slots and carriers.                              *)
(***************************************************************************)
EXTENDS Custody, TLAPS

USE CarriersAssumption

(* A carrier in slot i of s, in a form that the provers match on.          *)
At(c, s, i) == place[c] = <<s, i>>
Inv == TypeOK /\ OneCarrierPerSlot /\ HeldTogether

LEMMA PlacesApart ==
  ASSUME NEW s, NEW i PROVE <<s, i>> \notin Elsewhere
BY DEF Elsewhere

LEMMA Places ==
  ASSUME TypeOK, NEW c \in Carriers
  PROVE  place[c] \in Elsewhere \/ \E s \in Shadows, i \in Slots : At(c, s, i)
BY DEF TypeOK, At

(* What an inductive step has to show, slot by slot.                       *)
Apart == \A c, d \in Carriers, s \in Shadows, i \in Slots :
           At(c, s, i) /\ At(d, s, i) => c = d
Together == \A c \in Carriers, s \in Shadows, i \in Slots :
              At(c, s, i) => phase[s] = "open" /\ carrierHolder[c] = shadowHolder[s]

LEMMA Unfolded == TypeOK => (OneCarrierPerSlot /\ HeldTogether <=> Apart /\ Together)
<1>. SUFFICES ASSUME TypeOK
              PROVE  OneCarrierPerSlot /\ HeldTogether <=> Apart /\ Together
  OBVIOUS
<1>1. HeldTogether <=> Together
  BY DEF HeldTogether, Together, Inside, At
<1>2. ASSUME OneCarrierPerSlot PROVE Apart
  BY <1>2, PlacesApart DEF OneCarrierPerSlot, Apart, At
<1>3. ASSUME Apart PROVE OneCarrierPerSlot
  BY <1>3, Places DEF OneCarrierPerSlot, Apart, At
<1>. QED BY <1>1, <1>2, <1>3

LEMMA UnfoldedNext == (TypeOK => (OneCarrierPerSlot /\ HeldTogether <=> Apart /\ Together))'
BY Unfolded, PTL

LEMMA InitInv == Init => Inv
<1>. SUFFICES ASSUME Init PROVE Inv
  OBVIOUS
<1>1. TypeOK
  BY DEF Init, TypeOK, Elsewhere
<1>2. \A c \in Carriers : place[c] \in Elsewhere
  BY DEF Init, Elsewhere
<1>3. Apart /\ Together
  BY <1>2, PlacesApart DEF Apart, Together, At
<1>. QED BY <1>1, <1>3, Unfolded DEF Inv

LEMMA TypeStep == TypeOK /\ [Next]_vars => TypeOK'
<1>. SUFFICES ASSUME TypeOK, [Next]_vars PROVE TypeOK'
  OBVIOUS
<1>. USE DEF TypeOK, Elsewhere
<1>1. CASE UNCHANGED vars
  BY <1>1 DEF vars
<1>2. ASSUME NEW u \in Users, NEW s \in Shadows, Mint(u, s) PROVE TypeOK'
  BY <1>2 DEF Mint
<1>3. ASSUME NEW c \in Carriers, NEW s \in Shadows, Extract(c, s) PROVE TypeOK'
  BY <1>3 DEF Extract
<1>4. ASSUME NEW c \in Carriers, NEW s \in Shadows, NEW i \in Slots, Insert(c, s, i)
      PROVE  TypeOK'
  BY <1>4 DEF Insert
<1>5. ASSUME NEW s \in Shadows, NEW to \in Users, HandOver(s, to) PROVE TypeOK'
  BY <1>5 DEF HandOver
<1>6. ASSUME NEW c \in Carriers, NEW to \in Users, Give(c, to) PROVE TypeOK'
  BY <1>6 DEF Give
<1>7. ASSUME NEW s \in Shadows, Solve(s) PROVE TypeOK'
  BY <1>7 DEF Solve
<1>8. ASSUME NEW s \in Shadows, NEW to \in Users, Sell(s, to) PROVE TypeOK'
  BY <1>8 DEF Sell
<1>. QED BY <1>1, <1>2, <1>3, <1>4, <1>5, <1>6, <1>7, <1>8 DEF Next

LEMMA SlotStep == TypeOK /\ Apart /\ Together /\ [Next]_vars => (Apart /\ Together)'
<1>. SUFFICES ASSUME TypeOK, Apart, Together, [Next]_vars PROVE (Apart /\ Together)'
  OBVIOUS
<1>. USE DEF TypeOK, Apart, Together, At
<1>1. CASE UNCHANGED vars
  BY <1>1 DEF vars
<1>2. ASSUME NEW u \in Users, NEW s \in Shadows, Mint(u, s) PROVE (Apart /\ Together)'
  <2>1. ASSUME NEW c \in Carriers, NEW t \in Shadows, NEW i \in Slots, place'[c] = <<t, i>>
        PROVE  \/ c[1] = s /\ t = s /\ c = <<t, i>>
               \/ c[1] # s /\ t # s /\ place[c] = <<t, i>>
    <3>1. CASE c[1] = s
      BY <1>2, <2>1, <3>1 DEF Mint
    <3>2. CASE c[1] # s
      BY <1>2, <2>1, <3>2 DEF Mint
    <3>. QED BY <3>1, <3>2
  <2>2. Apart'
    BY <2>1
  <2>3. Together'
    BY <1>2, <2>1 DEF Mint
  <2>. QED BY <2>2, <2>3
<1>3. ASSUME NEW c \in Carriers, NEW s \in Shadows, Extract(c, s)
      PROVE  (Apart /\ Together)'
  <2>1. \A d \in Carriers, t \in Shadows, i \in Slots :
          place'[d] = <<t, i>> => place[d] = <<t, i>>
    BY <1>3, PlacesApart DEF Extract, Elsewhere
  <2>2. phase' = phase /\ carrierHolder' = carrierHolder /\ shadowHolder' = shadowHolder
    BY <1>3 DEF Extract
  <2>3. Apart'
    BY <2>1
  <2>4. Together'
    BY <2>1, <2>2
  <2>. QED BY <2>3, <2>4
<1>4. ASSUME NEW c \in Carriers, NEW s \in Shadows, NEW i \in Slots, Insert(c, s, i)
      PROVE  (Apart /\ Together)'
  <2>1. \A d \in Carriers, t \in Shadows, j \in Slots :
          place'[d] = <<t, j>> => place[d] = <<t, j>> \/ (d = c /\ t = s /\ j = i)
    <3>1. place'[c] = <<s, i>>
      BY <1>4 DEF Insert
    <3>2. \A d \in Carriers : d # c => place'[d] = place[d]
      BY <1>4 DEF Insert
    <3>3. ASSUME NEW d \in Carriers, NEW t \in Shadows, NEW j \in Slots,
                 place'[d] = <<t, j>>
          PROVE  place[d] = <<t, j>> \/ (d = c /\ t = s /\ j = i)
      <4>1. CASE d = c
        <5>1. <<t, j>> = <<s, i>>
          BY <3>1, <3>3, <4>1
        <5>. QED BY <4>1, <5>1
      <4>2. CASE d # c
        <5>1. place'[d] = place[d]
          BY <3>2, <4>2
        <5>. QED BY <3>3, <5>1
      <4>. QED BY <4>1, <4>2
    <3>. QED BY <3>3
  <2>2. \A d \in Carriers : place[d] # <<s, i>>
    BY <1>4 DEF Insert
  <2>3. Apart'
    BY <2>1, <2>2
  <2>4. Together'
    BY <1>4, <2>1 DEF Insert
  <2>. QED BY <2>3, <2>4
<1>5. ASSUME NEW s \in Shadows, NEW to \in Users, HandOver(s, to)
      PROVE  (Apart /\ Together)'
  <2>1. place' = place /\ phase' = phase
    BY <1>5 DEF HandOver
  <2>2. ASSUME NEW c \in Carriers, NEW t \in Shadows, NEW i \in Slots, place[c] = <<t, i>>
        PROVE  carrierHolder'[c] = shadowHolder'[t]
    <3>1. CASE t = s
      BY <1>5, <2>2, <3>1 DEF HandOver, Inside
    <3>2. CASE t # s
      <4>1. c \notin Inside(s)
        BY <2>2, <3>2 DEF Inside
      <4>. QED BY <1>5, <2>2, <3>2, <4>1 DEF HandOver
    <3>. QED BY <3>1, <3>2
  <2>. QED BY <2>1, <2>2
<1>6. ASSUME NEW c \in Carriers, NEW to \in Users, Give(c, to)
      PROVE  (Apart /\ Together)'
  <2>1. \A s \in Shadows, i \in Slots : place[c] # <<s, i>>
    BY <1>6, PlacesApart DEF Give, Elsewhere
  <2>2. place' = place /\ phase' = phase /\ shadowHolder' = shadowHolder
    BY <1>6 DEF Give
  <2>3. \A d \in Carriers : d # c => carrierHolder'[d] = carrierHolder[d]
    BY <1>6 DEF Give
  <2>4. Apart'
    BY <2>2
  <2>5. Together'
    BY <2>1, <2>2, <2>3
  <2>. QED BY <2>4, <2>5
<1>7. ASSUME NEW s \in Shadows, Solve(s) PROVE (Apart /\ Together)'
  <2>1. ASSUME NEW c \in Carriers, NEW t \in Shadows, NEW i \in Slots, place'[c] = <<t, i>>
        PROVE  t # s /\ place[c] = <<t, i>>
    <3>1. CASE c \in Inside(s)
      BY <1>7, <2>1, <3>1, PlacesApart DEF Solve, Elsewhere
    <3>2. CASE c \notin Inside(s)
      BY <1>7, <2>1, <3>2 DEF Solve, Inside
    <3>. QED BY <3>1, <3>2
  <2>2. carrierHolder' = carrierHolder /\ shadowHolder' = shadowHolder
    BY <1>7 DEF Solve
  <2>3. \A t \in Shadows : t # s => phase'[t] = phase[t]
    BY <1>7 DEF Solve
  <2>4. Apart'
    BY <2>1
  <2>5. Together'
    BY <2>1, <2>2, <2>3
  <2>. QED BY <2>4, <2>5
<1>8. ASSUME NEW s \in Shadows, NEW to \in Users, Sell(s, to)
      PROVE  (Apart /\ Together)'
  BY <1>8 DEF Sell
<1>. QED BY <1>1, <1>2, <1>3, <1>4, <1>5, <1>6, <1>7, <1>8 DEF Next

LEMMA Invariance == Spec => []Inv
<1>1. Inv /\ [Next]_vars => Inv'
  BY TypeStep, SlotStep, Unfolded, UnfoldedNext DEF Inv
<1>. QED BY InitInv, <1>1, PTL DEF Spec

(* No two carriers are ever in the same slot of a shadow.                  *)
THEOREM SlotsAreSingle == Spec => []OneCarrierPerSlot
<1>1. Inv => OneCarrierPerSlot
  BY DEF Inv
<1>. QED BY <1>1, Invariance, PTL

(* What is in an open shadow is its holder's; a solved shadow is empty.    *)
THEOREM ContentsGoWithTheShadow == Spec => []HeldTogether
<1>1. Inv => HeldTogether
  BY DEF Inv
<1>. QED BY <1>1, Invariance, PTL
================================================================================
