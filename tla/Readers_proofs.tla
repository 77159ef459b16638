----------------------------- MODULE Readers_proofs -----------------------------
(* What a verifier that passes, or a render that ends, has read: for every *)
(* number of slots and whatever the owner does between two reads.          *)
EXTENDS Readers, FiniteSetTheorems, TLAPS

LEMMA ConstantFacts ==
  /\ Cardinality(Slots) \in Nat /\ Slots \subseteq Nat \ {0}
  /\ IsFiniteSet(Slots) /\ IsFiniteSet(MintSlots) /\ MintSlots \subseteq Slots
  /\ Cardinality(MintSlots) \in Nat
  /\ \A s \in MintSlots : s \in Nat /\ 1 <= s /\ s <= Cardinality(MintSlots)
  /\ Carriers \subseteq Nat \ {Empty} /\ Empty \in Nat /\ MintSlots \subseteq Carriers
  /\ Minter # Recipient /\ Minter \in Nat /\ Recipient \in Nat
<1>1. Cardinality(Slots) \in Nat /\ IsFiniteSet(MintSlots)
  BY SlotsAssumption, FS_CardinalityType, FS_Subset
<1>2. Cardinality(MintSlots) \in Nat
  BY <1>1, FS_CardinalityType
<1>3. Slots \subseteq Nat \ {0}
  <2> DEFINE n == Cardinality(Slots)
  <2>1. n \in Nat /\ Slots = 1..n
    BY SlotsAssumption, FS_CardinalityType
  <2> HIDE DEF n
  <2> QED BY <2>1
<1>4. \A s \in MintSlots : s \in Nat /\ 1 <= s /\ s <= Cardinality(MintSlots)
  <2> DEFINE n == Cardinality(MintSlots)
  <2>1. n \in Nat /\ MintSlots = 1..n
    BY <1>2, MintAssumption
  <2> HIDE DEF n
  <2>2. \A s \in MintSlots : s \in Nat /\ 1 <= s /\ s <= n
    BY <2>1
  <2> QED BY <2>2 DEF n
<1>5. Carriers \subseteq Nat \ {Empty}
  BY <1>3, SlotsAssumption, ForeignAssumption DEF Carriers, Empty
<1> QED
  BY <1>1, <1>2, <1>3, <1>4, <1>5, SlotsAssumption, FS_CardinalityType
  DEF Carriers, Empty, Minter, Recipient

(* Slots are counted from 1, and InOrder lists each of them once.          *)
LEMMA OrderLemma ==
  ASSUME NEW S \in SUBSET Slots
  PROVE  /\ Cardinality(S) \in Nat
         /\ DOMAIN InOrder(S) = 1..Cardinality(S)
         /\ \A s \in S : /\ Place(S, s) \in 1..Cardinality(S)
                         /\ InOrder(S)[Place(S, s)] = s
         /\ \A i \in 1..Cardinality(S) : InOrder(S)[i] \in S /\ Place(S, InOrder(S)[i]) = i
<1> DEFINE upTo(s) == {t \in S : t <= s}
           place == [s \in S |-> Place(S, s)]
<1>1. IsFiniteSet(S) /\ Cardinality(S) \in Nat /\ S \subseteq Nat
  BY ConstantFacts, FS_Subset, FS_CardinalityType
<1>2. \A s \in S : /\ IsFiniteSet(upTo(s)) /\ Cardinality(upTo(s)) \in Nat
                   /\ Cardinality(upTo(s)) <= Cardinality(S)
  <2> TAKE s \in S
  <2>1. upTo(s) \in SUBSET S
    OBVIOUS
  <2> HIDE DEF upTo
  <2> QED BY <2>1, <1>1, FS_Subset, FS_CardinalityType
<1>3. \A s \in S : Cardinality(upTo(s)) # 0
  <2> TAKE s \in S
  <2>1. s \in upTo(s)
    BY <1>1
  <2> HIDE DEF upTo
  <2> QED BY <2>1, <1>2, FS_EmptySet
<1>4. \A s \in S : Place(S, s) \in 1..Cardinality(S)
  BY <1>1, <1>2, <1>3 DEF Place
<1>5. \A s, t \in S : s < t => Place(S, s) # Place(S, t)
  <2> SUFFICES ASSUME NEW s \in S, NEW t \in S, s < t
               PROVE  Cardinality(upTo(s)) # Cardinality(upTo(t))
    BY DEF Place
  <2>1. \A x \in S : x <= s => x <= t
    BY <1>1
  <2>2. t <= t /\ ~(t <= s)
    BY <1>1
  <2>3. upTo(s) \subseteq upTo(t) /\ t \in upTo(t) /\ t \notin upTo(s)
    BY <2>1, <2>2
  <2> HIDE DEF upTo
  <2> QED BY <2>3, <1>2, FS_Subset
<1>6. \A s, t \in S : Place(S, s) = Place(S, t) => s = t
  BY <1>1, <1>5
<1>7. place \in Injection(S, 1..Cardinality(S))
  BY <1>4, <1>6 DEF Injection, IsInjective
<1>8. IsFiniteSet(1..Cardinality(S)) /\ Cardinality(1..Cardinality(S)) = Cardinality(S)
  BY <1>1, FS_Interval
<1>9. place \in Surjection(S, 1..Cardinality(S))
  <2> HIDE DEF place
  <2> QED BY <1>7, <1>8, FS_Injection
<1>10. \A i \in 1..Cardinality(S) : \E s \in S : Place(S, s) = i
  BY <1>9 DEF Surjection
<1>11. \A i \in 1..Cardinality(S) : InOrder(S)[i] \in S /\ Place(S, InOrder(S)[i]) = i
  BY <1>10 DEF InOrder
<1> QED BY <1>1, <1>4, <1>6, <1>11 DEF InOrder
--------------------------------------------------------------------------------
(* Event logs.                                                             *)

Event == {"mutated", "palette", "revealed"} \X Nat \X Nat \X Nat

LastIs(events, kind, s, i) ==
  /\ i \in DOMAIN events /\ events[i][1] = kind /\ events[i][2] = s
  /\ \A j \in DOMAIN events : events[j][1] = kind /\ events[j][2] = s => j <= i

LEMMA GrownLemma ==
  ASSUME NEW a \in Seq(Event), NEW b \in Seq(Event)
  PROVE  /\ a \o b \in Seq(Event)
         /\ Len(a) \in Nat /\ Len(b) \in Nat /\ Len(a \o b) = Len(a) + Len(b)
         /\ DOMAIN a = 1..Len(a) /\ DOMAIN b = 1..Len(b)
         /\ DOMAIN (a \o b) = 1..(Len(a) + Len(b))
         /\ \A i \in DOMAIN a : (a \o b)[i] = a[i]
         /\ \A i \in DOMAIN b : (a \o b)[Len(a) + i] = b[i]
         /\ \A i \in DOMAIN (a \o b) : i \in DOMAIN a \/ i - Len(a) \in DOMAIN b
<1>1. a \o b \in Seq(Event) /\ Len(a) \in Nat /\ Len(b) \in Nat
      /\ Len(a \o b) = Len(a) + Len(b)
  OBVIOUS
<1>2. DOMAIN a = 1..Len(a) /\ DOMAIN b = 1..Len(b) /\ DOMAIN (a \o b) = 1..(Len(a) + Len(b))
  BY <1>1
<1>3. /\ \A i \in DOMAIN a : (a \o b)[i] = a[i]
      /\ \A i \in DOMAIN b : (a \o b)[Len(a) + i] = b[i]
  BY <1>2
<1>4. \A i \in DOMAIN (a \o b) : i \in DOMAIN a \/ i - Len(a) \in DOMAIN b
  BY <1>1, <1>2
<1> QED BY <1>1, <1>2, <1>3, <1>4

(* Events of another kind, or of other slots, leave the last one the last. *)
LEMMA LastKept ==
  ASSUME NEW a \in Seq(Event), NEW b \in Seq(Event), NEW kind, NEW s, NEW i,
         LastIs(a, kind, s, i),
         \A k \in DOMAIN b : ~(b[k][1] = kind /\ b[k][2] = s)
  PROVE  LastIs(a \o b, kind, s, i) /\ (a \o b)[i] = a[i]
<1> DEFINE c == a \o b
<1>1. /\ Len(a) \in Nat /\ Len(b) \in Nat
      /\ DOMAIN a = 1..Len(a) /\ DOMAIN c = 1..(Len(a) + Len(b))
      /\ \A k \in DOMAIN a : c[k] = a[k]
      /\ \A k \in DOMAIN b : c[Len(a) + k] = b[k]
      /\ \A k \in DOMAIN c : k \in DOMAIN a \/ k - Len(a) \in DOMAIN b
  BY GrownLemma
<1> HIDE DEF c
<1>2. i \in DOMAIN c /\ c[i] = a[i]
  BY <1>1 DEF LastIs
<1>3. ASSUME NEW j \in DOMAIN c, c[j][1] = kind, c[j][2] = s
      PROVE  j <= i
  <2>1. CASE j \in DOMAIN a
    BY <2>1, <1>1, <1>3 DEF LastIs
  <2>2. CASE j - Len(a) \in DOMAIN b
    <3>1. Len(a) + (j - Len(a)) = j
      BY <1>1
    <3> QED BY <2>2, <3>1, <1>1, <1>3
  <2> QED BY <2>1, <2>2, <1>1
<1>4. LastIs(c, kind, s, i)
  BY <1>2, <1>3 DEF LastIs
<1> QED BY <1>2, <1>4 DEF c

LEMMA LastNew ==
  ASSUME NEW a \in Seq(Event), NEW b \in Seq(Event), NEW kind, NEW s, NEW i,
         LastIs(b, kind, s, i)
  PROVE  LastIs(a \o b, kind, s, Len(a) + i) /\ (a \o b)[Len(a) + i] = b[i]
<1> DEFINE c == a \o b
<1>1. /\ Len(a) \in Nat /\ Len(b) \in Nat
      /\ DOMAIN a = 1..Len(a) /\ DOMAIN b = 1..Len(b) /\ DOMAIN c = 1..(Len(a) + Len(b))
      /\ \A k \in DOMAIN b : c[Len(a) + k] = b[k]
      /\ \A k \in DOMAIN c : k \in DOMAIN a \/ k - Len(a) \in DOMAIN b
  BY GrownLemma
<1> HIDE DEF c
<1>2. Len(a) + i \in DOMAIN c /\ c[Len(a) + i] = b[i]
  BY <1>1 DEF LastIs
<1>3. ASSUME NEW j \in DOMAIN c, c[j][1] = kind, c[j][2] = s
      PROVE  j <= Len(a) + i
  <2>1. CASE j \in DOMAIN a
    BY <2>1, <1>1 DEF LastIs
  <2>2. CASE j - Len(a) \in DOMAIN b
    <3>1. Len(a) + (j - Len(a)) = j
      BY <1>1
    <3>2. j - Len(a) <= i
      BY <2>2, <3>1, <1>1, <1>3 DEF LastIs
    <3> QED BY <2>2, <3>2, <1>1 DEF LastIs
  <2> QED BY <2>1, <2>2, <1>1
<1>4. LastIs(c, kind, s, Len(a) + i)
  BY <1>2, <1>3 DEF LastIs
<1> QED BY <1>2, <1>4 DEF c

(* The renderer's dictionary holds the last event of each slot.            *)
LEMMA LatestIs ==
  ASSUME NEW a \in Seq(Event), NEW kind, NEW s \in Slots, NEW i, LastIs(a, kind, s, i)
  PROVE  s \in DOMAIN Latest(kind, a) /\ Latest(kind, a)[s] = a[i]
<1> DEFINE at == {k \in DOMAIN a : a[k][1] = kind /\ a[k][2] = s}
<1>1. i \in at /\ \A j \in at : j <= i
  BY DEF LastIs
<1>2. at \subseteq Nat
  OBVIOUS
<1>3. (CHOOSE k \in at : \A j \in at : j <= k) = i
  <2> HIDE DEF at
  <2>1. \A k \in at : (\A j \in at : j <= k) => k = i
    BY <1>1, <1>2
  <2> QED BY <2>1, <1>1
<1> QED BY <1>1, <1>3 DEF Latest

LEMMA LatestDomain ==
  ASSUME NEW a \in Seq(Event), NEW kind, NEW s \in DOMAIN Latest(kind, a)
  PROVE  s \in Slots /\ \E i \in DOMAIN a : a[i][1] = kind /\ a[i][2] = s
BY DEF Latest
--------------------------------------------------------------------------------
(* The inductive invariant.                                                *)

ChainType ==
  [held : [Slots -> Carriers \cup {Empty}], lsh : [Slots -> Nat], t10 : Nat,
   owner : {Minter, Recipient}, pk : {Minter, Recipient}, solved : BOOLEAN,
   zindex : BOOLEAN, mints : Nat]

Fields == {"c2", "c1", "palettes", "revealed", "shown", "slots"}

ReadersTypeOK ==
  /\ chain \in ChainType /\ atStart \in ChainType
  /\ log \in Seq(Event)
  /\ drawing \in [Carriers -> Nat]
  /\ sent = <<>> \/ sent \in [Slots -> Nat]
  /\ \E S \in SUBSET Slots : solution \in [S -> Nat \X Carriers]
  /\ DOMAIN got = Fields
  /\ failed \in BOOLEAN

(* Which tool a place in the code belongs to.                              *)
MintPlaces ==
  {"wiring", "receipt", "payload", "t10", "t10 lo", "slots", "carrier owner",
   "host shadow", "host slot", "token owner", "record", "summary"}

PlaceOfTool ==
  /\ pc = "idle" => tool = "none" /\ got = Nothing /\ ~failed
  /\ pc \in {"c2", "sidecar", "palettes", "revealed", "decode", "rendered"} =>
       tool = "render"
  /\ pc \in MintPlaces => tool = "mint"
  /\ pc \in {"owner", "ecdhPub", "lsh"} => tool = "transfer"

(* A state that an event carried is never brought back: what a slot shows  *)
(* of the mint or of the transfer now, it has shown ever since.            *)
StampsAreNew ==
  /\ Cardinality(MintSlots) <= Len(log)
  /\ sent # <<>> => \A s \in Slots : sent[s] <= Len(log)

(* A slot in the state of the mint holds its carrier, and no transfer came.*)
AsMinted(c) ==
  /\ \A s \in MintSlots :
       c.lsh[s] = s => c.held[s] = s /\ c.owner = Minter /\ c.pk = Minter
  /\ c.mints >= 1

SinceStart ==
  /\ atStart.solved => chain.solved
  /\ atStart.zindex => chain.zindex
  /\ atStart.mints <= chain.mints
  /\ \A s \in MintSlots : chain.lsh[s] = s => atStart.lsh[s] = s
  /\ tool = "transfer" =>
       /\ sent # <<>>
       /\ \A s \in Slots : sent[s] # Empty /\ chain.lsh[s] = sent[s] => atStart.lsh[s] = sent[s]

(* What verify_onchain_mint.py knows of the moment it began.               *)
MintRead ==
  tool = "mint" /\ ~failed =>
    /\ \A s \in MintSlots \cap got.slots : atStart.lsh[s] = s
    /\ pc \in {"token owner", "record", "summary", "passed"} =>
         MintSlots \subseteq got.slots /\ atStart.mints = 1
    /\ pc \in {"summary", "passed"} => ~atStart.solved /\ ~atStart.zindex

TransferRead ==
  tool = "transfer" /\ pc \in {"owner", "ecdhPub", "lsh", "passed"} =>
    /\ \A s \in Slots \cap got.slots : sent[s] # Empty => atStart.lsh[s] = sent[s]
    /\ pc = "passed" => Slots \subseteq got.slots

(* The last event of a filled slot names its carrier.                      *)
LogNamesCarriers ==
  \A s \in Slots : chain.held[s] # Empty =>
    \E i \in DOMAIN log : LastIs(log, "mutated", s, i) /\ log[i][3] = chain.held[s]

RevealedBySolve ==
  \A i \in DOMAIN log : log[i][1] = "revealed" =>
    chain.solved /\ log[i][2] \in DOMAIN solution

(* What the solve put into the log, and left there before it.              *)
LogHasSolution ==
  chain.solved =>
    /\ \A s \in Slots : chain.held[s] = Empty
    /\ \A s \in DOMAIN solution :
         /\ \E i \in DOMAIN log : LastIs(log, "mutated", s, i) /\ log[i][3] = solution[s][2]
         /\ \E i \in DOMAIN log : LastIs(log, "revealed", s, i) /\ log[i][4] = solution[s][1]
         /\ IsRevealed(solution[s][2])

(* What a render that began after the solve has read so far.               *)
RenderRead ==
  atStart.solved =>
    /\ pc \in {"sidecar", "palettes", "revealed", "decode"} =>
         \A s \in DOMAIN solution : s \in DOMAIN got.c2 /\ got.c2[s][3] = solution[s][2]
    /\ pc \in {"revealed", "decode"} =>
         \A s \in DOMAIN solution : solution[s][2] \in got.palettes
    /\ pc = "decode" =>
         /\ DOMAIN got.revealed = DOMAIN solution
         /\ \A s \in DOMAIN solution : got.revealed[s][4] = solution[s][1]

ReadersInv ==
  /\ ReadersTypeOK /\ PlaceOfTool
  /\ StampsAreNew /\ AsMinted(chain) /\ AsMinted(atStart) /\ SinceStart
  /\ MintRead /\ (tool = "mint" /\ pc = "passed" => ~failed) /\ TransferRead
  /\ LogNamesCarriers /\ RevealedBySolve /\ LogHasSolution
  /\ RenderRead /\ (pc = "c2" => got = Nothing) /\ SolvedRenderIsExact
--------------------------------------------------------------------------------
(* What every transaction does to a state that satisfies the invariant.    *)

Stamping ==
  \A s \in Slots : chain'.lsh[s] \in {chain.lsh[s], Empty} \/ chain'.lsh[s] > Len(log)

OneWay ==
  /\ chain.solved => chain'.solved /\ solution' = solution
  /\ chain.zindex => chain'.zindex
  /\ chain.mints <= chain'.mints

FirstTransferOnly ==
  \/ sent' = sent
  \/ sent = <<>> /\ \A s \in Slots : sent'[s] <= Len(log')

Effect ==
  /\ ReadersTypeOK'
  /\ Stamping /\ OneWay /\ FirstTransferOnly
  /\ Len(log) <= Len(log')
  /\ AsMinted(chain)'
  /\ LogNamesCarriers' /\ RevealedBySolve' /\ LogHasSolution'

LEMMA LogTypes ==
  ASSUME ReadersTypeOK, NEW i \in DOMAIN log
  PROVE  /\ Len(log) \in Nat /\ DOMAIN log = 1..Len(log)
         /\ log[i] \in Event
         /\ log[i][2] \in Nat /\ log[i][3] \in Nat /\ log[i][4] \in Nat
BY DEF ReadersTypeOK, Event

LEMMA NamedLemma ==
  ASSUME ReadersTypeOK, LogNamesCarriers, NEW more \in Seq(Event), log' = log \o more,
         \A s \in Slots : chain'.held[s] # Empty =>
           \/ \E k \in DOMAIN more : /\ LastIs(more, "mutated", s, k)
                                     /\ more[k][3] = chain'.held[s]
           \/ /\ chain'.held[s] = chain.held[s]
              /\ \A k \in DOMAIN more : ~(more[k][1] = "mutated" /\ more[k][2] = s)
  PROVE  LogNamesCarriers'
<1> SUFFICES ASSUME NEW s \in Slots, chain'.held[s] # Empty
             PROVE  \E i \in DOMAIN log' : /\ LastIs(log', "mutated", s, i)
                                           /\ log'[i][3] = chain'.held[s]
  BY DEF LogNamesCarriers
<1>0. log \in Seq(Event)
  BY DEF ReadersTypeOK
<1>1. CASE \E k \in DOMAIN more : LastIs(more, "mutated", s, k) /\ more[k][3] = chain'.held[s]
  <2>1. PICK k \in DOMAIN more : LastIs(more, "mutated", s, k) /\ more[k][3] = chain'.held[s]
    BY <1>1
  <2>2. LastIs(log \o more, "mutated", s, Len(log) + k) /\ (log \o more)[Len(log) + k] = more[k]
    BY <1>0, <2>1, LastNew
  <2> QED BY <2>1, <2>2 DEF LastIs
<1>2. CASE /\ chain'.held[s] = chain.held[s]
           /\ \A k \in DOMAIN more : ~(more[k][1] = "mutated" /\ more[k][2] = s)
  <2>1. PICK i \in DOMAIN log : LastIs(log, "mutated", s, i) /\ log[i][3] = chain.held[s]
    BY <1>2 DEF LogNamesCarriers
  <2>2. LastIs(log \o more, "mutated", s, i) /\ (log \o more)[i] = log[i]
    BY <1>0, <1>2, <2>1, LastKept
  <2> QED BY <1>2, <2>1, <2>2 DEF LastIs
<1> QED BY <1>1, <1>2

(* A transaction that reveals nothing of this shadow.                      *)
LEMMA NothingRevealed ==
  ASSUME ReadersTypeOK, RevealedBySolve, NEW more \in Seq(Event), log' = log \o more,
         \A k \in DOMAIN more : more[k][1] # "revealed",
         chain.solved => chain'.solved, solution' = solution
  PROVE  RevealedBySolve' /\ Len(log) <= Len(log')
<1>1. log \in Seq(Event)
  BY DEF ReadersTypeOK
<1> DEFINE c == log \o more
<1>2. /\ Len(log) \in Nat /\ Len(more) \in Nat /\ Len(c) = Len(log) + Len(more)
      /\ DOMAIN c = 1..(Len(log) + Len(more))
      /\ \A i \in DOMAIN log : c[i] = log[i]
      /\ \A i \in DOMAIN more : c[Len(log) + i] = more[i]
      /\ \A i \in DOMAIN c : i \in DOMAIN log \/ i - Len(log) \in DOMAIN more
  BY <1>1, GrownLemma
<1>3. log' = c
  OBVIOUS
<1> HIDE DEF c
<1>4. ASSUME NEW i \in DOMAIN c, c[i][1] = "revealed"
      PROVE  i \in DOMAIN log
  <2>1. CASE i - Len(log) \in DOMAIN more
    <3>1. Len(log) + (i - Len(log)) = i
      BY <1>2
    <3> QED BY <2>1, <3>1, <1>2, <1>4
  <2> QED BY <2>1, <1>2
<1>5. ASSUME NEW i \in DOMAIN c, c[i][1] = "revealed"
      PROVE  chain'.solved /\ c[i][2] \in DOMAIN solution
  BY <1>2, <1>4, <1>5 DEF RevealedBySolve
<1> QED BY <1>2, <1>3, <1>5 DEF RevealedBySolve

LEMMA RevealedStays ==
  ASSUME ReadersTypeOK, NEW more \in Seq(Event), log' = log \o more, NEW c, IsRevealed(c)
  PROVE  \E k \in DOMAIN log' : log'[k][1] = "palette" /\ log'[k][3] = c
<1>1. log \in Seq(Event)
  BY DEF ReadersTypeOK
<1>2. /\ DOMAIN log \subseteq DOMAIN (log \o more)
      /\ \A i \in DOMAIN log : (log \o more)[i] = log[i]
  <2>1. /\ Len(log) \in Nat /\ Len(more) \in Nat
        /\ DOMAIN log = 1..Len(log) /\ DOMAIN (log \o more) = 1..(Len(log) + Len(more))
        /\ \A i \in DOMAIN log : (log \o more)[i] = log[i]
    BY <1>1, GrownLemma
  <2> QED BY <2>1
<1> QED BY <1>2 DEF IsRevealed

(* A transaction beside a shadow that is solved.                           *)
LEMMA SolutionStays ==
  ASSUME ReadersTypeOK, LogHasSolution, NEW more \in Seq(Event), log' = log \o more,
         \A k \in DOMAIN more : more[k][1] # "revealed" /\ more[k][1] # "mutated",
         chain'.solved => chain.solved, chain'.held = chain.held, solution' = solution
  PROVE  LogHasSolution'
<1>1. log \in Seq(Event)
  BY DEF ReadersTypeOK
<1> SUFFICES ASSUME chain'.solved, NEW s \in DOMAIN solution
             PROVE  /\ \E i \in DOMAIN log' : /\ LastIs(log', "mutated", s, i)
                                              /\ log'[i][3] = solution[s][2]
                    /\ \E i \in DOMAIN log' : /\ LastIs(log', "revealed", s, i)
                                              /\ log'[i][4] = solution[s][1]
                    /\ IsRevealed(solution[s][2])'
  BY DEF LogHasSolution
<1>2. PICK i \in DOMAIN log : LastIs(log, "mutated", s, i) /\ log[i][3] = solution[s][2]
  BY DEF LogHasSolution
<1>3. PICK j \in DOMAIN log : LastIs(log, "revealed", s, j) /\ log[j][4] = solution[s][1]
  BY DEF LogHasSolution
<1>4. LastIs(log \o more, "mutated", s, i) /\ (log \o more)[i] = log[i]
  <2>1. \A k \in DOMAIN more : ~(more[k][1] = "mutated" /\ more[k][2] = s)
    OBVIOUS
  <2> QED BY <1>1, <1>2, <2>1, LastKept
<1>5. LastIs(log \o more, "revealed", s, j) /\ (log \o more)[j] = log[j]
  <2>1. \A k \in DOMAIN more : ~(more[k][1] = "revealed" /\ more[k][2] = s)
    OBVIOUS
  <2> QED BY <1>1, <1>3, <2>1, LastKept
<1>6. IsRevealed(solution[s][2])'
  <2>1. IsRevealed(solution[s][2])
    BY DEF LogHasSolution
  <2>2. \E k \in DOMAIN log' : log'[k][1] = "palette" /\ log'[k][3] = solution[s][2]
    BY <2>1, RevealedStays
  <2> QED BY <2>2 DEF IsRevealed
<1>7. /\ \E k \in DOMAIN log' : /\ LastIs(log', "mutated", s, k)
                                /\ log'[k][3] = solution[s][2]
      /\ \E k \in DOMAIN log' : /\ LastIs(log', "revealed", s, k)
                                /\ log'[k][4] = solution[s][1]
  BY <1>2, <1>3, <1>4, <1>5 DEF LastIs
<1> QED BY <1>6, <1>7

LEMMA EventLemma ==
  ASSUME NEW s \in Slots, NEW c \in Carriers, NEW n \in Nat
  PROVE  /\ SlotMutated(s, c, n) \in Event
         /\ SlotMutated(s, c, n)[1] = "mutated" /\ SlotMutated(s, c, n)[2] = s
         /\ SlotMutated(s, c, n)[3] = c
<1>1. s \in Nat /\ c \in Nat
  BY ConstantFacts
<1> QED BY <1>1 DEF SlotMutated, Event

(* Appending one event is appending a sequence of one.                     *)
LEMMA AppendLemma ==
  ASSUME ReadersTypeOK, NEW e \in Event
  PROVE  /\ <<e>> \in Seq(Event) /\ DOMAIN <<e>> = {1} /\ <<e>>[1] = e
         /\ Append(log, e) = log \o <<e>>
         /\ Append(log, e) \in Seq(Event) /\ Len(Append(log, e)) = Len(log) + 1
<1>1. log \in Seq(Event)
  BY DEF ReadersTypeOK
<1>2. <<e>> \in Seq(Event) /\ DOMAIN <<e>> = {1} /\ <<e>>[1] = e
  OBVIOUS
<1>3. Append(log, e) = log \o <<e>>
  BY <1>1
<1>4. Append(log, e) \in Seq(Event) /\ Len(Append(log, e)) = Len(log) + 1
  BY <1>1
<1> QED BY <1>2, <1>3, <1>4

LEMMA ChainFacts ==
  ASSUME ReadersTypeOK
  PROVE  /\ Len(log) \in Nat /\ Stamp \in Nat /\ Stamp > Len(log)
         /\ \A s \in Slots : /\ chain.held[s] \in Carriers \cup {Empty}
                             /\ chain.lsh[s] \in Nat
         /\ \A s \in Occupied : s \in Slots /\ chain.held[s] \in Carriers
         /\ Occupied \in SUBSET Slots
         /\ \A c \in Carriers : drawing[c] \in Nat
         /\ chain.mints \in Nat
         /\ Empty \in Nat
<1>1. log \in Seq(Event) /\ chain \in ChainType /\ drawing \in [Carriers -> Nat]
  BY DEF ReadersTypeOK
<1>2. Len(log) \in Nat /\ Stamp \in Nat /\ Stamp > Len(log)
  BY <1>1 DEF Stamp
<1> QED BY <1>1, <1>2 DEF ChainType, Occupied, Empty

LEMMA MutateStep ==
  ASSUME ReadersInv, MutateSlot
  PROVE  Effect
<1>0. ReadersTypeOK /\ AsMinted(chain) /\ StampsAreNew /\ LogNamesCarriers
      /\ RevealedBySolve
  BY DEF ReadersInv
<1>1. PICK s \in Occupied, t \in Thumbnail :
        /\ chain' = [chain EXCEPT !.lsh[s] = Stamp, !.t10 = t]
        /\ log' = Append(log, SlotMutated(s, chain.held[s], Stamp))
        /\ drawing' = [drawing EXCEPT ![chain.held[s]] = Stamp]
  BY DEF MutateSlot
<1>2. /\ ~chain.solved /\ UNCHANGED <<tool, pc, atStart, got, failed, sent, solution>>
  BY DEF MutateSlot, Transaction
<1> DEFINE e == SlotMutated(s, chain.held[s], Stamp)
<1>3. /\ e \in Event /\ e[1] = "mutated" /\ e[2] = s /\ e[3] = chain.held[s]
      /\ s \in Slots /\ t \in Nat
  <2>1. s \in Slots /\ t \in Nat /\ Stamp \in Nat
    BY <1>0, <1>1, ChainFacts DEF Thumbnail
  <2>2. chain.held[s] \in Carriers
    BY <1>0, <1>1, ChainFacts
  <2> QED BY <2>1, <2>2, EventLemma
<1> HIDE DEF e
<1>4. /\ <<e>> \in Seq(Event) /\ DOMAIN <<e>> = {1} /\ <<e>>[1] = e
      /\ log' = log \o <<e>> /\ log' \in Seq(Event) /\ Len(log') = Len(log) + 1
  BY <1>0, <1>1, <1>3, AppendLemma DEF e
<1>5. /\ chain' \in ChainType /\ chain'.held = chain.held /\ chain'.solved = chain.solved
      /\ chain'.zindex = chain.zindex /\ chain'.mints = chain.mints
      /\ chain'.owner = chain.owner /\ chain'.pk = chain.pk
      /\ chain'.lsh = [chain.lsh EXCEPT ![s] = Stamp]
  BY <1>0, <1>1, <1>3, ChainFacts DEF ReadersTypeOK, ChainType
<1>6. ReadersTypeOK'
  BY <1>0, <1>1, <1>2, <1>4, <1>5, ChainFacts DEF ReadersTypeOK
<1>7. Stamping
  BY <1>0, <1>5, ChainFacts DEF Stamping, ReadersTypeOK, ChainType
<1>8. AsMinted(chain)'
  <2>1. Stamp \notin MintSlots
    BY <1>0, ConstantFacts, ChainFacts DEF StampsAreNew
  <2>2. \A m \in MintSlots : m \in Slots
    BY ConstantFacts
  <2> QED BY <1>0, <1>5, <2>1, <2>2 DEF AsMinted, ReadersTypeOK, ChainType
<1>9. LogNamesCarriers'
  <2>1. LastIs(<<e>>, "mutated", s, 1)
    BY <1>3, <1>4 DEF LastIs
  <2>2. ASSUME NEW o \in Slots, chain'.held[o] # Empty
        PROVE  \/ \E k \in DOMAIN <<e>> : /\ LastIs(<<e>>, "mutated", o, k)
                                          /\ <<e>>[k][3] = chain'.held[o]
               \/ /\ chain'.held[o] = chain.held[o]
                  /\ \A k \in DOMAIN <<e>> : ~(<<e>>[k][1] = "mutated" /\ <<e>>[k][2] = o)
    <3>1. CASE o = s
      BY <3>1, <2>1, <1>3, <1>4, <1>5
    <3>2. CASE o # s
      BY <3>2, <1>3, <1>4, <1>5
    <3> QED BY <3>1, <3>2
  <2> QED BY <1>0, <1>4, <2>2, NamedLemma
<1>10. RevealedBySolve' /\ Len(log) <= Len(log')
  <2>1. \A k \in DOMAIN <<e>> : <<e>>[k][1] # "revealed"
    BY <1>3, <1>4
  <2> QED BY <1>0, <1>2, <1>4, <1>5, <2>1, NothingRevealed
<1>11. LogHasSolution'
  BY <1>2, <1>5 DEF LogHasSolution
<1>12. OneWay /\ FirstTransferOnly
  <2>1. chain.mints <= chain'.mints
    BY <1>0, <1>5, ChainFacts
  <2> QED BY <2>1, <1>2, <1>5 DEF OneWay, FirstTransferOnly
<1> QED BY <1>6, <1>7, <1>8, <1>9, <1>10, <1>11, <1>12 DEF Effect

LEMMA ExtractStep ==
  ASSUME ReadersInv, ExtractSlot
  PROVE  Effect
<1>0. ReadersTypeOK /\ AsMinted(chain) /\ StampsAreNew /\ LogNamesCarriers
      /\ RevealedBySolve
  BY DEF ReadersInv
<1>1. PICK s \in Occupied, t \in Thumbnail :
        chain' = [chain EXCEPT !.held[s] = Empty, !.lsh[s] = Empty, !.t10 = t]
  BY DEF ExtractSlot
<1>2. /\ ~chain.solved
      /\ UNCHANGED <<tool, pc, atStart, got, failed, sent, solution, log, drawing>>
  BY DEF ExtractSlot, Transaction
<1>3. s \in Slots /\ t \in Nat
  BY <1>0, <1>1, ChainFacts DEF Thumbnail
<1>5. /\ chain' \in ChainType /\ chain'.solved = chain.solved
      /\ chain'.zindex = chain.zindex /\ chain'.mints = chain.mints
      /\ chain'.owner = chain.owner /\ chain'.pk = chain.pk
      /\ chain'.held = [chain.held EXCEPT ![s] = Empty]
      /\ chain'.lsh = [chain.lsh EXCEPT ![s] = Empty]
  BY <1>0, <1>1, <1>3, ChainFacts DEF ReadersTypeOK, ChainType
<1>6. ReadersTypeOK'
  BY <1>0, <1>2, <1>5 DEF ReadersTypeOK
<1>7. Stamping
  BY <1>0, <1>5 DEF Stamping, ReadersTypeOK, ChainType
<1>8. AsMinted(chain)'
  <2>1. \A m \in MintSlots : m \in Slots /\ m # Empty
    BY ConstantFacts DEF Empty
  <2> QED BY <1>0, <1>5, <2>1 DEF AsMinted, ReadersTypeOK, ChainType
<1>9. LogNamesCarriers'
  <2>1. \A o \in Slots : chain'.held[o] # Empty => chain'.held[o] = chain.held[o]
    BY <1>0, <1>5 DEF ReadersTypeOK, ChainType
  <2> QED BY <1>0, <1>2, <2>1 DEF LogNamesCarriers
<1>10. RevealedBySolve'
  BY <1>0, <1>2, <1>5 DEF RevealedBySolve
<1>11. LogHasSolution'
  BY <1>2, <1>5 DEF LogHasSolution
<1>12. OneWay /\ FirstTransferOnly /\ Len(log) <= Len(log')
  <2>1. chain.mints <= chain'.mints /\ Len(log) <= Len(log')
    BY <1>0, <1>2, <1>5, ChainFacts
  <2> QED BY <2>1, <1>2, <1>5 DEF OneWay, FirstTransferOnly
<1> QED BY <1>6, <1>7, <1>8, <1>9, <1>10, <1>11, <1>12 DEF Effect

LEMMA InsertStep ==
  ASSUME ReadersInv, InsertFeature
  PROVE  Effect
<1>0. ReadersTypeOK /\ AsMinted(chain) /\ StampsAreNew /\ LogNamesCarriers
      /\ RevealedBySolve
  BY DEF ReadersInv
<1>1. PICK s \in Slots \ Occupied, c \in Carriers, t \in Thumbnail :
        /\ chain' = [chain EXCEPT !.held[s] = c, !.lsh[s] = Stamp, !.t10 = t]
        /\ log' = Append(log, SlotMutated(s, c, Stamp))
  BY DEF InsertFeature
<1>2. /\ ~chain.solved
      /\ UNCHANGED <<tool, pc, atStart, got, failed, sent, solution, drawing>>
  BY DEF InsertFeature, Transaction
<1> DEFINE e == SlotMutated(s, c, Stamp)
<1>3. /\ e \in Event /\ e[1] = "mutated" /\ e[2] = s /\ e[3] = c
      /\ s \in Slots /\ t \in Nat
  <2>1. s \in Slots /\ t \in Nat /\ Stamp \in Nat
    BY <1>0, <1>1, ChainFacts DEF Thumbnail
  <2>2. c \in Carriers
    BY <1>0, <1>1, ChainFacts
  <2> QED BY <2>1, <2>2, EventLemma
<1> HIDE DEF e
<1>4. /\ <<e>> \in Seq(Event) /\ DOMAIN <<e>> = {1} /\ <<e>>[1] = e
      /\ log' = log \o <<e>> /\ log' \in Seq(Event) /\ Len(log') = Len(log) + 1
  BY <1>0, <1>1, <1>3, AppendLemma DEF e
<1>5. /\ chain' \in ChainType /\ chain'.solved = chain.solved
      /\ chain'.zindex = chain.zindex /\ chain'.mints = chain.mints
      /\ chain'.owner = chain.owner /\ chain'.pk = chain.pk
      /\ chain'.held = [chain.held EXCEPT ![s] = c]
      /\ chain'.lsh = [chain.lsh EXCEPT ![s] = Stamp]
  BY <1>0, <1>1, <1>3, ChainFacts DEF ReadersTypeOK, ChainType
<1>6. ReadersTypeOK'
  BY <1>0, <1>2, <1>4, <1>5 DEF ReadersTypeOK
<1>7. Stamping
  BY <1>0, <1>5, ChainFacts DEF Stamping, ReadersTypeOK, ChainType
<1>8. AsMinted(chain)'
  <2>1. Stamp \notin MintSlots
    BY <1>0, ConstantFacts, ChainFacts DEF StampsAreNew
  <2>2. \A m \in MintSlots : m \in Slots
    BY ConstantFacts
  <2> QED BY <1>0, <1>5, <2>1, <2>2 DEF AsMinted, ReadersTypeOK, ChainType
<1>9. LogNamesCarriers'
  <2>1. LastIs(<<e>>, "mutated", s, 1)
    BY <1>3, <1>4 DEF LastIs
  <2>2. ASSUME NEW o \in Slots, chain'.held[o] # Empty
        PROVE  \/ \E k \in DOMAIN <<e>> : /\ LastIs(<<e>>, "mutated", o, k)
                                          /\ <<e>>[k][3] = chain'.held[o]
               \/ /\ chain'.held[o] = chain.held[o]
                  /\ \A k \in DOMAIN <<e>> : ~(<<e>>[k][1] = "mutated" /\ <<e>>[k][2] = o)
    <3>0. chain.held \in [Slots -> Carriers \cup {Empty}]
      BY <1>0 DEF ReadersTypeOK, ChainType
    <3>1. CASE o = s
      BY <3>0, <3>1, <2>1, <1>3, <1>4, <1>5
    <3>2. CASE o # s
      BY <3>0, <3>2, <1>3, <1>4, <1>5
    <3> QED BY <3>1, <3>2
  <2> QED BY <1>0, <1>4, <2>2, NamedLemma
<1>10. RevealedBySolve' /\ Len(log) <= Len(log')
  <2>1. \A k \in DOMAIN <<e>> : <<e>>[k][1] # "revealed"
    BY <1>3, <1>4
  <2> QED BY <1>0, <1>2, <1>4, <1>5, <2>1, NothingRevealed
<1>11. LogHasSolution'
  BY <1>2, <1>5 DEF LogHasSolution
<1>12. OneWay /\ FirstTransferOnly
  <2>1. chain.mints <= chain'.mints
    BY <1>0, <1>5, ChainFacts
  <2> QED BY <2>1, <1>2, <1>5 DEF OneWay, FirstTransferOnly
<1> QED BY <1>6, <1>7, <1>8, <1>9, <1>10, <1>11, <1>12 DEF Effect

LEMMA TransferStep ==
  ASSUME ReadersInv, TransferShadow
  PROVE  Effect
<1>0. ReadersTypeOK /\ AsMinted(chain) /\ StampsAreNew /\ LogNamesCarriers
      /\ RevealedBySolve
  BY DEF ReadersInv
<1> DEFINE O == Occupied
           order == InOrder(O)
           lsh == [s \in Slots |-> IF s \in O THEN Len(log) + Place(O, s) ELSE Empty]
           more == [i \in DOMAIN order |->
                      SlotMutated(order[i], chain.held[order[i]], lsh[order[i]])]
<1>1. PICK p \in {Minter, Recipient}, t \in Thumbnail :
        /\ chain' = [chain EXCEPT !.owner = p, !.pk = p, !.lsh = lsh, !.t10 = t]
        /\ log' = log \o more
        /\ sent' = IF sent = <<>> /\ p = Recipient THEN lsh ELSE sent
  BY DEF TransferShadow
<1>2. /\ ~chain.solved
      /\ UNCHANGED <<tool, pc, atStart, got, failed, solution, drawing>>
  BY DEF TransferShadow, Transaction
<1>3. /\ O \in SUBSET Slots /\ Len(log) \in Nat /\ Empty \in Nat
      /\ \A s \in O : s \in Slots /\ chain.held[s] \in Carriers
      /\ \A s \in Slots : chain.held[s] # Empty => s \in O
  BY <1>0, ChainFacts DEF Occupied
<1> HIDE DEF O
<1> DEFINE n == Cardinality(O)
<1>4. /\ n \in Nat /\ DOMAIN order = 1..n
      /\ \A s \in O : Place(O, s) \in 1..n /\ order[Place(O, s)] = s
      /\ \A i \in 1..n : order[i] \in O /\ Place(O, order[i]) = i
  BY <1>3, OrderLemma
<1> HIDE DEF order, n
<1>5. /\ lsh \in [Slots -> Nat]
      /\ \A s \in O : lsh[s] = Len(log) + Place(O, s)
      /\ \A s \in Slots : lsh[s] = Empty \/ lsh[s] > Len(log)
      /\ \A s \in Slots : lsh[s] <= Len(log) + n
  <2>1. \A s \in O : Place(O, s) \in Nat /\ 1 <= Place(O, s) /\ Place(O, s) <= n
    BY <1>4
  <2> QED BY <2>1, <1>3, <1>4 DEF Empty
<1> HIDE DEF lsh
<1>6. \A i \in 1..n : /\ more[i] \in Event /\ more[i][1] = "mutated"
                      /\ more[i][2] = order[i] /\ more[i][3] = chain.held[order[i]]
  <2> TAKE i \in 1..n
  <2>1. order[i] \in Slots /\ chain.held[order[i]] \in Carriers /\ lsh[order[i]] \in Nat
    BY <1>3, <1>4, <1>5
  <2>2. more[i] = SlotMutated(order[i], chain.held[order[i]], lsh[order[i]])
    BY <1>4
  <2> QED BY <2>1, <2>2, EventLemma
<1>7. DOMAIN more = 1..n /\ more \in Seq(Event) /\ Len(more) = n
  <2>1. DOMAIN more = 1..n /\ more = [i \in 1..n |-> more[i]]
    BY <1>4
  <2> HIDE DEF more
  <2>2. more \in [1..n -> Event]
    BY <2>1, <1>6
  <2> QED BY <2>1, <2>2, <1>4
<1> HIDE DEF more
<1>8. log' \in Seq(Event) /\ Len(log') = Len(log) + n
  BY <1>0, <1>1, <1>7, GrownLemma DEF ReadersTypeOK
<1>9. /\ chain' \in ChainType /\ chain'.solved = chain.solved
      /\ chain'.zindex = chain.zindex /\ chain'.mints = chain.mints
      /\ chain'.held = chain.held /\ chain'.lsh = lsh
  <2>1. t \in Nat
    BY DEF Thumbnail
  <2> QED BY <2>1, <1>0, <1>1, <1>5 DEF ReadersTypeOK, ChainType
<1>10. sent' = sent \/ (sent = <<>> /\ sent' = lsh)
  BY <1>1
<1>11. ReadersTypeOK'
  <2>1. sent' = <<>> \/ sent' \in [Slots -> Nat]
    BY <1>0, <1>5, <1>10 DEF ReadersTypeOK
  <2> QED BY <2>1, <1>0, <1>2, <1>8, <1>9 DEF ReadersTypeOK
<1>12. Stamping
  BY <1>5, <1>9 DEF Stamping
<1>13. AsMinted(chain)'
  <2>1. \A m \in MintSlots : m \in Slots /\ m # Empty /\ m <= Len(log)
    BY <1>0, <1>3, ConstantFacts DEF StampsAreNew, Empty
  <2>2. \A m \in MintSlots : lsh[m] # m
    BY <2>1, <1>3, <1>5, ConstantFacts
  <2> QED BY <2>2, <1>0, <1>9 DEF AsMinted
<1>14. LogNamesCarriers'
  <2>1. ASSUME NEW s \in Slots, chain'.held[s] # Empty
        PROVE  \E k \in DOMAIN more : LastIs(more, "mutated", s, k) /\ more[k][3] = chain'.held[s]
    <3>1. s \in O
      BY <2>1, <1>3, <1>9
    <3>2. \A j \in 1..n : more[j][2] = s => j <= Place(O, s)
      BY <1>4, <1>6
    <3>3. LastIs(more, "mutated", s, Place(O, s)) /\ more[Place(O, s)][3] = chain.held[s]
      BY <3>1, <3>2, <1>4, <1>6, <1>7 DEF LastIs
    <3> QED BY <3>1, <3>3, <1>4, <1>7, <1>9
  <2> QED BY <2>1, <1>0, <1>1, <1>7, NamedLemma
<1>15. RevealedBySolve' /\ Len(log) <= Len(log')
  <2>1. \A k \in DOMAIN more : more[k][1] # "revealed"
    BY <1>6, <1>7
  <2> QED BY <1>0, <1>1, <1>2, <1>7, <1>9, <2>1, NothingRevealed
<1>16. LogHasSolution'
  BY <1>2, <1>9 DEF LogHasSolution
<1>17. OneWay /\ FirstTransferOnly
  <2>1. chain.mints <= chain'.mints
    BY <1>0, <1>9, ChainFacts
  <2>2. \A s \in Slots : lsh[s] <= Len(log')
    BY <1>5, <1>8
  <2> QED BY <2>1, <2>2, <1>2, <1>9, <1>10 DEF OneWay, FirstTransferOnly
<1> QED BY <1>11, <1>12, <1>13, <1>14, <1>15, <1>16, <1>17 DEF Effect

LEMMA SolveStep ==
  ASSUME ReadersInv, Solve
  PROVE  Effect
<1>0. ReadersTypeOK /\ AsMinted(chain) /\ StampsAreNew /\ LogNamesCarriers
      /\ RevealedBySolve
  BY DEF ReadersInv
<1> DEFINE O == Occupied
           order == InOrder(O)
           n == Cardinality(O)
           solved == [s \in O |-> <<drawing[chain.held[s]], chain.held[s]>>]
           event(i) == LET s == order[(i + 1) \div 2]
                           c == chain.held[s]
                       IN IF i % 2 = 1 THEN <<"palette", s, c, 0>>
                          ELSE <<"revealed", s, c, drawing[c]>>
           more == [i \in 1..(2 * n) |-> event(i)]
<1>1. /\ log' = log \o more
      /\ solution' = solved
      /\ chain' = [chain EXCEPT !.solved = TRUE, !.held = [s \in Slots |-> Empty],
                                !.lsh = [s \in Slots |-> Empty]]
  BY DEF Solve
<1>2. /\ ~chain.solved
      /\ UNCHANGED <<tool, pc, atStart, got, failed, sent, drawing>>
  BY DEF Solve, Transaction
<1>3. /\ O \in SUBSET Slots /\ Len(log) \in Nat /\ Empty \in Nat
      /\ \A s \in O : /\ s \in Slots /\ s \in Nat /\ chain.held[s] # Empty
                      /\ chain.held[s] \in Carriers /\ chain.held[s] \in Nat
                      /\ drawing[chain.held[s]] \in Nat
  BY <1>0, ChainFacts, ConstantFacts DEF Occupied
<1>4. /\ n \in Nat
      /\ \A s \in O : Place(O, s) \in 1..n /\ order[Place(O, s)] = s
      /\ \A i \in 1..n : order[i] \in O /\ Place(O, order[i]) = i
  <2> HIDE DEF O
  <2> QED BY <1>3, OrderLemma
<1> HIDE DEF O, order, n
<1>5. solution' \in [O -> Nat \X Carriers]
      /\ \A s \in O : solution'[s][1] = drawing[chain.held[s]] /\ solution'[s][2] = chain.held[s]
  BY <1>1, <1>3
<1> HIDE DEF solved
(* An event of either kind of the slot at one place.                       *)
<1>6. ASSUME NEW i \in 1..n
      PROVE  /\ 2 * i - 1 \in 1..(2 * n) /\ 2 * i \in 1..(2 * n)
             /\ event(2 * i - 1) = <<"palette", order[i], chain.held[order[i]], 0>>
             /\ event(2 * i) = <<"revealed", order[i], chain.held[order[i]],
                                 drawing[chain.held[order[i]]]>>
  <2>1. /\ i \in Nat /\ 1 <= i /\ i <= n
        /\ ((2 * i - 1) + 1) \div 2 = i /\ (2 * i - 1) % 2 = 1
        /\ (2 * i + 1) \div 2 = i /\ (2 * i) % 2 = 0
    BY <1>4
  <2> QED BY <2>1, <1>4
<1>7. ASSUME NEW j \in 1..(2 * n)
      PROVE  \E i \in 1..n : j = 2 * i - 1 \/ j = 2 * i
  <2>1. CASE j % 2 = 0
    <3>1. j = 2 * (j \div 2) /\ j \div 2 \in 1..n
      BY <2>1, <1>4
    <3> QED BY <3>1
  <2>2. CASE j % 2 = 1
    <3>1. j = 2 * (j \div 2 + 1) - 1 /\ (j \div 2 + 1) \in 1..n
      BY <2>2, <1>4
    <3> QED BY <3>1
  <2>3. j % 2 = 0 \/ j % 2 = 1
    BY <1>4
  <2> QED BY <2>1, <2>2, <2>3
<1> HIDE DEF event
<1>8. DOMAIN more = 1..(2 * n) /\ more \in Seq(Event)
  <2>1. \A j \in 1..(2 * n) : event(j) \in Event
    <3> TAKE j \in 1..(2 * n)
    <3>1. PICK i \in 1..n : j = 2 * i - 1 \/ j = 2 * i
      BY <1>7
    <3>2. /\ order[i] \in Nat /\ chain.held[order[i]] \in Nat
          /\ drawing[chain.held[order[i]]] \in Nat
      BY <1>3, <1>4
    <3> QED BY <3>1, <3>2, <1>6 DEF Event
  <2>2. more \in [1..(2 * n) -> Event] /\ 2 * n \in Nat
    BY <2>1, <1>4
  <2> HIDE DEF more
  <2> QED BY <2>2
<1>9. ASSUME NEW i \in 1..n
      PROVE  /\ 2 * i - 1 \in DOMAIN more /\ 2 * i \in DOMAIN more
             /\ more[2 * i - 1] = <<"palette", order[i], chain.held[order[i]], 0>>
             /\ more[2 * i] = <<"revealed", order[i], chain.held[order[i]],
                                drawing[chain.held[order[i]]]>>
  BY <1>6
<1>10. ASSUME NEW j \in DOMAIN more
       PROVE  \E i \in 1..n :
                \/ j = 2 * i - 1 /\ more[j][1] = "palette" /\ more[j][2] = order[i]
                \/ j = 2 * i /\ more[j][1] = "revealed" /\ more[j][2] = order[i]
  <2>1. j \in 1..(2 * n)
    BY <1>8
  <2>2. PICK i \in 1..n : j = 2 * i - 1 \/ j = 2 * i
    BY <2>1, <1>7
  <2> HIDE DEF more
  <2> QED BY <2>2, <1>9
<1> HIDE DEF more
<1>11. log \in Seq(Event) /\ log' \in Seq(Event) /\ Len(log) <= Len(log')
       /\ DOMAIN log \subseteq DOMAIN log'
       /\ (\A i \in DOMAIN more : Len(log) + i \in DOMAIN log' /\ log'[Len(log) + i] = more[i])
       /\ (\A j \in DOMAIN log' : \/ j \in DOMAIN log /\ log'[j] = log[j]
                                  \/ j - Len(log) \in DOMAIN more /\ log'[j] = more[j - Len(log)])
  <2>1. log \in Seq(Event)
    BY <1>0 DEF ReadersTypeOK
  <2>2. /\ Len(log) \in Nat /\ Len(more) \in Nat /\ Len(log') = Len(log) + Len(more)
        /\ log' \in Seq(Event)
        /\ DOMAIN log = 1..Len(log) /\ DOMAIN more = 1..Len(more)
        /\ DOMAIN log' = 1..(Len(log) + Len(more))
        /\ \A i \in DOMAIN log : log'[i] = log[i]
        /\ \A i \in DOMAIN more : log'[Len(log) + i] = more[i]
        /\ \A i \in DOMAIN log' : i \in DOMAIN log \/ i - Len(log) \in DOMAIN more
    BY <2>1, <1>1, <1>8, GrownLemma
  <2>3. \A j \in DOMAIN log' : Len(log) + (j - Len(log)) = j
    BY <2>2
  <2> QED BY <2>1, <2>2, <2>3
<1>12. /\ chain' \in ChainType /\ chain'.solved
       /\ chain'.zindex = chain.zindex /\ chain'.mints = chain.mints
       /\ chain'.owner = chain.owner /\ chain'.pk = chain.pk
       /\ \A s \in Slots : chain'.held[s] = Empty /\ chain'.lsh[s] = Empty
  BY <1>0, <1>1, <1>3 DEF ReadersTypeOK, ChainType
<1>13. ReadersTypeOK'
  <2>1. \E S \in SUBSET Slots : solution' \in [S -> Nat \X Carriers]
    BY <1>3, <1>5
  <2> QED BY <2>1, <1>0, <1>2, <1>11, <1>12 DEF ReadersTypeOK
<1>14. Stamping
  BY <1>12 DEF Stamping
<1>15. AsMinted(chain)'
  <2>1. \A m \in MintSlots : m \in Slots /\ m # Empty
    BY ConstantFacts DEF Empty
  <2> QED BY <2>1, <1>0, <1>12 DEF AsMinted
<1>20. log \in Seq(Event) /\ more \in Seq(Event)
  BY <1>8, <1>11
<1>16. LogNamesCarriers'
  BY <1>12 DEF LogNamesCarriers
<1>17. RevealedBySolve'
  <2>1. ASSUME NEW j \in DOMAIN log', log'[j][1] = "revealed"
        PROVE  log'[j][2] \in DOMAIN solution'
    <3>1. CASE j \in DOMAIN log /\ log'[j] = log[j]
      BY <3>1, <2>1, <1>0, <1>2 DEF RevealedBySolve
    <3>2. CASE j - Len(log) \in DOMAIN more /\ log'[j] = more[j - Len(log)]
      BY <3>2, <1>4, <1>5, <1>10
    <3> QED BY <3>1, <3>2, <1>11
  <2> QED BY <2>1, <1>12 DEF RevealedBySolve
<1>18. LogHasSolution'
  <2>1. ASSUME NEW s \in O
        PROVE  \E i \in DOMAIN log' : /\ LastIs(log', "mutated", s, i)
                                      /\ log'[i][3] = solution'[s][2]
    <3>1. PICK i \in DOMAIN log : LastIs(log, "mutated", s, i) /\ log[i][3] = chain.held[s]
      BY <1>0, <1>3 DEF LogNamesCarriers
    <3>2. \A k \in DOMAIN more : ~(more[k][1] = "mutated" /\ more[k][2] = s)
      BY <1>10
    <3>3. LastIs(log \o more, "mutated", s, i) /\ (log \o more)[i] = log[i]
      BY <3>1, <3>2, <1>20, LastKept
    <3> QED BY <3>1, <3>3, <1>1, <1>5, <1>11
  <2>2. ASSUME NEW s \in O
        PROVE  \E i \in DOMAIN log' : /\ LastIs(log', "revealed", s, i)
                                      /\ log'[i][4] = solution'[s][1]
    <3> DEFINE p == Place(O, s)
    <3>1. p \in 1..n /\ order[p] = s
      BY <1>4
    <3>2. /\ 2 * p \in DOMAIN more
          /\ more[2 * p] = <<"revealed", s, chain.held[s], drawing[chain.held[s]]>>
      BY <3>1, <1>9
    <3>3. \A j \in DOMAIN more : more[j][1] = "revealed" /\ more[j][2] = s => j = 2 * p
      BY <1>4, <1>10
    <3>4. LastIs(more, "revealed", s, 2 * p)
      <4>1. 2 * p <= 2 * p
        BY <3>1, <1>4
      <4> QED BY <3>2, <3>3, <4>1 DEF LastIs
    <3> DEFINE q == 2 * p
    <3>5. q \in DOMAIN more /\ LastIs(more, "revealed", s, q)
          /\ more[q][4] = drawing[chain.held[s]]
      BY <3>2, <3>4
    <3> HIDE DEF q
    <3>6. LastIs(log', "revealed", s, Len(log) + q) /\ log'[Len(log) + q] = more[q]
      BY <3>5, <1>1, <1>20, LastNew
    <3> QED BY <3>5, <3>6, <1>5, <1>11
  <2>3. ASSUME NEW s \in O
        PROVE  \E i \in DOMAIN log' : log'[i][1] = "palette" /\ log'[i][3] = solution'[s][2]
    <3> DEFINE p == Place(O, s)
    <3>1. p \in 1..n /\ order[p] = s
      BY <1>4
    <3>2. 2 * p - 1 \in DOMAIN more /\ more[2 * p - 1] = <<"palette", s, chain.held[s], 0>>
      BY <3>1, <1>9
    <3>3. Len(log) + (2 * p - 1) \in DOMAIN log' /\ log'[Len(log) + (2 * p - 1)] = more[2 * p - 1]
      BY <3>2, <1>11
    <3> QED BY <3>2, <3>3, <1>5
  <2>4. DOMAIN solution' = O
    BY <1>5
  <2> QED BY <2>1, <2>2, <2>3, <2>4, <1>12 DEF LogHasSolution, IsRevealed
<1>19. OneWay /\ FirstTransferOnly
  <2>1. chain.mints <= chain'.mints
    BY <1>0, <1>12, ChainFacts
  <2> QED BY <2>1, <1>2, <1>12 DEF OneWay, FirstTransferOnly
<1> QED BY <1>11, <1>13, <1>14, <1>15, <1>16, <1>17, <1>18, <1>19 DEF Effect

(* setZIndexCommit and the mint of another shadow write no event that the  *)
(* tools look for.                                                         *)
LEMMA QuietStep ==
  ASSUME ReadersInv, CommitZIndex \/ MintAnother
  PROVE  Effect
<1>0. ReadersTypeOK /\ AsMinted(chain) /\ LogNamesCarriers /\ RevealedBySolve
      /\ LogHasSolution
  BY DEF ReadersInv
<1>1. UNCHANGED <<log, drawing, sent, solution, tool, pc, atStart, got, failed>>
  BY DEF CommitZIndex, MintAnother, Transaction
<1>2. /\ chain' \in ChainType /\ chain'.solved = chain.solved
      /\ chain.zindex => chain'.zindex
      /\ chain.mints <= chain'.mints
      /\ chain'.owner = chain.owner /\ chain'.pk = chain.pk
      /\ chain'.held = chain.held /\ chain'.lsh = chain.lsh
  <2>1. CASE CommitZIndex
    <3>1. PICK t \in Thumbnail : chain' = [chain EXCEPT !.zindex = TRUE, !.t10 = t]
      BY <2>1 DEF CommitZIndex
    <3>2. t \in Nat /\ chain.mints \in Nat
      BY <1>0, ChainFacts DEF Thumbnail
    <3>3. chain.mints <= chain.mints
      BY <3>2
    <3> QED BY <3>1, <3>2, <3>3, <1>0 DEF ReadersTypeOK, ChainType
  <2>2. CASE MintAnother
    <3>1. chain' = [chain EXCEPT !.mints = @ + 1]
      BY <2>2 DEF MintAnother
    <3>2. chain.mints \in Nat /\ chain \in ChainType
      BY <1>0, ChainFacts DEF ReadersTypeOK
    <3>3. /\ chain' \in ChainType /\ chain'.mints = chain.mints + 1
          /\ chain'.solved = chain.solved /\ chain'.zindex = chain.zindex
          /\ chain'.owner = chain.owner /\ chain'.pk = chain.pk
          /\ chain'.held = chain.held /\ chain'.lsh = chain.lsh
      BY <3>1, <3>2 DEF ChainType
    <3>4. chain.mints <= chain.mints + 1
      BY <3>2
    <3> QED BY <3>3, <3>4
  <2> QED BY <2>1, <2>2
<1>3. ReadersTypeOK'
  BY <1>0, <1>1, <1>2 DEF ReadersTypeOK
<1>4. AsMinted(chain)'
  <2>1. chain'.mints >= 1
    BY <1>0, <1>2, ChainFacts DEF AsMinted, ReadersTypeOK, ChainType
  <2> QED BY <2>1, <1>0, <1>2 DEF AsMinted
<1>5. Stamping /\ OneWay /\ FirstTransferOnly
  BY <1>1, <1>2 DEF Stamping, OneWay, FirstTransferOnly
<1>6. LogNamesCarriers' /\ RevealedBySolve' /\ LogHasSolution'
  BY <1>0, <1>1, <1>2 DEF LogNamesCarriers, RevealedBySolve, LogHasSolution, IsRevealed
<1>7. Len(log) <= Len(log')
  BY <1>0, <1>1, ChainFacts
<1> QED BY <1>3, <1>4, <1>5, <1>6, <1>7 DEF Effect

LEMMA SolveAnotherStep ==
  ASSUME ReadersInv, SolveAnother
  PROVE  Effect
<1>0. ReadersTypeOK /\ AsMinted(chain) /\ LogNamesCarriers /\ RevealedBySolve
      /\ LogHasSolution
  BY DEF ReadersInv
<1>1. UNCHANGED <<chain, drawing, sent, solution, tool, pc, atStart, got, failed>>
  BY DEF SolveAnother, Transaction
<1>2. PICK c \in Carriers : log' = Append(log, <<"palette", 0, c, 0>>)
  BY DEF SolveAnother
<1> DEFINE e == <<"palette", 0, c, 0>>
<1>3. e \in Event /\ e[1] = "palette"
  <2>1. c \in Nat
    BY ConstantFacts
  <2> QED BY <2>1 DEF Event
<1> HIDE DEF e
<1>4. /\ <<e>> \in Seq(Event) /\ DOMAIN <<e>> = {1} /\ <<e>>[1] = e
      /\ log' = log \o <<e>> /\ log' \in Seq(Event) /\ Len(log') = Len(log) + 1
  BY <1>0, <1>2, <1>3, AppendLemma DEF e
<1>5. \A k \in DOMAIN <<e>> : <<e>>[k][1] # "revealed" /\ <<e>>[k][1] # "mutated"
  BY <1>3, <1>4
<1>6. ReadersTypeOK'
  BY <1>0, <1>1, <1>4 DEF ReadersTypeOK
<1>7. LogNamesCarriers'
  BY <1>0, <1>1, <1>4, <1>5, NamedLemma
<1>8. RevealedBySolve' /\ Len(log) <= Len(log')
  BY <1>0, <1>1, <1>4, <1>5, NothingRevealed
<1>9. LogHasSolution'
  BY <1>0, <1>1, <1>4, <1>5, SolutionStays
<1>10. AsMinted(chain)'
  BY <1>0, <1>1 DEF AsMinted
<1>11. Stamping /\ OneWay /\ FirstTransferOnly
  <2>1. chain.mints <= chain'.mints
    BY <1>0, <1>1, ChainFacts
  <2> QED BY <2>1, <1>1 DEF Stamping, OneWay, FirstTransferOnly
<1> QED BY <1>6, <1>7, <1>8, <1>9, <1>10, <1>11 DEF Effect
--------------------------------------------------------------------------------
(* A transaction keeps the invariant: it brings no stamp back, and undoes  *)
(* nothing that a reader may rely on.                                      *)
LEMMA ChangesKeep ==
  ASSUME ReadersInv, Changes
  PROVE  ReadersInv'
<1>0. ReadersTypeOK /\ PlaceOfTool /\ StampsAreNew /\ AsMinted(chain) /\ AsMinted(atStart)
      /\ SinceStart /\ MintRead /\ (tool = "mint" /\ pc = "passed" => ~failed)
      /\ TransferRead /\ RenderRead /\ (pc = "c2" => got = Nothing) /\ SolvedRenderIsExact
  BY DEF ReadersInv
<1>1. Effect
  BY MutateStep, ExtractStep, InsertStep, TransferStep, SolveStep, QuietStep,
     SolveAnotherStep DEF Changes
<1>2. UNCHANGED <<tool, pc, atStart, got, failed>>
  BY DEF Changes, MutateSlot, ExtractSlot, InsertFeature, TransferShadow, Solve,
         CommitZIndex, MintAnother, SolveAnother, Transaction
<1>3. /\ ReadersTypeOK' /\ Stamping /\ OneWay /\ FirstTransferOnly /\ Len(log) <= Len(log')
      /\ AsMinted(chain)' /\ LogNamesCarriers' /\ RevealedBySolve' /\ LogHasSolution'
  BY <1>1 DEF Effect
<1>4. Len(log) \in Nat /\ Len(log') \in Nat
  BY <1>0, <1>3 DEF ReadersTypeOK
<1>5. StampsAreNew'
  <2>1. Cardinality(MintSlots) <= Len(log')
    BY <1>0, <1>3, <1>4, ConstantFacts DEF StampsAreNew
  <2>2. ASSUME sent' # <<>>, NEW s \in Slots
        PROVE  sent'[s] <= Len(log')
    <3>1. CASE sent' = sent
      <4>1. sent[s] \in Nat /\ sent[s] <= Len(log)
        BY <2>2, <3>1, <1>0 DEF StampsAreNew, ReadersTypeOK
      <4> QED BY <3>1, <4>1, <1>3, <1>4
    <3>2. CASE sent' # sent
      BY <3>2, <1>3 DEF FirstTransferOnly
    <3> QED BY <3>1, <3>2
  <2> QED BY <2>1, <2>2 DEF StampsAreNew
<1>6. AsMinted(atStart)' /\ PlaceOfTool'
  BY <1>0, <1>2 DEF AsMinted, PlaceOfTool
<1>7. SinceStart'
  <2>1. (atStart.solved => chain'.solved) /\ (atStart.zindex => chain'.zindex)
    BY <1>0, <1>3 DEF SinceStart, OneWay
  <2>2. atStart.mints <= chain'.mints
    BY <1>0, <1>3 DEF SinceStart, OneWay, ReadersTypeOK, ChainType
  <2>3. ASSUME NEW s \in MintSlots, chain'.lsh[s] = s
        PROVE  atStart.lsh[s] = s
    <3>1. s \in Slots /\ s \in Nat /\ s # Empty /\ s <= Len(log)
      BY <1>0, <1>4, ConstantFacts DEF StampsAreNew, Empty
    <3>2. chain'.lsh[s] = chain.lsh[s]
      BY <2>3, <3>1, <1>3, <1>4 DEF Stamping
    <3> QED BY <2>3, <3>2, <1>0 DEF SinceStart
  <2>4. ASSUME tool = "transfer"
        PROVE  /\ sent' = sent /\ sent # <<>>
               /\ \A s \in Slots : sent[s] # Empty /\ chain'.lsh[s] = sent[s] =>
                    atStart.lsh[s] = sent[s]
    <3>1. sent' = sent /\ sent # <<>>
      BY <2>4, <1>0, <1>3 DEF SinceStart, FirstTransferOnly
    <3>2. ASSUME NEW s \in Slots, sent[s] # Empty, chain'.lsh[s] = sent[s]
          PROVE  atStart.lsh[s] = sent[s]
      <4>1. sent[s] \in Nat /\ sent[s] <= Len(log)
        BY <3>1, <1>0 DEF StampsAreNew, ReadersTypeOK
      <4>2. chain'.lsh[s] = chain.lsh[s]
        BY <3>2, <4>1, <1>3, <1>4 DEF Stamping
      <4> QED BY <2>4, <3>2, <4>2, <1>0 DEF SinceStart
    <3> QED BY <3>1, <3>2
  <2> QED BY <2>1, <2>2, <2>3, <2>4, <1>2 DEF SinceStart
<1>8. MintRead' /\ (tool = "mint" /\ pc = "passed" => ~failed)'
  BY <1>0, <1>2 DEF MintRead
<1>9. TransferRead'
  <2>1. tool = "transfer" => sent' = sent
    BY <1>0, <1>3 DEF SinceStart, FirstTransferOnly
  <2> QED BY <2>1, <1>0, <1>2 DEF TransferRead
<1>10. RenderRead' /\ (pc = "c2" => got = Nothing)' /\ SolvedRenderIsExact'
  <2>1. atStart.solved => solution' = solution
    BY <1>0, <1>3 DEF SinceStart, OneWay
  <2> QED BY <2>1, <1>0, <1>2 DEF RenderRead, SolvedRenderIsExact, Nothing
<1> QED BY <1>3, <1>5, <1>6, <1>7, <1>8, <1>9, <1>10 DEF ReadersInv
--------------------------------------------------------------------------------
(* A read changes nothing of the chain.                                    *)

Reading ==
  /\ DOMAIN got = Fields /\ failed \in BOOLEAN
  /\ PlaceOfTool
  /\ MintRead /\ (tool = "mint" /\ pc = "passed" => ~failed) /\ TransferRead
  /\ RenderRead /\ (pc = "c2" => got = Nothing) /\ SolvedRenderIsExact

LEMMA ReadKeeps ==
  ASSUME ReadersInv, UNCHANGED <<chainVars, tool, atStart>>, Reading'
  PROVE  ReadersInv'
<1>0. /\ ReadersTypeOK /\ StampsAreNew /\ AsMinted(chain) /\ AsMinted(atStart) /\ SinceStart
      /\ LogNamesCarriers /\ RevealedBySolve /\ LogHasSolution
  BY DEF ReadersInv
<1>1. UNCHANGED <<chain, log, changes, drawing, sent, solution, tool, atStart>>
  BY DEF chainVars
<1>2. ReadersTypeOK'
  BY <1>0, <1>1 DEF ReadersTypeOK, Reading
<1>3. StampsAreNew' /\ AsMinted(chain)' /\ AsMinted(atStart)' /\ SinceStart'
  BY <1>0, <1>1 DEF StampsAreNew, AsMinted, SinceStart
<1>4. LogNamesCarriers' /\ RevealedBySolve' /\ LogHasSolution'
  BY <1>0, <1>1 DEF LogNamesCarriers, RevealedBySolve, LogHasSolution, IsRevealed
<1> QED BY <1>2, <1>3, <1>4 DEF ReadersInv, Reading

LEMMA StartKeeps ==
  ASSUME ReadersInv, NEW t \in {"render", "mint", "transfer"}, NEW first, Start(t, first),
         \/ t = "render" /\ first = "c2"
         \/ t = "mint" /\ first = "wiring"
         \/ t = "transfer" /\ first = "owner" /\ sent # <<>>
  PROVE  ReadersInv'
<1>0. /\ ReadersTypeOK /\ PlaceOfTool /\ StampsAreNew /\ AsMinted(chain)
      /\ LogNamesCarriers /\ RevealedBySolve /\ LogHasSolution
  BY DEF ReadersInv
<1>1. /\ tool' = t /\ pc' = first /\ atStart' = chain
      /\ UNCHANGED <<chain, log, changes, drawing, sent, solution, got, failed>>
      /\ got = Nothing /\ ~failed
  BY <1>0 DEF Start, chainVars, PlaceOfTool
<1>2. ReadersTypeOK'
  BY <1>0, <1>1 DEF ReadersTypeOK
<1>3. StampsAreNew' /\ AsMinted(chain)' /\ AsMinted(atStart)' /\ PlaceOfTool'
  BY <1>0, <1>1 DEF StampsAreNew, AsMinted, PlaceOfTool, MintPlaces
<1>4. SinceStart'
  <2>1. chain.mints <= chain.mints
    BY <1>0, ChainFacts
  <2> QED BY <2>1, <1>1 DEF SinceStart
<1>5. LogNamesCarriers' /\ RevealedBySolve' /\ LogHasSolution'
  BY <1>0, <1>1 DEF LogNamesCarriers, RevealedBySolve, LogHasSolution, IsRevealed
<1>6. got'.slots = {}
  BY <1>1 DEF Nothing
<1>7. /\ MintRead' /\ (tool = "mint" /\ pc = "passed" => ~failed)' /\ TransferRead'
      /\ RenderRead' /\ (pc = "c2" => got = Nothing)' /\ SolvedRenderIsExact'
  BY <1>1, <1>6 DEF MintRead, TransferRead, RenderRead, SolvedRenderIsExact
<1> QED BY <1>2, <1>3, <1>4, <1>5, <1>7 DEF ReadersInv

LEMMA GoFacts ==
  ASSUME ReadersInv, NEW from, NEW to, Go(from, to)
  PROVE  /\ UNCHANGED <<chainVars, tool, atStart>> /\ pc = from /\ pc' = to
         /\ UNCHANGED <<chain, log, drawing, sent, solution>>
         /\ DOMAIN got = Fields /\ failed \in BOOLEAN /\ ReadersTypeOK /\ PlaceOfTool
         /\ MintRead /\ (tool = "mint" /\ pc = "passed" => ~failed) /\ TransferRead
         /\ RenderRead /\ (pc = "c2" => got = Nothing) /\ SolvedRenderIsExact
         /\ SinceStart /\ RevealedBySolve /\ LogHasSolution /\ AsMinted(atStart)
BY DEF Go, chainVars, ReadersInv, ReadersTypeOK

LEMMA RenderKeeps ==
  ASSUME ReadersInv, Render
  PROVE  ReadersInv'
<1>1. CASE Start("render", "c2")
  BY <1>1, StartKeeps
<1>2. CASE FetchLatestC2PerSlot
  <2>0. /\ Go("c2", "sidecar")
        /\ got' = [got EXCEPT !.c2 = Latest("mutated", log)]
        /\ failed' = failed
    BY <1>2 DEF FetchLatestC2PerSlot
  <2>1. /\ UNCHANGED <<chainVars, tool, atStart>> /\ pc = "c2" /\ pc' = "sidecar"
        /\ UNCHANGED <<chain, log, drawing, sent, solution>>
        /\ DOMAIN got = Fields /\ failed \in BOOLEAN /\ ReadersTypeOK /\ PlaceOfTool
        /\ SinceStart /\ LogHasSolution
    BY <2>0, GoFacts
  <2>2. DOMAIN got' = Fields /\ got'.c2 = Latest("mutated", log)
    BY <2>0, <2>1 DEF Fields
  <2>3. ASSUME atStart.solved, NEW s \in DOMAIN solution
        PROVE  s \in DOMAIN got'.c2 /\ got'.c2[s][3] = solution[s][2]
    <3>1. s \in Slots /\ log \in Seq(Event)
      BY <2>1, <2>3 DEF ReadersTypeOK
    <3>2. PICK i \in DOMAIN log : LastIs(log, "mutated", s, i) /\ log[i][3] = solution[s][2]
      BY <2>1, <2>3 DEF SinceStart, LogHasSolution
    <3>3. s \in DOMAIN Latest("mutated", log) /\ Latest("mutated", log)[s] = log[i]
      BY <3>1, <3>2, LatestIs
    <3> QED BY <2>2, <3>2, <3>3
  <2>4. Reading'
    BY <2>0, <2>1, <2>2, <2>3
    DEF Reading, PlaceOfTool, MintPlaces, MintRead, TransferRead, RenderRead, SolvedRenderIsExact
  <2> QED BY <2>1, <2>4, ReadKeeps
<1>3. CASE LoadC1Sidecar
  <2>0. /\ Go("sidecar", "palettes") /\ failed' = failed
        /\ \E c1 : got' = [got EXCEPT !.c1 = c1]
    BY <1>3 DEF LoadC1Sidecar
  <2>1. /\ UNCHANGED <<chainVars, tool, atStart>> /\ pc = "sidecar" /\ pc' = "palettes"
        /\ UNCHANGED <<chain, log, drawing, sent, solution>>
        /\ DOMAIN got = Fields /\ failed \in BOOLEAN /\ PlaceOfTool /\ RenderRead
    BY <2>0, GoFacts
  <2>2. DOMAIN got' = Fields /\ got'.c2 = got.c2
    BY <2>0, <2>1 DEF Fields
  <2>3. Reading'
    BY <2>0, <2>1, <2>2
    DEF Reading, PlaceOfTool, MintPlaces, MintRead, TransferRead, RenderRead, SolvedRenderIsExact
  <2> QED BY <2>1, <2>3, ReadKeeps
<1>4. CASE FetchRevealedPalettes
  <2>0. /\ Go("palettes", "revealed") /\ failed' = failed
        /\ got' = [got EXCEPT !.palettes = {c \in Carriers : IsRevealed(c)}]
    BY <1>4 DEF FetchRevealedPalettes
  <2>1. /\ UNCHANGED <<chainVars, tool, atStart>> /\ pc = "palettes" /\ pc' = "revealed"
        /\ UNCHANGED <<chain, log, drawing, sent, solution>>
        /\ DOMAIN got = Fields /\ failed \in BOOLEAN /\ ReadersTypeOK /\ PlaceOfTool
        /\ RenderRead /\ SinceStart /\ LogHasSolution
    BY <2>0, GoFacts
  <2>2. /\ DOMAIN got' = Fields /\ got'.c2 = got.c2
        /\ got'.palettes = {c \in Carriers : IsRevealed(c)}
    BY <2>0, <2>1 DEF Fields
  <2>3. ASSUME atStart.solved, NEW s \in DOMAIN solution
        PROVE  solution[s][2] \in got'.palettes
    <3>1. solution[s][2] \in Carriers
      BY <2>1, <2>3 DEF ReadersTypeOK
    <3>2. IsRevealed(solution[s][2])
      BY <2>1, <2>3 DEF SinceStart, LogHasSolution
    <3> QED BY <2>2, <3>1, <3>2
  <2>4. Reading'
    BY <2>0, <2>1, <2>2, <2>3
    DEF Reading, PlaceOfTool, MintPlaces, MintRead, TransferRead, RenderRead, SolvedRenderIsExact
  <2> QED BY <2>1, <2>4, ReadKeeps
<1>5. CASE FetchRevealedSlots
  <2>0. /\ Go("revealed", "decode") /\ failed' = failed
        /\ got' = [got EXCEPT !.revealed = Latest("revealed", log)]
    BY <1>5 DEF FetchRevealedSlots
  <2>1. /\ UNCHANGED <<chainVars, tool, atStart>> /\ pc = "revealed" /\ pc' = "decode"
        /\ UNCHANGED <<chain, log, drawing, sent, solution>>
        /\ DOMAIN got = Fields /\ failed \in BOOLEAN /\ ReadersTypeOK /\ PlaceOfTool
        /\ RenderRead /\ SinceStart /\ RevealedBySolve /\ LogHasSolution
    BY <2>0, GoFacts
  <2>2. /\ DOMAIN got' = Fields /\ got'.c2 = got.c2 /\ got'.palettes = got.palettes
        /\ got'.revealed = Latest("revealed", log)
    BY <2>0, <2>1 DEF Fields
  <2>3. log \in Seq(Event)
    BY <2>1 DEF ReadersTypeOK
  <2>4. ASSUME atStart.solved, NEW s \in DOMAIN solution
        PROVE  s \in DOMAIN got'.revealed /\ got'.revealed[s][4] = solution[s][1]
    <3>1. s \in Slots
      BY <2>1, <2>4 DEF ReadersTypeOK
    <3>2. PICK i \in DOMAIN log : LastIs(log, "revealed", s, i) /\ log[i][4] = solution[s][1]
      BY <2>1, <2>4 DEF SinceStart, LogHasSolution
    <3>3. s \in DOMAIN Latest("revealed", log) /\ Latest("revealed", log)[s] = log[i]
      BY <2>3, <3>1, <3>2, LatestIs
    <3> QED BY <2>2, <3>2, <3>3
  <2>5. \A s \in DOMAIN got'.revealed : s \in DOMAIN solution
    <3> SUFFICES ASSUME NEW s \in DOMAIN Latest("revealed", log) PROVE s \in DOMAIN solution
      BY <2>2
    <3>1. \E i \in DOMAIN log : log[i][1] = "revealed" /\ log[i][2] = s
      BY <2>3, LatestDomain
    <3> QED BY <2>1, <3>1 DEF RevealedBySolve
  <2>6. atStart.solved => DOMAIN got'.revealed = DOMAIN solution
    BY <2>4, <2>5
  <2>7. Reading'
    BY <2>0, <2>1, <2>2, <2>4, <2>6
    DEF Reading, PlaceOfTool, MintPlaces, MintRead, TransferRead, RenderRead, SolvedRenderIsExact
  <2> QED BY <2>1, <2>7, ReadKeeps
<1>6. CASE Decode
  <2>0. /\ Go("decode", "rendered") /\ failed' = failed
        /\ \E noise \in SUBSET ((DOMAIN got.c2 \cap DOMAIN got.c1) \ DOMAIN got.revealed) :
             got' = [got EXCEPT !.shown = [s \in DOMAIN got.revealed \cup noise |->
               <<IF s \in DOMAIN got.revealed THEN got.revealed[s][4] ELSE DecryptC2(s),
                 Palette(s)>>]]
    BY <1>6 DEF Decode
  <2>1. /\ UNCHANGED <<chainVars, tool, atStart>> /\ pc = "decode" /\ pc' = "rendered"
        /\ UNCHANGED <<chain, log, drawing, sent, solution>>
        /\ DOMAIN got = Fields /\ failed \in BOOLEAN /\ ReadersTypeOK /\ PlaceOfTool
        /\ RenderRead
    BY <2>0, GoFacts
  <2>2. PICK noise \in SUBSET ((DOMAIN got.c2 \cap DOMAIN got.c1) \ DOMAIN got.revealed) :
          got' = [got EXCEPT !.shown = [s \in DOMAIN got.revealed \cup noise |->
            <<IF s \in DOMAIN got.revealed THEN got.revealed[s][4] ELSE DecryptC2(s),
              Palette(s)>>]]
    BY <2>0
  <2> DEFINE shown == [s \in DOMAIN got.revealed \cup noise |->
            <<IF s \in DOMAIN got.revealed THEN got.revealed[s][4] ELSE DecryptC2(s),
              Palette(s)>>]
  <2>3. DOMAIN got' = Fields /\ got'.c1 = got.c1 /\ got'.shown = shown
    BY <2>1, <2>2 DEF Fields
  <2>4. ASSUME atStart.solved, got'.c1 = <<>>
        PROVE  got'.shown = solution
    <3>1. noise = {}
      BY <2>3, <2>4
    <3>2. /\ DOMAIN got.revealed = DOMAIN solution
          /\ \A s \in DOMAIN solution : /\ got.revealed[s][4] = solution[s][1]
                                        /\ s \in DOMAIN got.c2
                                        /\ got.c2[s][3] = solution[s][2]
                                        /\ solution[s][2] \in got.palettes
      BY <2>1, <2>4 DEF RenderRead
    <3>3. shown = [s \in DOMAIN solution |-> <<solution[s][1], solution[s][2]>>]
      BY <3>1, <3>2 DEF Palette
    <3>4. PICK S \in SUBSET Slots : solution \in [S -> Nat \X Carriers]
      BY <2>1 DEF ReadersTypeOK
    <3>5. \A s \in DOMAIN solution : solution[s] = <<solution[s][1], solution[s][2]>>
      BY <3>4
    <3>6. solution = [s \in DOMAIN solution |-> <<solution[s][1], solution[s][2]>>]
      BY <3>4, <3>5
    <3> QED BY <2>3, <3>3, <3>6
  <2>5. Reading'
    BY <2>0, <2>1, <2>3, <2>4
    DEF Reading, PlaceOfTool, MintPlaces, MintRead, TransferRead, RenderRead, SolvedRenderIsExact
  <2> QED BY <2>1, <2>5, ReadKeeps
<1>7. CASE RenderSeed
  <2>0. /\ Go("c2", "rendered") /\ failed' = failed
        /\ \E shown : got' = [got EXCEPT !.shown = shown]
    BY <1>7 DEF RenderSeed
  <2>1. /\ UNCHANGED <<chainVars, tool, atStart>> /\ pc = "c2" /\ pc' = "rendered"
        /\ UNCHANGED <<chain, log, drawing, sent, solution>>
        /\ DOMAIN got = Fields /\ failed \in BOOLEAN /\ PlaceOfTool
        /\ got = Nothing
    BY <2>0, GoFacts
  <2>2. DOMAIN got' = Fields /\ got'.c2 = <<>>
    BY <2>0, <2>1 DEF Fields, Nothing
  <2>3. Reading'
    BY <2>0, <2>1, <2>2
    DEF Reading, PlaceOfTool, MintPlaces, MintRead, TransferRead, RenderRead, SolvedRenderIsExact
  <2> QED BY <2>1, <2>3, ReadKeeps
<1> QED BY <1>1, <1>2, <1>3, <1>4, <1>5, <1>6, <1>7 DEF Render

LEMMA OneLemma == \A x \in Nat : 1 <= x /\ x <= 1 => x = 1
OBVIOUS

(* A step of verify_onchain_mint.py.  It reads slots or records a failure. *)
LEMMA MintReading ==
  ASSUME ReadersInv, NEW from, NEW to, Go(from, to), tool = "mint", from \in MintPlaces,
         to \in MintPlaces \cup {"passed", "crashed", "exit 1"},
         DOMAIN got' = Fields, failed' \in BOOLEAN, failed => failed',
         ~failed' =>
           /\ \A s \in MintSlots \cap got'.slots : s \in got.slots \/ chain.lsh[s] = s
           /\ to \in {"token owner", "record", "summary", "passed"} =>
                \/ from \in {"token owner", "record", "summary"} /\ got' = got
                \/ MintSlots \subseteq got'.slots /\ chain.mints = 1
           /\ to \in {"summary", "passed"} =>
                from = "summary" \/ (~chain.solved /\ ~chain.zindex),
         to = "passed" => ~failed'
  PROVE  ReadersInv'
<1>1. /\ UNCHANGED <<chainVars, tool, atStart>> /\ pc = from /\ pc' = to
      /\ UNCHANGED <<chain, log, drawing, sent, solution>>
      /\ failed \in BOOLEAN /\ ReadersTypeOK /\ MintRead /\ SinceStart /\ AsMinted(atStart)
  BY GoFacts DEF MintPlaces
<1>2. PlaceOfTool' /\ TransferRead' /\ RenderRead' /\ SolvedRenderIsExact'
      /\ (pc = "c2" => got = Nothing)' /\ (tool = "mint" /\ pc = "passed" => ~failed)'
  BY <1>1 DEF PlaceOfTool, MintPlaces, TransferRead, RenderRead, SolvedRenderIsExact
<1>3. MintRead'
  <2> SUFFICES ASSUME ~failed'
               PROVE  /\ \A s \in MintSlots \cap got'.slots : atStart.lsh[s] = s
                      /\ pc' \in {"token owner", "record", "summary", "passed"} =>
                           MintSlots \subseteq got'.slots /\ atStart.mints = 1
                      /\ pc' \in {"summary", "passed"} =>
                           ~atStart.solved /\ ~atStart.zindex
    BY <1>1 DEF MintRead
  <2>1. ~failed
    OBVIOUS
  <2>2. \A s \in MintSlots \cap got'.slots : atStart.lsh[s] = s
    BY <1>1, <2>1 DEF MintRead, SinceStart
  <2>3. ASSUME chain.mints = 1 PROVE atStart.mints = 1
    <3>1. atStart.mints \in Nat
      BY <1>1 DEF ReadersTypeOK, ChainType
    <3>2. 1 <= atStart.mints
      BY <1>1, <3>1 DEF AsMinted
    <3>3. atStart.mints <= 1
      BY <1>1, <2>3 DEF SinceStart
    <3> QED BY <3>1, <3>2, <3>3, OneLemma, Zenon
  <2>4. ASSUME pc' \in {"token owner", "record", "summary", "passed"}
        PROVE  MintSlots \subseteq got'.slots /\ atStart.mints = 1
    <3>1. CASE from \in {"token owner", "record", "summary"} /\ got' = got
      BY <3>1, <1>1, <2>1 DEF MintRead
    <3>2. CASE MintSlots \subseteq got'.slots /\ chain.mints = 1
      BY <3>2, <2>3
    <3> QED BY <3>1, <3>2, <2>4, <1>1
  <2>5. ASSUME pc' \in {"summary", "passed"}
        PROVE  ~atStart.solved /\ ~atStart.zindex
    <3>1. CASE from = "summary"
      BY <3>1, <1>1, <2>1 DEF MintRead
    <3>2. CASE ~chain.solved /\ ~chain.zindex
      BY <3>2, <1>1 DEF SinceStart
    <3> QED BY <3>1, <3>2, <2>5, <1>1
  <2> QED BY <2>2, <2>4, <2>5
<1>4. Reading'
  BY <1>2, <1>3 DEF Reading
<1> QED BY <1>1, <1>4, ReadKeeps

LEMMA VerifyMintKeeps ==
  ASSUME ReadersInv, VerifyMint
  PROVE  ReadersInv'
<1>0. DOMAIN got = Fields /\ failed \in BOOLEAN /\ PlaceOfTool
  BY DEF ReadersInv, ReadersTypeOK
<1>1. CASE Start("mint", "wiring")
  BY <1>1, StartKeeps
<1>2. CASE CheckWiring
  <2>1. Go("wiring", "receipt") /\ got' = got /\ \E ok \in BOOLEAN : failed' = (failed \/ ~ok)
    BY <1>2 DEF CheckWiring, Check
  <2>2. tool = "mint"
    BY <1>0, <2>1 DEF Go, PlaceOfTool, MintPlaces
  <2> QED BY <1>0, <2>1, <2>2, MintReading DEF MintPlaces
<1>3. CASE ReadReceipt
  <2>1. \E to \in {"t10", "exit 1", "payload"} :
          Go("receipt", to) /\ got' = got /\ (failed' = failed \/ failed' = TRUE)
    BY <1>3 DEF ReadReceipt, Check
  <2>2. PICK to \in {"t10", "exit 1", "payload"} :
          Go("receipt", to) /\ got' = got /\ (failed' = failed \/ failed' = TRUE)
    BY <2>1
  <2>3. tool = "mint"
    BY <1>0, <2>2 DEF Go, PlaceOfTool, MintPlaces
  <2>4. failed' \in BOOLEAN /\ (failed => failed')
    <3>1. CASE failed' = failed
      BY <1>0, <3>1
    <3>2. CASE failed' = TRUE
      BY <3>2
    <3> QED BY <2>2, <3>1, <3>2
  <2>5. /\ to \in MintPlaces \cup {"passed", "crashed", "exit 1"}
        /\ to \notin {"token owner", "record", "summary", "passed"}
    BY <2>2 DEF MintPlaces
  <2>6. DOMAIN got' = Fields /\ got'.slots = got.slots
    BY <1>0, <2>2
  <2> QED BY <2>2, <2>3, <2>4, <2>5, <2>6, MintReading DEF MintPlaces
<1>4. CASE CheckMintedEvent
  <2>1. Go("payload", "crashed") /\ got' = got /\ failed' = failed
    BY <1>4 DEF CheckMintedEvent
  <2>2. tool = "mint"
    BY <1>0, <2>1 DEF Go, PlaceOfTool, MintPlaces
  <2> QED BY <1>0, <2>1, <2>2, MintReading DEF MintPlaces
<1>5. CASE CheckT10
  <2>1. /\ Go("t10", "t10 lo") \/ Go("t10 lo", "slots")
        /\ got' = got /\ failed' = (failed \/ ~(chain.t10 = 0))
    BY <1>5 DEF CheckT10, Check
  <2>2. tool = "mint"
    BY <1>0, <2>1 DEF Go, PlaceOfTool, MintPlaces
  <2>3. CASE Go("t10", "t10 lo")
    BY <1>0, <2>1, <2>2, <2>3, MintReading DEF MintPlaces
  <2>4. CASE Go("t10 lo", "slots")
    BY <1>0, <2>1, <2>2, <2>4, MintReading DEF MintPlaces
  <2> QED BY <2>1, <2>3, <2>4
<1>6. CASE CheckSlot
  <2> DEFINE s == InOrder(MintSlots \ got.slots)[1]
             to == IF EntryIsAsMinted(s) THEN "carrier owner" ELSE "slots"
  <2>1. /\ Go("slots", to) /\ got' = [got EXCEPT !.slots = @ \cup {s}]
        /\ failed' = (failed \/ ~EntryIsAsMinted(s))
    BY <1>6 DEF CheckSlot, Check
  <2>2. to \in {"carrier owner", "slots"}
    OBVIOUS
  <2> HIDE DEF s, to
  <2>3. tool = "mint"
    BY <1>0, <2>1 DEF Go, PlaceOfTool, MintPlaces
  <2>4. DOMAIN got' = Fields /\ got'.slots = got.slots \cup {s}
    BY <1>0, <2>1 DEF Fields
  <2>5. ASSUME ~failed', NEW m \in MintSlots \cap got'.slots
        PROVE  m \in got.slots \/ chain.lsh[m] = m
    <3>1. CASE m = s
      <4>1. MintedLsh[m] = m
        BY ConstantFacts DEF MintedLsh
      <4> QED BY <3>1, <4>1, <2>1, <2>5 DEF EntryIsAsMinted
    <3> QED BY <3>1, <2>4
  <2>6. failed' \in BOOLEAN /\ (failed => failed')
    BY <1>0, <2>1
  <2>7. /\ to \in MintPlaces /\ to \notin {"token owner", "record", "summary", "passed"}
        /\ "slots" \in MintPlaces
    BY <2>2 DEF MintPlaces
  <2> QED BY <2>1, <2>3, <2>4, <2>5, <2>6, <2>7, MintReading
<1>10. CASE CheckCarrier
  <2>1. PICK from \in {"carrier owner", "host shadow", "host slot"},
             to \in {"host shadow", "host slot", "slots"}, ok \in BOOLEAN :
          Go(from, to) /\ got' = got /\ failed' = (failed \/ ~ok)
    <3>1. ASSUME NEW from, NEW next, NEW ok, ReadCarrier(from, next, ok)
          PROVE  \/ Go(from, next) /\ got' = got /\ failed' = (failed \/ ~TRUE)
                 \/ Go(from, "slots") /\ got' = got /\ failed' = (failed \/ ~FALSE)
      BY <3>1 DEF ReadCarrier, Check
    <3> QED BY <1>10, <3>1 DEF CheckCarrier
  <2>2. tool = "mint"
    BY <1>0, <2>1 DEF Go, PlaceOfTool, MintPlaces
  <2>3. /\ from \in MintPlaces /\ to \in MintPlaces
        /\ to \notin {"token owner", "record", "summary", "passed"}
    BY <2>1 DEF MintPlaces
  <2>4. DOMAIN got' = Fields /\ failed' \in BOOLEAN /\ (failed => failed')
        /\ got'.slots = got.slots
    BY <1>0, <2>1
  <2> QED BY <2>1, <2>2, <2>3, <2>4, MintReading
<1>7. CASE CheckEmptySlot
  <2> DEFINE s == InOrder(Slots \ got.slots)[1]
  <2>1. /\ Go("slots", "slots") /\ got' = [got EXCEPT !.slots = @ \cup {s}]
        /\ MintSlots \subseteq got.slots
        /\ failed' = (failed \/ ~(chain.held[s] = Empty /\ chain.lsh[s] = Empty))
    BY <1>7 DEF CheckEmptySlot, Check
  <2> HIDE DEF s
  <2>2. tool = "mint"
    BY <1>0, <2>1 DEF Go, PlaceOfTool, MintPlaces
  <2>3. DOMAIN got' = Fields /\ failed' \in BOOLEAN /\ (failed => failed')
    BY <1>0, <2>1 DEF Fields
  <2>4. \A m \in MintSlots : m \in got.slots
    BY <2>1
  <2> QED BY <2>1, <2>2, <2>3, <2>4, MintReading DEF MintPlaces
<1>8. CASE CheckAggregate
  <2>1. tool = "mint" /\ got' = got /\ DOMAIN got' = Fields
    BY <1>0, <1>8 DEF CheckAggregate, Go, PlaceOfTool, MintPlaces
  <2>2. CASE got.slots = Slots /\ Go("slots", "token owner") /\ Check(chain.mints = 1)
    <3>1. failed' = (failed \/ ~(chain.mints = 1)) /\ MintSlots \subseteq got'.slots
      BY <2>1, <2>2, ConstantFacts DEF Check
    <3> QED BY <1>0, <2>1, <2>2, <3>1, MintReading DEF MintPlaces
  <2>3. CASE Go("token owner", "record") /\ Check(chain.owner = Minter)
    <3>1. failed' = (failed \/ ~(chain.owner = Minter))
      BY <2>3 DEF Check
    <3> QED BY <1>0, <2>1, <2>3, <3>1, MintReading DEF MintPlaces
  <2>4. CASE /\ Go("record", "summary")
             /\ Check(chain.pk = Minter /\ ~chain.solved /\ ~chain.zindex)
    <3>1. failed' = (failed \/ ~(chain.pk = Minter /\ ~chain.solved /\ ~chain.zindex))
      BY <2>4 DEF Check
    <3> QED BY <1>0, <2>1, <2>4, <3>1, MintReading DEF MintPlaces
  <2> QED BY <1>8, <2>2, <2>3, <2>4 DEF CheckAggregate
<1>9. CASE Summary
  <2>1. Go("summary", IF failed THEN "exit 1" ELSE "passed") /\ got' = got /\ failed' = failed
    BY <1>9 DEF Summary
  <2>2. tool = "mint"
    BY <1>0, <2>1 DEF Go, PlaceOfTool, MintPlaces
  <2>3. CASE failed
    BY <1>0, <2>1, <2>2, <2>3, MintReading DEF MintPlaces
  <2>4. CASE ~failed
    BY <1>0, <2>1, <2>2, <2>4, MintReading DEF MintPlaces
  <2> QED BY <2>3, <2>4
<1> QED BY <1>1, <1>2, <1>3, <1>4, <1>5, <1>6, <1>7, <1>8, <1>9, <1>10 DEF VerifyMint

LEMMA VerifyTransferKeeps ==
  ASSUME ReadersInv, VerifyTransfer
  PROVE  ReadersInv'
<1>1. CASE sent # <<>> /\ Start("transfer", "owner")
  BY <1>1, StartKeeps
<1>2. ASSUME NEW from \in {"owner", "ecdhPub", "lsh"}, NEW to \in {"ecdhPub", "lsh", "passed", "exit 1"},
             Go(from, to), failed' = failed, DOMAIN got' = Fields,
             to \in {"ecdhPub", "lsh", "passed"} =>
               /\ \A s \in Slots \cap got'.slots : s \in got.slots \/ chain.lsh[s] = sent[s]
               /\ to = "passed" => Slots \subseteq got'.slots
      PROVE  ReadersInv'
  <2>1. /\ UNCHANGED <<chainVars, tool, atStart>> /\ pc = from /\ pc' = to
        /\ UNCHANGED <<chain, log, drawing, sent, solution>>
        /\ failed \in BOOLEAN /\ PlaceOfTool /\ TransferRead /\ SinceStart
    BY <1>2, GoFacts
  <2>2. tool = "transfer"
    BY <2>1, <1>2 DEF PlaceOfTool
  <2>3. PlaceOfTool' /\ MintRead' /\ RenderRead' /\ SolvedRenderIsExact'
        /\ (pc = "c2" => got = Nothing)' /\ (tool = "mint" /\ pc = "passed" => ~failed)'
    BY <2>1, <2>2, <1>2 DEF PlaceOfTool, MintPlaces, MintRead, RenderRead, SolvedRenderIsExact
  <2>4. TransferRead'
    <3> SUFFICES ASSUME to \in {"ecdhPub", "lsh", "passed"}
                 PROVE  \A s \in Slots \cap got'.slots : sent[s] # Empty => atStart.lsh[s] = sent[s]
      BY <2>1, <2>2, <1>2 DEF TransferRead
    <3> QED BY <2>1, <2>2, <1>2 DEF TransferRead, SinceStart
  <2>5. Reading'
    BY <2>1, <2>3, <2>4, <1>2 DEF Reading
  <2> QED BY <2>1, <2>5, ReadKeeps
<1>3. DOMAIN got = Fields
  BY DEF ReadersInv, ReadersTypeOK
<1>4. CASE CheckOwner
  <2>1. /\ \E to \in {"ecdhPub", "exit 1"} : Go("owner", to)
        /\ got' = got /\ failed' = failed
    BY <1>4 DEF CheckOwner, Require
  <2> QED BY <2>1, <1>2, <1>3
<1>5. CASE CheckEcdhPub
  <2>1. /\ \E to \in {"lsh", "exit 1"} : Go("ecdhPub", to)
        /\ got' = got /\ failed' = failed
    BY <1>5 DEF CheckEcdhPub, Require
  <2> QED BY <2>1, <1>2, <1>3
<1>6. CASE CheckLsh
  <2> DEFINE s == InOrder(SlotsToCheck \ got.slots)[1]
  <2>1. /\ \/ Go("lsh", "lsh") /\ chain.lsh[s] = sent[s]
           \/ Go("lsh", "exit 1")
        /\ got' = [got EXCEPT !.slots = @ \cup {s}] /\ failed' = failed
    BY <1>6 DEF CheckLsh, Require
  <2> HIDE DEF s
  <2>2. DOMAIN got' = Fields /\ got'.slots = got.slots \cup {s}
    BY <2>1, <1>3 DEF Fields
  <2>3. CASE Go("lsh", "lsh") /\ chain.lsh[s] = sent[s]
    BY <2>1, <2>2, <2>3, <1>2
  <2>4. CASE Go("lsh", "exit 1")
    BY <2>1, <2>2, <2>4, <1>2
  <2> QED BY <2>1, <2>3, <2>4
<1>7. CASE CheckDecrypt
  <2>1. Go("lsh", "passed") /\ got' = got /\ failed' = failed /\ Slots \subseteq got.slots
    BY <1>7 DEF CheckDecrypt, Require, SlotsToCheck
  <2> QED BY <2>1, <1>2, <1>3
<1> QED BY <1>1, <1>4, <1>5, <1>6, <1>7 DEF VerifyTransfer

LEMMA GiveUpKeeps ==
  ASSUME ReadersInv, GiveUp
  PROVE  ReadersInv'
<1>1. pc' = "gave up" /\ UNCHANGED <<chainVars, tool, atStart, got, failed>>
  BY DEF GiveUp
<1>2. /\ DOMAIN got = Fields /\ failed \in BOOLEAN /\ MintRead /\ UNCHANGED <<sent, solution>>
  BY <1>1 DEF ReadersInv, ReadersTypeOK, chainVars
<1>3. Reading'
  BY <1>1, <1>2
  DEF Reading, PlaceOfTool, MintPlaces, MintRead, TransferRead, RenderRead, SolvedRenderIsExact
<1> QED BY <1>1, <1>3, ReadKeeps
--------------------------------------------------------------------------------
LEMMA InitHolds ==
  ASSUME Init
  PROVE  ReadersInv
<1> DEFINE order == InOrder(MintSlots)
           n == Cardinality(MintSlots)
<1>1. /\ chain = [held |-> MintedLsh, lsh |-> MintedLsh, t10 |-> 0, owner |-> Minter,
                  pk |-> Minter, solved |-> FALSE, zindex |-> FALSE, mints |-> 1]
      /\ log = [i \in DOMAIN order |-> SlotMutated(order[i], order[i], order[i])]
      /\ drawing = [c \in Carriers |-> c] /\ sent = <<>> /\ solution = <<>>
      /\ tool = "none" /\ pc = "idle" /\ atStart = chain /\ got = Nothing /\ failed = FALSE
  BY DEF Init, ChainInit
<1>2. /\ n \in Nat /\ DOMAIN order = 1..n
      /\ \A s \in MintSlots : Place(MintSlots, s) \in 1..n /\ order[Place(MintSlots, s)] = s
      /\ \A i \in 1..n : order[i] \in MintSlots /\ Place(MintSlots, order[i]) = i
  BY OrderLemma, ConstantFacts
<1> HIDE DEF order, n
<1>3. \A i \in 1..n : /\ log[i] \in Event /\ log[i][1] = "mutated"
                      /\ log[i][2] = order[i] /\ log[i][3] = order[i]
  <2> TAKE i \in 1..n
  <2>1. order[i] \in Slots /\ order[i] \in Carriers /\ order[i] \in Nat
    BY <1>2, ConstantFacts
  <2>2. log[i] = SlotMutated(order[i], order[i], order[i])
    BY <1>1, <1>2
  <2> QED BY <2>1, <2>2, EventLemma
<1>4. log \in Seq(Event) /\ Len(log) = n /\ DOMAIN log = 1..n
  <2>1. log \in [1..n -> Event]
    BY <1>1, <1>2, <1>3
  <2> QED BY <2>1, <1>2
<1>5. /\ MintedLsh \in [Slots -> Nat] /\ MintedLsh \in [Slots -> Carriers \cup {Empty}]
      /\ \A s \in MintSlots : MintedLsh[s] = s
      /\ \A s \in Slots : MintedLsh[s] # Empty => s \in MintSlots
  BY ConstantFacts DEF MintedLsh
<1>6. ReadersTypeOK
  <2>1. chain \in ChainType
    BY <1>1, <1>5 DEF ChainType
  <2>2. drawing \in [Carriers -> Nat]
    BY <1>1, ConstantFacts
  <2>3. solution \in [{} -> Nat \X Carriers]
    BY <1>1
  <2>4. DOMAIN got = Fields
    BY <1>1 DEF Nothing, Fields
  <2> QED BY <1>1, <1>4, <2>1, <2>2, <2>3, <2>4 DEF ReadersTypeOK
<1>7. StampsAreNew
  BY <1>1, <1>2, <1>4 DEF StampsAreNew, n
<1>8. AsMinted(chain) /\ AsMinted(atStart) /\ SinceStart
  BY <1>1, <1>5 DEF AsMinted, SinceStart
<1>9. LogNamesCarriers
  <2>1. ASSUME NEW s \in Slots, chain.held[s] # Empty
        PROVE  \E i \in DOMAIN log : LastIs(log, "mutated", s, i) /\ log[i][3] = chain.held[s]
    <3>1. s \in MintSlots /\ chain.held[s] = s
      BY <2>1, <1>1, <1>5
    <3>2. \A j \in 1..n : log[j][2] = s => j <= Place(MintSlots, s)
      BY <1>2, <1>3
    <3>3. /\ LastIs(log, "mutated", s, Place(MintSlots, s))
          /\ log[Place(MintSlots, s)][3] = s
      BY <3>1, <3>2, <1>2, <1>3, <1>4 DEF LastIs
    <3> QED BY <3>1, <3>3, <1>2, <1>4
  <2> QED BY <2>1 DEF LogNamesCarriers
<1>10. RevealedBySolve /\ LogHasSolution
  <2>1. \A i \in DOMAIN log : log[i][1] # "revealed"
    BY <1>3, <1>4
  <2> QED BY <2>1, <1>1 DEF RevealedBySolve, LogHasSolution
<1>11. /\ PlaceOfTool /\ MintRead /\ (tool = "mint" /\ pc = "passed" => ~failed)
       /\ TransferRead /\ RenderRead /\ (pc = "c2" => got = Nothing) /\ SolvedRenderIsExact
  BY <1>1 DEF PlaceOfTool, MintPlaces, MintRead, TransferRead, RenderRead, SolvedRenderIsExact
<1> QED BY <1>6, <1>7, <1>8, <1>9, <1>10, <1>11 DEF ReadersInv

LEMMA StutterKeeps ==
  ASSUME ReadersInv, UNCHANGED vars
  PROVE  ReadersInv'
<1>1. UNCHANGED <<chain, log, changes, drawing, sent, solution, tool, pc, atStart, got, failed>>
  BY DEF vars, chainVars
<1>2. UNCHANGED <<chainVars, tool, atStart>>
  BY <1>1 DEF chainVars
<1>3. Reading'
  BY <1>1 DEF ReadersInv, ReadersTypeOK, Reading, PlaceOfTool, MintPlaces, MintRead, TransferRead,
              RenderRead, SolvedRenderIsExact, Nothing
<1> QED BY <1>2, <1>3, ReadKeeps

(* What is known of every reachable state: what the log says of the slots, *)
(* that no stamp returns, and what each tool has established so far.       *)
THEOREM ReadersInductive == Spec => []ReadersInv
<1>1. Init => ReadersInv
  BY InitHolds
<1>2. ReadersInv /\ [Next]_vars => ReadersInv'
  BY ChangesKeep, RenderKeeps, VerifyMintKeeps, VerifyTransferKeeps, GiveUpKeeps,
     StutterKeeps DEF Next
<1> QED BY <1>1, <1>2, PTL DEF Spec

(* verify_onchain_mint.py, which reads slot by slot while the owner goes   *)
(* on, passes only if the whole mint was untouched when it began.          *)
THEOREM PassedMints == Spec => []PassedMintWasIntact
<1>1. ReadersInv => PassedMintWasIntact
  <2> SUFFICES ASSUME ReadersInv, tool = "mint", pc = "passed"
               PROVE  FilledAsMinted(atStart)
    BY DEF PassedMintWasIntact
  <2>1. /\ \A s \in MintSlots : atStart.lsh[s] = s
        /\ atStart.mints = 1 /\ ~atStart.solved /\ ~atStart.zindex
    BY DEF ReadersInv, MintRead
  <2>2. \A s \in MintSlots : /\ atStart.held[s] = s
                             /\ atStart.owner = Minter /\ atStart.pk = Minter
    BY <2>1 DEF ReadersInv, AsMinted
  <2>3. MintSlots # {}
    BY MintAssumption
  <2> QED BY <2>1, <2>2, <2>3 DEF FilledAsMinted
<1> QED BY <1>1, ReadersInductive, PTL

(* verify_onchain_transfer.py passes only if every slot that the transfer  *)
(* sealed was as the transfer left it when the verification began.         *)
THEOREM PassedTransfers == Spec => []PassedTransferWasIntact
<1>1. ReadersInv => PassedTransferWasIntact
  BY DEF ReadersInv, TransferRead, PassedTransferWasIntact
<1> QED BY <1>1, ReadersInductive, PTL

(* A render that began after the solve shows what the solve revealed.      *)
THEOREM SolvedRenders == Spec => []SolvedRenderIsExact
<1>1. ReadersInv => SolvedRenderIsExact
  BY DEF ReadersInv
<1> QED BY <1>1, ReadersInductive, PTL
=============================================================================
