---------------------------- MODULE Fixtures_proofs ----------------------------
(***************************************************************************)
(* What the fixture builders leave in the tree belongs together, for any   *)
(* number of slots, runs and edits, of any builders with any options: the  *)
(* proofs of a fixture, the verifier written after them, and the files     *)
(* that a fixture made from another one was made from.  The hinge is       *)
(* target/vk: while a run lasts, the proofs it holds of a circuit are of   *)
(* the version that the key on disk was written for.  The second part is   *)
(* about what the proofs say: a run holds those of the steps it is past,   *)
(* and the contracts, called in the order of the test, accept them all.    *)
(***************************************************************************)
EXTENDS Fixtures, SequenceTheorems, FiniteSetTheorems, WellFoundedInduction, TLAPS

(* The two builders that prove on a machine of their own.                  *)
Remote == {"face_disc", "landmark_mint"}

(* A script that proves here: a proof first, and no circuit proved twice   *)
(* where target/vk is written anew for every proof.                        *)
Local(p) ==
  /\ p.keys \in {"always", "missing"}
  /\ p.script[1][1] = "prove"
  /\ \A k \in 1..Len(p.script) : p.script[k][1] # "remote"
  /\ p.keys = "always" =>
       \A k, m \in 1..Len(p.script) :
         p.script[k][1] = "prove" /\ p.script[m][1] = "prove" /\ k # m =>
           p.script[k][2].circuit # p.script[m][2].circuit

Scripted(b, p) ==
  /\ Len(p.script) \in Nat \ {0}
  /\ \A k \in 1..Len(p.script) :
       p.script[k][1] \in {"prove", "remote"} => p.script[k][2].circuit \in Circuits
  /\ b \in Remote => \A k \in 1..Len(p.script) : p.script[k][1] \notin {"prove", "verifier"}
  /\ b \notin Remote => Local(p)

IsList(l) == Len(l) \in Nat /\ l = [i \in 1..Len(l) |-> l[i]]

RunShape ==
  /\ run = [builder |-> run.builder, o |-> run.o, at |-> run.at, list |-> run.list,
            from |-> run.from]
  /\ run.builder \in Launched
  /\ run.at \in 1..Len(ThePlan.script)
  /\ IsList(run.list)
  /\ run.builder \in {"extract_slot", "transfer_feature"} => run.from[1] = run.from[2]

(* A proof of the run: of the version the key on disk is of, and made at an*)
(* earlier step of the script.                                             *)
Fits(w) ==
  /\ w.circuit \in Circuits
  /\ w.version \in Nat
  /\ w.version = vk[w.circuit]
  /\ \E k \in 1..Len(ThePlan.script) : /\ k < run.at
                                       /\ ThePlan.script[k][1] = "prove"
                                       /\ ThePlan.script[k][2].circuit = w.circuit
RunFits ==
  /\ \A i \in DOMAIN run.list : Fits(run.list[i])
  /\ run.at > 1 => run.list # <<>>

RunInv == run # None => RunShape /\ (run.builder \notin Remote => RunFits)

OneVersion(list) ==
  \A i, j \in DOMAIN list :
    list[i].circuit = list[j].circuit => list[i].version = list[j].version

TreeInv ==
  /\ source \in [Circuits -> Nat]
  /\ vk \in [Circuits -> Nat \cup {None}]
  /\ verifier = [v \in Verifiers |-> verifier[v]]
  /\ \A v \in Verifiers :
       verifier[v] # <<>> => verifier[v][1] \in Circuits /\ VerifierOf(verifier[v][1]) = v

FixtureInv ==
  /\ fixture = [b \in Launched |->
                  [made |-> fixture[b].made, meta |-> fixture[b].meta,
                   from |-> fixture[b].from, list |-> fixture[b].list]]
  /\ \A b \in Launched \ Remote : OneVersion(fixture[b].list)
  /\ \A b \in Launched \cap {"extract_slot", "transfer_feature"} :
       fixture[b].from[1] = fixture[b].from[2]

FixturesInv == RunInv /\ TreeInv /\ FixtureInv
--------------------------------------------------------------------------------
LEMMA AppendLemma ==
  ASSUME NEW l, IsList(l), NEW e
  PROVE  /\ IsList(Append(l, e)) /\ Append(l, e) # <<>>
         /\ DOMAIN Append(l, e) = 1..(Len(l) + 1) /\ DOMAIN l = 1..Len(l)
         /\ Append(l, e)[Len(l) + 1] = e
         /\ \A i \in 1..Len(l) : Append(l, e)[i] = l[i]
<1> DEFINE S == {l[i] : i \in 1..Len(l)} \cup {e}
<1>1. l \in Seq(S)
  BY DEF IsList
<1> HIDE DEF S
<1>2. e \in S
  BY DEF S
<1> DEFINE m == Append(l, e)
<1>3. /\ m \in Seq(S) /\ Len(m) = Len(l) + 1 /\ m[Len(l) + 1] = e
      /\ \A i \in 1..Len(l) : m[i] = l[i]
  BY <1>1, <1>2
<1>4. DOMAIN m = 1..(Len(l) + 1) /\ DOMAIN l = 1..Len(l) /\ Len(l) \in Nat
  BY <1>1, <1>3
<1> HIDE DEF m
<1>5. m = [i \in 1..Len(m) |-> m[i]] /\ Len(m) \in Nat
  <2>1. m \in [1..Len(m) -> S] /\ Len(m) \in Nat
    BY <1>3
  <2> QED BY <2>1
<1>6. m # <<>>
  BY <1>4
<1> QED BY <1>3, <1>4, <1>5, <1>6 DEF IsList, m

(* The circuit a witness is for.                                           *)
LEMMA WitnessCircuits ==
  /\ \A a, b : MutateWitness(a, b).circuit = "mutate_slot"
  /\ \A a, b : T10Witness(a, b).circuit = "shadow_t10"
  /\ \A a : ZIndexWitness(a).circuit = "zindex_commit"
  /\ \A a : TransferWitness(a).circuit = "transfer_shadow_v2"
  /\ \A a, b : SolveWitness(a, b).circuit = "solve_shadow_v2"
  /\ \A a : FeatureWitness(a).circuit = "transfer_feature_v2"
  /\ \A a, b : V1Witness(a, b).circuit = a
BY DEF MutateWitness, T10Witness, ZIndexWitness, TransferWitness, SolveWitness, FeatureWitness,
       V1Witness

LEMMA ScriptsOfOneProof ==
  ASSUME NEW p, NEW w, w.circuit \in Circuits, p.keys \in {"always", "missing"},
         NEW b \in Builders \ Remote,
         \/ p.script = <<Prove(w), Proofs, Meta>>
         \/ \E policy \in {"always", "missing", "flag"} :
              \/ p.script = <<Prove(w), Verifier(policy), Meta, Proofs>>
              \/ p.script = <<Prove(w), Verifier(policy), Proofs, Meta>>
              \/ p.script = <<Prove(w), Proofs, Meta, Verifier(policy)>>
  PROVE  Scripted(b, p)
<1>1. CASE p.script = <<Prove(w), Proofs, Meta>>
  <2>1. /\ Len(p.script) = 3 /\ p.script[1] = <<"prove", w>>
        /\ \A k \in 2..3 : p.script[k][1] \in {"proofs", "meta"}
    BY <1>1 DEF Prove, Proofs, Meta
  <2> QED BY <2>1 DEF Scripted, Local
<1>2. ASSUME NEW policy,
             \/ p.script = <<Prove(w), Verifier(policy), Meta, Proofs>>
             \/ p.script = <<Prove(w), Verifier(policy), Proofs, Meta>>
             \/ p.script = <<Prove(w), Proofs, Meta, Verifier(policy)>>
      PROVE  Scripted(b, p)
  <2>1. /\ Len(p.script) = 4 /\ p.script[1] = <<"prove", w>>
        /\ \A k \in 2..4 : p.script[k][1] \in {"proofs", "meta", "verifier"}
    BY <1>2 DEF Prove, Proofs, Meta, Verifier
  <2> QED BY <2>1 DEF Scripted, Local
<1> QED BY <1>1, <1>2

LEMMA ScriptsOfTwoProofs ==
  ASSUME NEW p, NEW w, NEW x, w.circuit \in Circuits, x.circuit \in Circuits,
         w.circuit # x.circuit, p.keys \in {"always", "missing"},
         NEW b \in Builders \ Remote,
         \/ p.script = <<Prove(w), Prove(x), Proofs, Meta>>
         \/ \E policy \in {"flag"} :
              p.script = <<Prove(w), Verifier(policy), Prove(x), Proofs, Meta>>
  PROVE  Scripted(b, p)
<1>1. CASE p.script = <<Prove(w), Prove(x), Proofs, Meta>>
  <2>1. /\ Len(p.script) = 4 /\ p.script[1] = <<"prove", w>> /\ p.script[2] = <<"prove", x>>
        /\ \A k \in 3..4 : p.script[k][1] \in {"proofs", "meta"}
    BY <1>1 DEF Prove, Proofs, Meta
  <2> QED BY <2>1 DEF Scripted, Local
<1>2. CASE p.script = <<Prove(w), Verifier("flag"), Prove(x), Proofs, Meta>>
  <2>1. /\ Len(p.script) = 5 /\ p.script[1] = <<"prove", w>> /\ p.script[3] = <<"prove", x>>
        /\ \A k \in {2, 4, 5} : p.script[k][1] \in {"proofs", "meta", "verifier"}
    BY <1>2 DEF Prove, Proofs, Meta, Verifier
  <2> QED BY <2>1 DEF Scripted, Local
<1> QED BY <1>1, <1>2

LEMMA BatchScripted ==
  ASSUME NEW o
  PROVE  Scripted("batch", Batch(o)) /\ Scripted("chained", ChainedMutate(o))
<1>1. Scripted("batch", Batch(o))
  <2> DEFINE s == Batch(o).script
  <2>1. /\ Len(s) = 5 /\ Batch(o).keys = "missing"
        /\ s[1][1] = "prove" /\ s[1][2].circuit = "mutate_slot"
        /\ s[2][1] = "prove" /\ s[2][2].circuit = "mutate_slot"
        /\ s[3][1] = "prove" /\ s[3][2].circuit = "shadow_t10"
        /\ s[4][1] = "proofs" /\ s[5][1] = "meta"
    BY WitnessCircuits DEF Batch, Prove, Proofs, Meta
  <2> HIDE DEF s
  <2> QED BY <2>1 DEF Scripted, Local, Remote, Circuits, s
<1>2. Scripted("chained", ChainedMutate(o))
  <2> DEFINE s == ChainedMutate(o).script
  <2>1. /\ Len(s) = 6 /\ ChainedMutate(o).keys = "missing"
        /\ s[1][1] = "prove" /\ s[1][2].circuit = "mutate_slot"
        /\ s[2][1] = "prove" /\ s[2][2].circuit = "mutate_slot"
        /\ s[3][1] = "prove" /\ s[3][2].circuit = "shadow_t10"
        /\ s[4][1] = "prove" /\ s[4][2].circuit = "shadow_t10"
        /\ s[5][1] = "proofs" /\ s[6][1] = "meta"
    BY WitnessCircuits DEF ChainedMutate, Prove, Proofs, Meta
  <2> HIDE DEF s
  <2> QED BY <2>1 DEF Scripted, Local, Remote, Circuits, s
<1> QED BY <1>1, <1>2

(* As many proofs as there are slots, and one more.                        *)
LEMMA BatchMaxSteps ==
  ASSUME NEW o
  PROVE  LET s == BatchMax(o).script
         IN /\ Len(s) = NSlots + 3
            /\ \A k \in 1..NSlots : s[k] = <<"prove", MutateWitness(k, Minted)>>
            /\ s[NSlots + 1] = <<"prove", T10Witness(Only(Slots, Minted + 1), 0)>>
            /\ s[NSlots + 2] = <<"proofs", None>> /\ s[NSlots + 3] = <<"meta", None>>
<1> DEFINE p == BatchMax(o)
           first == [i \in Slots |-> Prove(MutateWitness(i, Minted))]
           t10 == T10Witness(Only(Slots, Minted + 1), 0)
           last == <<Prove(t10), Proofs, Meta>>
           S == {first[i] : i \in Slots} \cup {Prove(t10), Proofs, Meta}
<1>1. p.script = first \o last /\ p.keys = "missing"
  BY DEF BatchMax
<1>2. NSlots \in Nat /\ NSlots >= 2 /\ Slots = 1..NSlots
  BY BoundsAssumption DEF Slots
<1>3. first \in Seq(S) /\ Len(first) = NSlots
  BY <1>2
<1>4. last \in Seq(S) /\ Len(last) = 3
  OBVIOUS
<1>5. \A i \in 1..NSlots : first[i] = <<"prove", MutateWitness(i, Minted)>>
  BY <1>2 DEF Prove
<1>6. last[1] = <<"prove", t10>> /\ last[2] = <<"proofs", None>> /\ last[3] = <<"meta", None>>
  BY DEF Prove, Proofs, Meta
<1> HIDE DEF p, first, last, S, t10
<1>7. /\ Len(p.script) = NSlots + 3
      /\ \A k \in 1..NSlots : p.script[k] = <<"prove", MutateWitness(k, Minted)>>
      /\ p.script[NSlots + 1] = <<"prove", t10>>
      /\ p.script[NSlots + 2] = <<"proofs", None>> /\ p.script[NSlots + 3] = <<"meta", None>>
  <2>1. /\ Len(first \o last) = NSlots + 3
        /\ \A k \in 1..NSlots : (first \o last)[k] = first[k]
        /\ \A k \in 1..3 : (first \o last)[NSlots + k] = last[k]
    <3>1. /\ Len(first \o last) = NSlots + 3
          /\ \A k \in 1..NSlots + 3 : (first \o last)[k] =
                 IF k <= NSlots THEN first[k] ELSE last[k - NSlots]
      <4>1. /\ Len(first \o last) = Len(first) + Len(last)
            /\ \A k \in 1..Len(first) + Len(last) : (first \o last)[k] =
                   IF k <= Len(first) THEN first[k] ELSE last[k - Len(first)]
        BY <1>3, <1>4, ConcatProperties, Zenon
      <4> QED BY <1>2, <1>3, <1>4, <4>1
    <3> DEFINE both == first \o last
    <3> HIDE DEF both
    <3>2. \A k \in 1..3 : both[NSlots + k] = last[k]
      <4>1. ASSUME NEW k \in 1..3
            PROVE  /\ NSlots + k \in 1..NSlots + 3 /\ ~(NSlots + k <= NSlots)
                   /\ (NSlots + k) - NSlots = k
        BY <1>2
      <4> QED BY <3>1, <4>1 DEF both
    <3> QED BY <1>2, <3>1, <3>2 DEF both
  <2>2. /\ p.script[NSlots + 1] = last[1] /\ p.script[NSlots + 2] = last[2]
        /\ p.script[NSlots + 3] = last[3]
    <3>1. 1 \in 1..3 /\ 2 \in 1..3 /\ 3 \in 1..3
      OBVIOUS
    <3> QED BY <1>1, <2>1, <3>1, Zenon
  <2>3. \A k \in 1..NSlots : p.script[k] = first[k]
    BY <1>1, <2>1
  <2>4. Len(p.script) = NSlots + 3
    BY <1>1, <2>1
  <2> QED BY <1>5, <1>6, <2>2, <2>3, <2>4
<1> QED BY <1>7 DEF p, t10

LEMMA BatchMaxScripted ==
  ASSUME NEW o
  PROVE  Scripted("batch_max", BatchMax(o))
<1> DEFINE p == BatchMax(o)
           t10 == T10Witness(Only(Slots, Minted + 1), 0)
<1>1. NSlots \in Nat /\ NSlots >= 2
  BY BoundsAssumption
<1>2. /\ Len(p.script) = NSlots + 3
      /\ \A k \in 1..NSlots : p.script[k] = <<"prove", MutateWitness(k, Minted)>>
      /\ p.script[NSlots + 1] = <<"prove", t10>>
      /\ p.script[NSlots + 2] = <<"proofs", None>> /\ p.script[NSlots + 3] = <<"meta", None>>
  BY BatchMaxSteps
<1>3. p.keys = "missing"
  BY DEF BatchMax
<1> HIDE DEF p, t10
<1>4. ASSUME NEW k \in 1..Len(p.script)
      PROVE  /\ p.script[k][1] \in {"prove", "proofs", "meta"}
             /\ p.script[k][1] = "prove" => p.script[k][2].circuit \in Circuits
  <2>1. k \in 1..NSlots \/ k = NSlots + 1 \/ k = NSlots + 2 \/ k = NSlots + 3
    BY <1>1, <1>2
  <2>2. {"mutate_slot", "shadow_t10"} \subseteq Circuits
    BY DEF Circuits
  <2>3. t10.circuit = "shadow_t10"
    BY WitnessCircuits DEF t10
  <2> QED BY <1>2, <2>1, <2>2, <2>3, WitnessCircuits
<1>5. p.script[1][1] = "prove"
  BY <1>1, <1>2
<1>6. Len(p.script) \in Nat \ {0} /\ p.keys = "missing"
  BY <1>3, <1>1, <1>2 DEF p
<1> QED BY <1>4, <1>5, <1>6 DEF Scripted, Local, Remote, p

LEMMA RemoteScripted ==
  ASSUME NEW o
  PROVE  Scripted("landmark_mint", LandmarkMint(o)) /\ Scripted("face_disc", FaceDisc(o))
<1>1. Scripted("landmark_mint", LandmarkMint(o))
  <2> DEFINE s == LandmarkMint(o).script
  <2>1. /\ Len(s) = 4 /\ s[1][1] = "remote" /\ s[1][2].circuit = "landmark_regions"
        /\ s[2][1] = "proofs" /\ s[3][1] = "die" /\ s[4][1] = "meta"
    BY WitnessCircuits DEF LandmarkMint, Proofs, Meta
  <2> HIDE DEF s
  <2> QED BY <2>1 DEF Scripted, Remote, Circuits, s
<1>2. Scripted("face_disc", FaceDisc(o))
  <2> DEFINE s == FaceDisc(o).script
  <2>1. /\ Len(s) = 3 /\ s[1][1] = "remote" /\ s[1][2].circuit = "face_disc"
        /\ s[2][1] = "proofs" /\ s[3][1] = "meta"
    BY WitnessCircuits DEF FaceDisc, Proofs, Meta
  <2> HIDE DEF s
  <2> QED BY <2>1 DEF Scripted, Remote, Circuits, s
<1> QED BY <1>1, <1>2

(* The scripts of all builders.                                            *)
LEMMA PlanLemma ==
  ASSUME NEW b \in Builders, NEW o
  PROVE  Scripted(b, Plan(b, o))
<1>1. /\ {"mutate_slot", "shadow_t10", "zindex_commit", "transfer_shadow_v2",
          "solve_shadow_v2", "transfer_feature_v2"} \subseteq Circuits
      /\ {"extract_slot", "transfer_shadow", "transfer_feature", "solve_shadow"}
           \subseteq Circuits
  BY DEF Circuits
<1>2. CASE b = "mutate_slot"
  BY <1>1, <1>2, WitnessCircuits, ScriptsOfOneProof DEF Plan, MutateSlot, Remote
<1>3. CASE b = "atomic_mutate"
  BY <1>1, <1>3, WitnessCircuits, ScriptsOfTwoProofs DEF Plan, AtomicMutate, Remote
<1>4. CASE b = "batch" \/ b = "chained"
  BY <1>4, BatchScripted DEF Plan
<1>5. CASE b = "batch_max"
  BY <1>5, BatchMaxScripted DEF Plan
<1>6. CASE b = "atomic_extract"
  BY <1>1, <1>6, WitnessCircuits, ScriptsOfOneProof DEF Plan, AtomicExtract, Remote
<1>7. CASE b = "atomic_zindex"
  BY <1>1, <1>7, WitnessCircuits, ScriptsOfTwoProofs DEF Plan, AtomicZIndex, Remote
<1>8. CASE b = "zindex_commit"
  BY <1>1, <1>8, WitnessCircuits, ScriptsOfOneProof DEF Plan, ZIndexCommit, Remote
<1>9. CASE b = "shadow_t10"
  BY <1>1, <1>9, WitnessCircuits, ScriptsOfOneProof DEF Plan, ShadowT10, Remote
<1>10. CASE b = "transfer_shadow_v2"
  BY <1>1, <1>10, WitnessCircuits, ScriptsOfOneProof DEF Plan, TransferShadowV2, Remote
<1>11. CASE b = "atomic_transfer"
  BY <1>1, <1>11, WitnessCircuits, ScriptsOfTwoProofs DEF Plan, AtomicTransfer, Remote
<1>12. CASE b = "solve_shadow_v2"
  BY <1>1, <1>12, WitnessCircuits, ScriptsOfOneProof DEF Plan, SolveShadowV2, Remote
<1>13. CASE b = "transfer_feature_v2"
  BY <1>1, <1>13, WitnessCircuits, ScriptsOfOneProof DEF Plan, TransferFeatureV2, Remote
<1>14. ASSUME NEW c \in {"extract_slot", "transfer_shadow", "transfer_feature", "solve_shadow"},
              b = c
       PROVE  Scripted(b, V1(c, o))
  BY <1>1, <1>14, WitnessCircuits, ScriptsOfOneProof DEF V1, Remote
<1>15. CASE b \in {"extract_slot", "transfer_shadow", "transfer_feature", "solve_shadow"}
  BY <1>14, <1>15 DEF Plan, ExtractSlot, TransferShadow, TransferFeature, SolveShadow
<1>16. CASE b \in Remote
  BY <1>16, RemoteScripted DEF Plan, Remote
<1> QED BY <1>2, <1>3, <1>4, <1>5, <1>6, <1>7, <1>8, <1>9, <1>10, <1>11, <1>12, <1>13, <1>15,
           <1>16 DEF Builders, Remote
--------------------------------------------------------------------------------
(* A script goes on in the same run, or ends it.                           *)
LEMMA AdvanceLemma ==
  ASSUME RunShape, NEW list, NEW tomls, Advance(list, tomls), run' # None, IsList(list)
  PROVE  /\ run'.builder = run.builder /\ run'.o = run.o /\ run'.from = run.from
         /\ run'.at = run.at + 1 /\ run'.list = list
         /\ ThePlan' = ThePlan
         /\ RunShape'
<1>1. run.at < Len(ThePlan.script) /\ run' = [run EXCEPT !.at = run.at + 1, !.list = list]
  BY DEF Advance, Exit
<1>2. run' = [builder |-> run.builder, o |-> run.o, at |-> run.at + 1, list |-> list,
              from |-> run.from]
  BY <1>1 DEF RunShape
<1>3. /\ run'.builder = run.builder /\ run'.o = run.o /\ run'.from = run.from
      /\ run'.at = run.at + 1 /\ run'.list = list
  BY <1>2
<1>4. ThePlan' = ThePlan
  BY <1>3 DEF ThePlan
<1>5. Len(ThePlan.script) \in Nat
  <2>1. run.builder \in Builders
    BY LaunchedAssumption DEF RunShape
  <2> QED BY <2>1, PlanLemma DEF ThePlan, Scripted
<1>6. run'.at \in 1..Len(ThePlan'.script)
  BY <1>1, <1>3, <1>4, <1>5 DEF RunShape
<1>7. IsList(run.list)'
  BY <1>3 DEF IsList
<1>8. run' = [builder |-> run'.builder, o |-> run'.o, at |-> run'.at, list |-> run'.list,
              from |-> run'.from]
  BY <1>2
<1> QED BY <1>3, <1>4, <1>6, <1>7, <1>8 DEF RunShape

(* The plan of a run, and the step it is at.                               *)
LEMMA RunningLemma ==
  ASSUME FixturesInv, Running
  PROVE  /\ RunShape /\ run.builder \in Builders /\ Scripted(run.builder, ThePlan)
         /\ Step = ThePlan.script[run.at] /\ run.at \in 1..Len(ThePlan.script)
         /\ run.builder \notin Remote => RunFits
         /\ Step[1] \in {"prove", "verifier"} => run.builder \notin Remote
         /\ Step[1] = "remote" => run.builder \in Remote
         /\ Step[1] \in {"prove", "remote"} => Step[2].circuit \in Circuits
<1>1. RunShape /\ (run.builder \notin Remote => RunFits)
  BY DEF FixturesInv, RunInv, Running
<1>2. run.builder \in Builders
  BY <1>1, LaunchedAssumption DEF RunShape
<1>3. Scripted(run.builder, ThePlan)
  BY <1>2, PlanLemma DEF ThePlan
<1>4. Step = ThePlan.script[run.at] /\ run.at \in 1..Len(ThePlan.script)
  BY <1>1 DEF Step, RunShape
<1> QED BY <1>1, <1>2, <1>3, <1>4 DEF Scripted, Local

(* Where v1 and v2 share the name of a verifier, Current is of v2.         *)
LEMMA CurrentLemma ==
  ASSUME NEW v \in Verifiers
  PROVE  /\ Current[v] \in Circuits /\ VerifierOf(Current[v]) = v
         /\ Current[v] \notin {"transfer_shadow", "solve_shadow"}
<1>1. PICK c \in Circuits : VerifierOf(c) = v
  BY DEF Verifiers
<1>2. \E d \in Circuits : /\ VerifierOf(d) = v
                          /\ d \notin {"transfer_shadow", "solve_shadow"}
  <2>1. CASE c = "transfer_shadow"
    <3>1. VerifierOf("transfer_shadow_v2") = v /\ "transfer_shadow_v2" \in Circuits
      BY <1>1, <2>1 DEF VerifierOf, Circuits
    <3> QED BY <3>1
  <2>2. CASE c = "solve_shadow"
    <3>1. VerifierOf("solve_shadow_v2") = v /\ "solve_shadow_v2" \in Circuits
      BY <1>1, <2>2 DEF VerifierOf, Circuits
    <3> QED BY <3>1
  <2> QED BY <1>1, <2>1, <2>2
<1> QED BY <1>2 DEF Current

LEMMA FixturesInit == Init => FixturesInv
<1> SUFFICES ASSUME Init PROVE FixturesInv
  OBVIOUS
<1>1. RunInv
  BY DEF Init, RunInv
<1>2. TreeInv
  <2>1. \A v \in Verifiers : Current[v] \in Circuits /\ VerifierOf(Current[v]) = v
    BY CurrentLemma
  <2>2. source \in [Circuits -> Nat] /\ vk \in [Circuits -> Nat \cup {None}]
    BY DEF Init
  <2>3. verifier = [v \in Verifiers |-> IF v \in NoVerifier THEN <<>> ELSE <<Current[v], 0>>]
    BY DEF Init
  <2> QED BY <2>1, <2>2, <2>3 DEF TreeInv
<1>3. FixtureInv
  <2>1. fixture = [b \in Launched |-> Committed(b)]
    BY DEF Init
  <2>2. ASSUME NEW b \in Launched
        PROVE  /\ Committed(b) = [made |-> Committed(b).made, meta |-> Committed(b).meta,
                                  from |-> Committed(b).from, list |-> Committed(b).list]
               /\ Committed(b).from[1] = Committed(b).from[2]
               /\ OneVersion(Committed(b).list)
    BY DEF Committed, Proven, OneVersion
  <2> QED BY <2>1, <2>2 DEF FixtureInv
<1> QED BY <1>1, <1>2, <1>3 DEF FixturesInv

LEMMA LaunchStep ==
  ASSUME FixturesInv, NEW b \in Launched, NEW o, Launch(b, o)
  PROVE  RunInv'
<1> SUFFICES ASSUME run' # None PROVE RunShape' /\ RunFits'
  BY DEF RunInv
<1>1. /\ Admitted(b, o)
      /\ run' = [builder |-> b, o |-> o, at |-> 1, list |-> <<>>, from |-> From(b)]
  BY DEF Launch
<1>2. ThePlan' = Plan(b, o)
  BY <1>1 DEF ThePlan
<1>3. Len(Plan(b, o).script) \in Nat \ {0}
  BY PlanLemma, LaunchedAssumption DEF Scripted
<1>4. b \in {"extract_slot", "transfer_feature"} => From(b)[1] = From(b)[2]
  BY <1>1 DEF Admitted, EnvelopeOpens, SourceRoundTrips
<1>5. IsList(<<>>)
  BY DEF IsList
<1>6. IsList(run.list)'
  BY <1>1, <1>5 DEF IsList
<1>7. RunShape'
  BY <1>1, <1>2, <1>3, <1>4, <1>6 DEF RunShape
<1>8. RunFits'
  BY <1>1 DEF RunFits
<1> QED BY <1>7, <1>8

(* The hinge: a proof is only kept when the key on disk is of its version, *)
(* and where keys are written anew the script proves a circuit once.       *)
LEMMA ProveHereStep ==
  ASSUME FixturesInv, ProveHere
  PROVE  RunInv' /\ vk' \in [Circuits -> Nat \cup {None}]
<1> DEFINE c == Step[2].circuit
           w == Proven(Step[2], source[c], Key(c) = source[c])
<1>1. /\ Running /\ Step[1] = "prove" /\ vk' = [vk EXCEPT ![c] = Key(c)]
      /\ Verifies(Key(c), source[c]) =>
           Advance(Append(run.list, w), toml \cup {c})
      /\ ~Verifies(Key(c), source[c]) => run' = None
  BY DEF ProveHere, Doing, Exit
<1>2. /\ RunShape /\ RunFits /\ run.builder \notin Remote /\ c \in Circuits
      /\ Scripted(run.builder, ThePlan) /\ Local(ThePlan)
      /\ Step = ThePlan.script[run.at] /\ run.at \in 1..Len(ThePlan.script)
  BY <1>1, RunningLemma DEF Scripted
<1>3. /\ source \in [Circuits -> Nat] /\ vk \in [Circuits -> Nat \cup {None}]
  BY DEF FixturesInv, TreeInv
<1>4. vk' \in [Circuits -> Nat \cup {None}]
  BY <1>1, <1>2, <1>3 DEF Key
<1>5. ASSUME run' # None
      PROVE  RunShape' /\ RunFits'
  <2>1. Key(c) = source[c] /\ Advance(Append(run.list, w), toml \cup {c})
    BY <1>1, <1>5 DEF Verifies
  <2>2. w.circuit = c /\ w.version = source[c]
    BY DEF Proven
  <2> HIDE DEF c, w
  <2>3. IsList(run.list) /\ IsList(Append(run.list, w))
    BY <1>2, AppendLemma DEF RunShape
  <2>4. /\ run'.at = run.at + 1 /\ run'.list = Append(run.list, w) /\ ThePlan' = ThePlan
        /\ RunShape'
    BY <1>2, <1>5, <2>1, <2>3, AdvanceLemma
  <2>5. vk'[c] = source[c] /\ \A d \in Circuits : d # c => vk'[d] = vk[d]
    BY <1>1, <1>2, <1>3, <2>1
  <2>6. run.at \in Nat /\ Len(ThePlan.script) \in Nat
    BY <1>2 DEF Scripted
  <2>7. ASSUME NEW i \in DOMAIN run.list
        PROVE  Fits(run.list[i]) /\ vk'[run.list[i].circuit] = vk[run.list[i].circuit]
    <3> DEFINE e == run.list[i]
    <3>1. Fits(e)
      BY <1>2 DEF RunFits
    <3>2. CASE e.circuit # c
      BY <2>5, <3>1, <3>2 DEF Fits
    <3>3. CASE e.circuit = c
      <4>1. PICK k \in 1..Len(ThePlan.script) :
              /\ k < run.at /\ ThePlan.script[k][1] = "prove"
              /\ ThePlan.script[k][2].circuit = c
        BY <3>1, <3>3 DEF Fits
      <4>2. ThePlan.script[run.at][1] = "prove" /\ ThePlan.script[run.at][2].circuit = c
        BY <1>1, <1>2 DEF c
      <4>3. ThePlan.keys # "always"
        BY <1>2, <2>6, <4>1, <4>2 DEF Local
      <4>4. vk[c] \in Nat
        BY <3>1, <3>3 DEF Fits
      <4>5. Key(c) = vk[c]
        BY <1>2, <4>3, <4>4, NoneAssumption DEF Key
      <4> QED BY <2>1, <2>5, <3>1, <3>3, <4>5
    <3> QED BY <3>2, <3>3, <3>1
  <2>8. ASSUME NEW i \in DOMAIN run'.list
        PROVE  Fits(run.list[i])'
    <3>1. CASE i \in 1..Len(run.list)
      <4>1. run'.list[i] = run.list[i] /\ i \in DOMAIN run.list
        BY <2>3, <2>4, <3>1, AppendLemma
      <4>2. Fits(run.list[i]) /\ vk'[run.list[i].circuit] = vk[run.list[i].circuit]
        BY <2>7, <4>1
      <4> QED BY <2>4, <2>6, <4>1, <4>2 DEF Fits
    <3>2. CASE i = Len(run.list) + 1
      <4>1. run'.list[i] = w
        BY <2>3, <2>4, <3>2, AppendLemma
      <4>2. ThePlan.script[run.at][1] = "prove" /\ ThePlan.script[run.at][2].circuit = c
        BY <1>1, <1>2 DEF c
      <4>3. source[c] \in Nat /\ vk'[c] = source[c] /\ c \in Circuits
        BY <1>2, <1>3, <2>5
      <4>4. run.at \in 1..Len(ThePlan.script) /\ run.at < run.at + 1
        BY <1>2, <2>6
      <4> QED BY <2>2, <2>4, <4>1, <4>2, <4>3, <4>4 DEF Fits
    <3> QED BY <2>3, <2>4, <3>1, <3>2, AppendLemma DEF IsList
  <2>9. Append(run.list, w) # <<>>
    BY <2>3, AppendLemma
  <2> QED BY <2>4, <2>8, <2>9 DEF RunFits
<1> QED BY <1>4, <1>5 DEF RunInv

(* A step that makes no proof keeps those of the run, of which there is    *)
(* one: no script starts with such a step.                                 *)
LEMMA OtherStep ==
  ASSUME FixturesInv, Running, Step[1] \notin {"prove", "remote"}, UNCHANGED vk,
         NEW tomls, Advance(run.list, tomls)
  PROVE  RunInv' /\ (run.builder \notin Remote => run.list # <<>>)
<1>1. /\ RunShape /\ run.builder \in Builders /\ Scripted(run.builder, ThePlan)
      /\ Step = ThePlan.script[run.at] /\ run.at \in 1..Len(ThePlan.script)
      /\ run.builder \notin Remote => RunFits
  BY RunningLemma
<1>2. Len(ThePlan.script) \in Nat /\ run.at \in Nat
  BY <1>1 DEF Scripted
<1>3. run.builder \notin Remote => run.list # <<>>
  BY <1>1, <1>2 DEF Scripted, Local, RunFits
<1>4. ASSUME run' # None
      PROVE  RunShape' /\ (run'.builder \notin Remote => RunFits')
  <2>1. /\ run'.builder = run.builder /\ run'.at = run.at + 1 /\ run'.list = run.list
        /\ ThePlan' = ThePlan /\ RunShape'
    BY <1>1, <1>4, AdvanceLemma DEF RunShape
  <2>2. ASSUME run.builder \notin Remote
        PROVE  RunFits'
    <3>1. ASSUME NEW i \in DOMAIN run'.list
          PROVE  Fits(run.list[i])'
      <4>1. Fits(run.list[i]) /\ run'.list[i] = run.list[i]
        BY <1>1, <2>1, <2>2, <3>1 DEF RunFits
      <4> QED BY <1>2, <2>1, <4>1 DEF Fits
    <3> QED BY <1>3, <2>1, <2>2, <3>1 DEF RunFits
  <2> QED BY <2>1, <2>2
<1> QED BY <1>3, <1>4 DEF RunInv

(* A verifier is that of the last proof of the run.                        *)
LEMMA WriteVerifierStep ==
  ASSUME FixturesInv, WriteVerifier
  PROVE  /\ FixturesInv'
         /\ \A v \in Verifiers : verifier'[v] # verifier[v] =>
              \E i \in DOMAIN run.list :
                <<run.list[i].circuit, run.list[i].version>> = verifier'[v]
<1> DEFINE last == run.list[Len(run.list)]
           c == last.circuit
<1>1. /\ Running /\ Step[1] = "verifier" /\ Advance(run.list, toml)
      /\ \/ verifier' = verifier
         \/ verifier' = [verifier EXCEPT ![VerifierOf(c)] = <<c, vk[c]>>]
      /\ UNCHANGED <<source, vk, fixture>>
  BY DEF WriteVerifier, Doing, VerifierKey
<1>2. RunInv' /\ run.builder \notin Remote /\ run.list # <<>>
  BY <1>1, OtherStep, RunningLemma
<1>3. RunShape /\ RunFits
  BY <1>1, <1>2, RunningLemma
<1>4. Len(run.list) \in DOMAIN run.list
  BY <1>2, <1>3 DEF RunShape, IsList
<1>5. Fits(last)
  BY <1>3, <1>4 DEF RunFits
<1>6. c \in Circuits /\ vk[c] = last.version
  BY <1>5 DEF Fits
<1>7. verifier = [v \in Verifiers |-> verifier[v]]
  BY DEF FixturesInv, TreeInv
<1>8. ASSUME NEW v \in Verifiers, verifier'[v] # verifier[v]
      PROVE  verifier'[v] = <<c, vk[c]>> /\ v = VerifierOf(c)
  BY <1>1, <1>7, <1>8
<1>9. \A v \in Verifiers : verifier'[v] # verifier[v] =>
        \E i \in DOMAIN run.list : <<run.list[i].circuit, run.list[i].version>> = verifier'[v]
  BY <1>4, <1>6, <1>8
<1>10. TreeInv'
  <2>1. verifier' = [v \in Verifiers |-> verifier'[v]]
    BY <1>1, <1>7
  <2>2. \A v \in Verifiers : verifier'[v] # <<>> =>
          verifier'[v][1] \in Circuits /\ VerifierOf(verifier'[v][1]) = v
    <3> SUFFICES ASSUME NEW v \in Verifiers, verifier'[v] # <<>>
                 PROVE  verifier'[v][1] \in Circuits /\ VerifierOf(verifier'[v][1]) = v
      OBVIOUS
    <3>1. CASE verifier'[v] # verifier[v]
      <4>1. verifier'[v][1] = c /\ v = VerifierOf(c)
        BY <1>8, <3>1
      <4> QED BY <1>6, <4>1
    <3>2. CASE verifier'[v] = verifier[v]
      BY <3>2 DEF FixturesInv, TreeInv
    <3> QED BY <3>1, <3>2
  <2> QED BY <1>1, <2>1, <2>2 DEF FixturesInv, TreeInv
<1>11. FixtureInv'
  BY <1>1 DEF FixturesInv, FixtureInv, OneVersion
<1> QED BY <1>2, <1>9, <1>10, <1>11 DEF FixturesInv

LEMMA FilesLemma ==
  ASSUME NEW r,
         r = [made |-> r.made, meta |-> r.meta, from |-> r.from, list |-> r.list],
         NEW x
  PROVE  /\ [r EXCEPT !.meta = x] =
              [made |-> r.made, meta |-> x, from |-> r.from, list |-> r.list]
         /\ [r EXCEPT !.made = x] =
              [made |-> x, meta |-> r.meta, from |-> r.from, list |-> r.list]
         /\ [r EXCEPT !.list = x] =
              [made |-> r.made, meta |-> r.meta, from |-> r.from, list |-> x]
         /\ [r EXCEPT !.from = x] =
              [made |-> r.made, meta |-> r.meta, from |-> x, list |-> r.list]
<1>1. PICK a, b, c, d : r = [made |-> a, meta |-> b, from |-> c, list |-> d]
  OBVIOUS
<1>2. r.made = a /\ r.meta = b /\ r.from = c /\ r.list = d
  BY <1>1
<1>3. [r EXCEPT !.meta = x] = [made |-> a, meta |-> x, from |-> c, list |-> d]
  BY <1>1
<1>4. [r EXCEPT !.made = x] = [made |-> x, meta |-> b, from |-> c, list |-> d]
  BY <1>1
<1>5. [r EXCEPT !.list = x] = [made |-> a, meta |-> b, from |-> c, list |-> x]
  BY <1>1
<1>6. [r EXCEPT !.from = x] = [made |-> a, meta |-> b, from |-> x, list |-> d]
  BY <1>1
<1> QED BY <1>2, <1>3, <1>4, <1>5, <1>6

(* The proofs of the run, of one version for each circuit, become those of *)
(* the fixture.                                                            *)
LEMMA WriteProofsStep ==
  ASSUME FixturesInv, WriteProofs
  PROVE  RunInv' /\ FixtureInv'
<1> DEFINE b == run.builder
           new == [made |-> Chosen(run.o), meta |-> fixture[b].meta, from |-> run.from,
                   list |-> run.list]
<1>1. /\ Running /\ Step[1] = "proofs" /\ Advance(run.list, toml) /\ UNCHANGED vk
      /\ fixture' = [fixture EXCEPT ![b].made = Chosen(run.o), ![b].list = run.list,
                                    ![b].from = run.from]
  BY DEF WriteProofs, Doing
<1>2. RunInv'
  BY <1>1, OtherStep
<1>3. RunShape /\ (b \notin Remote => RunFits)
  BY <1>1, RunningLemma
<1>4. b \in Launched
  BY <1>3 DEF RunShape
<1>5. fixture' = [d \in Launched |-> IF d = b THEN new ELSE fixture[d]]
  <2>1. fixture = [d \in Launched |-> fixture[d]]
    BY DEF FixturesInv, FixtureInv
  <2>2. fixture[b] = [made |-> fixture[b].made, meta |-> fixture[b].meta,
                      from |-> fixture[b].from, list |-> fixture[b].list]
    BY <1>4 DEF FixturesInv, FixtureInv
  <2>3. [fixture[b] EXCEPT !.made = Chosen(run.o), !.list = run.list, !.from = run.from] = new
    <3> DEFINE r1 == [fixture[b] EXCEPT !.made = Chosen(run.o)]
               r2 == [r1 EXCEPT !.list = run.list]
    <3>1. r1 = [made |-> Chosen(run.o), meta |-> fixture[b].meta, from |-> fixture[b].from,
                list |-> fixture[b].list]
      BY <2>2, FilesLemma
    <3>2. r2 = [made |-> Chosen(run.o), meta |-> fixture[b].meta, from |-> fixture[b].from,
                list |-> run.list]
      <4> HIDE DEF r1
      <4> QED BY <3>1, FilesLemma
    <3>3. [r2 EXCEPT !.from = run.from] = new
      <4> HIDE DEF r2
      <4> QED BY <3>2, FilesLemma
    <3>4. [fixture[b] EXCEPT !.made = Chosen(run.o), !.list = run.list, !.from = run.from]
            = [r2 EXCEPT !.from = run.from]
      OBVIOUS
    <3> QED BY <3>3, <3>4, Zenon
  <2>4. fixture' = [fixture EXCEPT ![b] = [fixture[b] EXCEPT !.made = Chosen(run.o),
                                             !.list = run.list, !.from = run.from]]
    BY <1>1, <1>4, <2>1
  <2> HIDE DEF b, new
  <2> QED BY <1>4, <2>1, <2>3, <2>4
<1>6. b \notin Remote => OneVersion(run.list)
  BY <1>3 DEF RunFits, Fits, OneVersion
<1>7. ASSUME NEW d \in Launched
      PROVE  /\ fixture'[d] = [made |-> fixture'[d].made, meta |-> fixture'[d].meta,
                               from |-> fixture'[d].from, list |-> fixture'[d].list]
             /\ d \notin Remote => OneVersion(fixture'[d].list)
             /\ d \in {"extract_slot", "transfer_feature"} =>
                  fixture'[d].from[1] = fixture'[d].from[2]
  <2>1. CASE d = b
    BY <1>3, <1>5, <1>6, <2>1 DEF RunShape
  <2>2. CASE d # b
    BY <1>5, <2>2 DEF FixturesInv, FixtureInv
  <2> QED BY <2>1, <2>2
<1> HIDE DEF b, new
<1>8. fixture' = [d \in Launched |-> fixture'[d]]
  BY <1>5
<1>9. \A d \in Launched : OneVersion(fixture[d].list)' <=> OneVersion(fixture'[d].list)
  BY DEF OneVersion
<1> QED BY <1>2, <1>7, <1>8, <1>9 DEF FixtureInv

(* The meta of a fixture is of no concern to its proofs.                   *)
LEMMA MetaLemma ==
  ASSUME FixtureInv, NEW b, NEW m, fixture' = [fixture EXCEPT ![b].meta = m]
  PROVE  FixtureInv'
<1>1. fixture' = [d \in Launched |->
                    IF d = b THEN [made |-> fixture[d].made, meta |-> m,
                                   from |-> fixture[d].from, list |-> fixture[d].list]
                    ELSE fixture[d]]
  <2>1. fixture = [d \in Launched |-> fixture[d]]
    BY DEF FixtureInv
  <2>2. \A d \in Launched :
          fixture[d] = [made |-> fixture[d].made, meta |-> fixture[d].meta,
                        from |-> fixture[d].from, list |-> fixture[d].list]
    BY DEF FixtureInv
  <2>3. \A d \in Launched :
          [fixture[d] EXCEPT !.meta = m] =
            [made |-> fixture[d].made, meta |-> m, from |-> fixture[d].from,
             list |-> fixture[d].list]
    BY <2>2, FilesLemma
  <2> QED BY <2>1, <2>3
<1>2. ASSUME NEW d \in Launched
      PROVE  /\ fixture'[d] = [made |-> fixture'[d].made, meta |-> fixture'[d].meta,
                               from |-> fixture'[d].from, list |-> fixture'[d].list]
             /\ fixture'[d].from = fixture[d].from /\ fixture'[d].list = fixture[d].list
  <2>1. fixture[d] = [made |-> fixture[d].made, meta |-> fixture[d].meta,
                      from |-> fixture[d].from, list |-> fixture[d].list]
    BY DEF FixtureInv
  <2> QED BY <1>1, <2>1
<1>3. fixture' = [d \in Launched |-> fixture'[d]]
  BY <1>1
<1>4. ASSUME NEW d \in Launched \ Remote
      PROVE  OneVersion(fixture[d].list)'
  <2>1. fixture'[d].list = fixture[d].list /\ OneVersion(fixture[d].list)
    BY <1>2 DEF FixtureInv
  <2> QED BY <2>1 DEF OneVersion
<1>5. \A d \in Launched \cap {"extract_slot", "transfer_feature"} :
        fixture'[d].from[1] = fixture'[d].from[2]
  BY <1>2 DEF FixtureInv
<1>6. fixture' = [d \in Launched |->
                    [made |-> fixture'[d].made, meta |-> fixture'[d].meta,
                     from |-> fixture'[d].from, list |-> fixture'[d].list]]
  BY <1>2, <1>3
<1> QED BY <1>4, <1>5, <1>6 DEF FixtureInv

LEMMA RemoteStep ==
  ASSUME FixturesInv, NEW executed, ProveThere(executed)
  PROVE  RunInv' /\ vk' \in [Circuits -> Nat \cup {None}]
<1> DEFINE c == Step[2].circuit
<1>1. /\ Running /\ Step[1] = "remote" /\ vk' = [vk EXCEPT ![c] = Key(c)]
      /\ run' = None \/ \E w : Advance(Append(run.list, w), toml \cup {c})
  BY DEF ProveThere, Doing, Exit
<1>2. RunShape /\ run.builder \in Remote /\ c \in Circuits
  BY <1>1, RunningLemma
<1>3. vk' \in [Circuits -> Nat \cup {None}]
  <2>1. source \in [Circuits -> Nat] /\ vk \in [Circuits -> Nat \cup {None}]
    BY DEF FixturesInv, TreeInv
  <2> QED BY <1>1, <1>2, <2>1 DEF Key
<1>4. ASSUME run' # None
      PROVE  RunShape' /\ run'.builder \in Remote
  <2> HIDE DEF c
  <2>1. PICK w : Advance(Append(run.list, w), toml \cup {c})
    BY <1>1, <1>4
  <2>2. IsList(Append(run.list, w))
    BY <1>2, AppendLemma DEF RunShape
  <2> QED BY <1>2, <1>4, <2>1, <2>2, AdvanceLemma
<1> QED BY <1>3, <1>4 DEF RunInv

LEMMA FixturesStep == FixturesInv /\ [Next]_vars => FixturesInv'
<1> SUFFICES ASSUME FixturesInv, [Next]_vars PROVE FixturesInv'
  OBVIOUS
<1>1. TreeInv /\ UNCHANGED <<source, vk, verifier>> => TreeInv'
  BY DEF TreeInv
<1>2. FixtureInv /\ UNCHANGED fixture => FixtureInv'
  BY DEF FixtureInv, OneVersion
<1>3. run' = None => RunInv'
  BY DEF RunInv
<1>4. RunInv /\ FixtureInv /\ TreeInv
  BY DEF FixturesInv
<1>5. UNCHANGED <<source, verifier>> /\ vk' \in [Circuits -> Nat \cup {None}] => TreeInv'
  BY <1>4 DEF TreeInv
<1>6. RunInv /\ UNCHANGED <<vk, run>> => RunInv'
  BY DEF RunInv, RunShape, RunFits, Fits, ThePlan, IsList
<1>7. ASSUME NEW c \in Edited, EditCircuit(c)
      PROVE  FixturesInv'
  <2>1. source' \in [Circuits -> Nat] /\ UNCHANGED <<vk, verifier, fixture, run>>
    BY <1>4, <1>7, EditedAssumption DEF EditCircuit, TreeInv
  <2>2. TreeInv'
    BY <1>4, <2>1 DEF TreeInv
  <2> QED BY <1>2, <1>4, <1>6, <2>1, <2>2 DEF FixturesInv
<1>8. ASSUME NEW b \in Launched, NEW o, Launch(b, o)
      PROVE  FixturesInv'
  <2>1. UNCHANGED <<source, vk, verifier, fixture>>
    BY <1>8 DEF Launch
  <2> QED BY <1>1, <1>2, <1>4, <1>8, <2>1, LaunchStep DEF FixturesInv
<1>9. CASE ProveHere
  <2>1. UNCHANGED <<source, verifier, fixture>>
    BY <1>9 DEF ProveHere
  <2> QED BY <1>2, <1>4, <1>5, <1>9, <2>1, ProveHereStep DEF FixturesInv
<1>10. CASE StopEarly
  <2>1. /\ run' = None /\ UNCHANGED <<source, verifier>> /\ Running /\ Step[1] = "prove"
        /\ \/ vk' = vk
           \/ vk' = [vk EXCEPT ![Step[2].circuit] = Key(Step[2].circuit)]
        /\ \/ fixture' = fixture
           \/ fixture' = [fixture EXCEPT ![run.builder].meta = Chosen(run.o)]
    BY <1>10 DEF StopEarly, Doing, Exit
  <2>2. Step[2].circuit \in Circuits
    BY <2>1, RunningLemma
  <2>3. vk' \in [Circuits -> Nat \cup {None}]
    BY <1>4, <2>1, <2>2 DEF TreeInv, Key
  <2>4. FixtureInv'
    BY <1>2, <1>4, <2>1, MetaLemma
  <2> QED BY <1>3, <1>5, <2>1, <2>3, <2>4 DEF FixturesInv
<1>11. CASE WriteVerifier
  BY <1>11, WriteVerifierStep
<1>12. CASE WriteProofs
  <2>1. UNCHANGED <<source, vk, verifier>>
    BY <1>12 DEF WriteProofs
  <2> QED BY <1>1, <1>4, <1>12, <2>1, WriteProofsStep DEF FixturesInv
<1>13. CASE WriteMeta
  <2>1. /\ Running /\ Step[1] = "meta" /\ Advance(run.list, toml)
        /\ UNCHANGED <<source, vk, verifier>>
        /\ fixture' = [fixture EXCEPT ![run.builder].meta = Chosen(run.o)]
    BY <1>13 DEF WriteMeta, Doing
  <2>2. RunInv'
    BY <2>1, OtherStep
  <2>3. FixtureInv'
    BY <1>4, <2>1, MetaLemma
  <2> QED BY <1>1, <1>4, <2>1, <2>2, <2>3 DEF FixturesInv
<1>14. CASE DecodeMint
  <2>1. run' = None /\ UNCHANGED <<source, vk, verifier, fixture>>
    BY <1>14 DEF DecodeMint, Exit
  <2> QED BY <1>1, <1>2, <1>3, <1>4, <2>1 DEF FixturesInv
<1>15. CASE Fail
  <2>1. run' = None /\ UNCHANGED <<source, vk, verifier, fixture>>
    BY <1>15 DEF Fail, Exit
  <2> QED BY <1>1, <1>2, <1>3, <1>4, <2>1 DEF FixturesInv
<1>16. ASSUME NEW executed, ProveThere(executed)
       PROVE  FixturesInv'
  <2>1. UNCHANGED <<source, verifier, fixture>>
    BY <1>16 DEF ProveThere
  <2> QED BY <1>2, <1>4, <1>5, <1>16, <2>1, RemoteStep DEF FixturesInv
<1>17. CASE UNCHANGED vars
  BY <1>1, <1>2, <1>4, <1>6, <1>17 DEF vars, FixturesInv
<1> QED BY <1>7, <1>8, <1>9, <1>10, <1>11, <1>12, <1>13, <1>14, <1>15, <1>16, <1>17 DEF Next

(* While a run that proves here lasts, the proofs it holds are of the      *)
(* versions that the keys on disk are of.                                  *)
THEOREM FixturesInductive == Spec => []FixturesInv
BY FixturesInit, FixturesStep, PTL DEF Spec

(* One verifier accepts all proofs of a circuit in a fixture.              *)
THEOREM OneVerifier == Spec => []OneVerifierAccepts
<1>1. FixturesInv => OneVerifierAccepts
  BY DEF FixturesInv, FixtureInv, OneVersion, OneVerifierAccepts, Remote
<1> QED BY <1>1, FixturesInductive, PTL

(* A fixture made from another was made from files of one run.             *)
THEOREM FromOneRun == Spec => []MadeFromOneRun
<1>1. FixturesInv => MadeFromOneRun
  BY DEF FixturesInv, FixtureInv, MadeFromOneRun
<1> QED BY <1>1, FixturesInductive, PTL

(* A verifier only gives way to one for a proof of the run that wrote it.  *)
THEOREM VerifiersFit == Spec => VerifierFitsTheProof
<1>1. ASSUME FixturesInv, [Next]_vars, NEW v \in Verifiers, verifier'[v] # verifier[v]
      PROVE  \E i \in DOMAIN run.list :
               <<run.list[i].circuit, run.list[i].version>> = verifier'[v]
  <2>1. CASE WriteVerifier
    BY <1>1, <2>1, WriteVerifierStep
  <2>2. CASE UNCHANGED verifier
    BY <1>1, <2>2
  <2>3. WriteVerifier \/ UNCHANGED verifier
    BY <1>1 DEF Next, vars, EditCircuit, Launch, ProveHere, StopEarly, WriteProofs, WriteMeta,
                DecodeMint, Fail, ProveThere
  <2> QED BY <2>1, <2>2, <2>3
<1>2. FixturesInv /\ [Next]_vars =>
        [\A v \in Verifiers : verifier'[v] # verifier[v] =>
            \E i \in DOMAIN run.list :
              <<run.list[i].circuit, run.list[i].version>> = verifier'[v]]_vars
  BY <1>1
<1> QED BY <1>2, FixturesInductive, PTL DEF Spec, VerifierFitsTheProof

(* No two circuits that share the name of a verifier have as many public   *)
(* inputs, so that the manifest check tells a verifier of v1 from the v2.  *)
THEOREM ManifestTellsV1 == Spec => []ManifestSeesV1
<1>1. ASSUME TreeInv, ManifestPasses, NEW v \in Verifiers
      PROVE  verifier[v][1] = Current[v]
  <2> DEFINE c == verifier[v][1]
             d == Current[v]
  <2>1. verifier[v] # <<>> /\ Inputs(c) = Inputs(d)
    BY <1>1 DEF ManifestPasses, ManifestAccepts
  <2>2. c \in Circuits /\ VerifierOf(c) = v
    BY <1>1, <2>1 DEF TreeInv
  <2>3. /\ d \in Circuits /\ VerifierOf(d) = v
        /\ d \notin {"transfer_shadow", "solve_shadow"}
    BY CurrentLemma
  <2>4. v # None
    BY DEF Verifiers
  <2> HIDE DEF c, d
  <2>5. ASSUME VerifierOf(c) = VerifierOf(d), VerifierOf(c) # None, c # d
        PROVE  c \in {"transfer_shadow", "solve_shadow"} /\ Inputs(c) # Inputs(d)
    BY <2>2, <2>3, <2>5 DEF VerifierOf, Circuits, Inputs
  <2> QED BY <2>1, <2>2, <2>3, <2>4, <2>5 DEF c, d
<1>2. FixturesInv => ManifestSeesV1
  BY <1>1 DEF FixturesInv, ManifestSeesV1
<1> QED BY <1>2, FixturesInductive, PTL
--------------------------------------------------------------------------------
V2 == Builders \ V1Builders

(* How many proofs a builder of v2 makes, and the step of its script that  *)
(* makes the i-th one: only atomic_transfer does something in between.     *)
NProofs(b) ==
  CASE b \in {"atomic_mutate", "atomic_zindex", "atomic_transfer"} -> 2
    [] b = "batch" -> 3
    [] b = "chained" -> 4
    [] b = "batch_max" -> NSlots + 1
    [] OTHER -> 1
StepOf(b, i) == IF b = "atomic_transfer" /\ i = 2 THEN 3 ELSE i
Made(b, o, i) == Plan(b, o).script[StepOf(b, i)][2]

(* The steps of a script of v2: proofs, then the files.                    *)
Staged(b, s) ==
  /\ \A i \in 1..NProofs(b) : StepOf(b, i) \in 1..Len(s)
  /\ \A k \in 1..Len(s) :
       /\ s[k][1] # "remote"
       /\ s[k][1] = "prove" <=> \E i \in 1..NProofs(b) : k = StepOf(b, i)
       /\ s[k][1] = "proofs" => \A i \in 1..NProofs(b) : StepOf(b, i) < k

LEMMA StepOfLemma ==
  ASSUME NEW b \in V2
  PROVE  /\ NProofs(b) \in Nat \ {0}
         /\ \A i \in 1..NProofs(b) : StepOf(b, i) \in Nat \ {0}
         /\ \A i, j \in 1..NProofs(b) : i < j <=> StepOf(b, i) < StepOf(b, j)
<1>1. NProofs(b) \in Nat \ {0}
  BY BoundsAssumption DEF NProofs
<1>2. CASE b = "atomic_transfer"
  <2>1. NProofs(b) = 2 /\ StepOf(b, 1) = 1 /\ StepOf(b, 2) = 3
    BY <1>2 DEF NProofs, StepOf
  <2>2. \A i \in 1..2 : i = 1 \/ i = 2
    OBVIOUS
  <2> QED BY <2>1, <2>2
<1>3. CASE b # "atomic_transfer"
  <2>1. \A i : StepOf(b, i) = i
    BY <1>3 DEF StepOf
  <2> QED BY <1>1, <2>1
<1> QED BY <1>2, <1>3

ProofsFirst(b, s) ==
  /\ NProofs(b) <= Len(s)
  /\ \A k \in 1..Len(s) : /\ s[k][1] \in {"prove", "verifier", "proofs", "meta"}
                          /\ s[k][1] = "prove" <=> k \in 1..NProofs(b)

LEMMA StagedInOrder ==
  ASSUME NEW b \in V2, b # "atomic_transfer", NEW s, Len(s) \in Nat, ProofsFirst(b, s)
  PROVE  Staged(b, s)
<1>1. \A i : StepOf(b, i) = i
  BY DEF StepOf
<1>2. NProofs(b) \in Nat
  BY StepOfLemma
<1>3. ASSUME NEW k \in 1..Len(s), s[k][1] = "proofs", NEW i \in 1..NProofs(b)
      PROVE  i < k
  BY <1>2, <1>3 DEF ProofsFirst
<1>4. \A k \in 1..Len(s) : s[k][1] = "prove" <=> \E i \in 1..NProofs(b) : k = i
  BY DEF ProofsFirst
<1>5. \A k \in 1..Len(s) : s[k][1] # "remote"
  BY DEF ProofsFirst
<1>6. \A i \in 1..NProofs(b) : i \in 1..Len(s)
  BY <1>2 DEF ProofsFirst
<1> QED BY <1>1, <1>3, <1>4, <1>5, <1>6 DEF Staged

LEMMA StagedLemma ==
  ASSUME NEW b \in V2, NEW o
  PROVE  Staged(b, Plan(b, o).script) /\ Len(Plan(b, o).script) \in Nat \ {0}
<1> DEFINE s == Plan(b, o).script
<1>0. Len(s) \in Nat \ {0} /\ NSlots \in Nat /\ NSlots >= 2
  BY PlanLemma, BoundsAssumption DEF V2, Scripted
<1>1. CASE b = "mutate_slot"
  <2>1. Plan(b, o) = MutateSlot(o) /\ NProofs(b) = 1
    BY <1>1 DEF Plan, NProofs
  <2>2. /\ Len(s) = 4
        /\ s[1][1] = "prove"
        /\ s[2][1] \in {"verifier", "proofs", "meta"}
        /\ s[3][1] \in {"verifier", "proofs", "meta"}
        /\ s[4][1] \in {"verifier", "proofs", "meta"}
    BY <2>1 DEF MutateSlot, Prove, Verifier, Proofs, Meta
  <2> HIDE DEF s
  <2>3. ProofsFirst(b, s)
    BY <2>1, <2>2 DEF ProofsFirst
  <2>4. Staged(b, s)
    BY <1>0, <1>1, <2>3, StagedInOrder
  <2> QED BY <1>0, <2>4 DEF s
<1>2. CASE b = "zindex_commit"
  <2>1. Plan(b, o) = ZIndexCommit(o) /\ NProofs(b) = 1
    BY <1>2 DEF Plan, NProofs
  <2>2. /\ Len(s) = 4
        /\ s[1][1] = "prove"
        /\ s[2][1] \in {"verifier", "proofs", "meta"}
        /\ s[3][1] \in {"verifier", "proofs", "meta"}
        /\ s[4][1] \in {"verifier", "proofs", "meta"}
    BY <2>1 DEF ZIndexCommit, Prove, Verifier, Proofs, Meta
  <2> HIDE DEF s
  <2>3. ProofsFirst(b, s)
    BY <2>1, <2>2 DEF ProofsFirst
  <2>4. Staged(b, s)
    BY <1>0, <1>2, <2>3, StagedInOrder
  <2> QED BY <1>0, <2>4 DEF s
<1>3. CASE b = "shadow_t10"
  <2>1. Plan(b, o) = ShadowT10(o) /\ NProofs(b) = 1
    BY <1>3 DEF Plan, NProofs
  <2>2. /\ Len(s) = 4
        /\ s[1][1] = "prove"
        /\ s[2][1] \in {"verifier", "proofs", "meta"}
        /\ s[3][1] \in {"verifier", "proofs", "meta"}
        /\ s[4][1] \in {"verifier", "proofs", "meta"}
    BY <2>1 DEF ShadowT10, Prove, Verifier, Proofs, Meta
  <2> HIDE DEF s
  <2>3. ProofsFirst(b, s)
    BY <2>1, <2>2 DEF ProofsFirst
  <2>4. Staged(b, s)
    BY <1>0, <1>3, <2>3, StagedInOrder
  <2> QED BY <1>0, <2>4 DEF s
<1>4. CASE b = "transfer_shadow_v2"
  <2>1. Plan(b, o) = TransferShadowV2(o) /\ NProofs(b) = 1
    BY <1>4 DEF Plan, NProofs
  <2>2. /\ Len(s) = 4
        /\ s[1][1] = "prove"
        /\ s[2][1] \in {"verifier", "proofs", "meta"}
        /\ s[3][1] \in {"verifier", "proofs", "meta"}
        /\ s[4][1] \in {"verifier", "proofs", "meta"}
    BY <2>1 DEF TransferShadowV2, Prove, Verifier, Proofs, Meta
  <2> HIDE DEF s
  <2>3. ProofsFirst(b, s)
    BY <2>1, <2>2 DEF ProofsFirst
  <2>4. Staged(b, s)
    BY <1>0, <1>4, <2>3, StagedInOrder
  <2> QED BY <1>0, <2>4 DEF s
<1>5. CASE b = "solve_shadow_v2"
  <2>1. Plan(b, o) = SolveShadowV2(o) /\ NProofs(b) = 1
    BY <1>5 DEF Plan, NProofs
  <2>2. /\ Len(s) = 4
        /\ s[1][1] = "prove"
        /\ s[2][1] \in {"verifier", "proofs", "meta"}
        /\ s[3][1] \in {"verifier", "proofs", "meta"}
        /\ s[4][1] \in {"verifier", "proofs", "meta"}
    BY <2>1 DEF SolveShadowV2, Prove, Verifier, Proofs, Meta
  <2> HIDE DEF s
  <2>3. ProofsFirst(b, s)
    BY <2>1, <2>2 DEF ProofsFirst
  <2>4. Staged(b, s)
    BY <1>0, <1>5, <2>3, StagedInOrder
  <2> QED BY <1>0, <2>4 DEF s
<1>6. CASE b = "transfer_feature_v2"
  <2>1. Plan(b, o) = TransferFeatureV2(o) /\ NProofs(b) = 1
    BY <1>6 DEF Plan, NProofs
  <2>2. /\ Len(s) = 4
        /\ s[1][1] = "prove"
        /\ s[2][1] \in {"verifier", "proofs", "meta"}
        /\ s[3][1] \in {"verifier", "proofs", "meta"}
        /\ s[4][1] \in {"verifier", "proofs", "meta"}
    BY <2>1 DEF TransferFeatureV2, Prove, Verifier, Proofs, Meta
  <2> HIDE DEF s
  <2>3. ProofsFirst(b, s)
    BY <2>1, <2>2 DEF ProofsFirst
  <2>4. Staged(b, s)
    BY <1>0, <1>6, <2>3, StagedInOrder
  <2> QED BY <1>0, <2>4 DEF s
<1>7. CASE b = "atomic_extract"
  <2>1. Plan(b, o) = AtomicExtract(o) /\ NProofs(b) = 1
    BY <1>7 DEF Plan, NProofs
  <2>2. /\ Len(s) = 3
        /\ s[1][1] = "prove"
        /\ s[2][1] \in {"verifier", "proofs", "meta"}
        /\ s[3][1] \in {"verifier", "proofs", "meta"}
    BY <2>1 DEF AtomicExtract, Prove, Verifier, Proofs, Meta
  <2> HIDE DEF s
  <2>3. ProofsFirst(b, s)
    BY <2>1, <2>2 DEF ProofsFirst
  <2>4. Staged(b, s)
    BY <1>0, <1>7, <2>3, StagedInOrder
  <2> QED BY <1>0, <2>4 DEF s
<1>8. CASE b = "atomic_mutate"
  <2>1. Plan(b, o) = AtomicMutate(o) /\ NProofs(b) = 2
    BY <1>8 DEF Plan, NProofs
  <2>2. /\ Len(s) = 4
        /\ s[1][1] = "prove" /\ s[2][1] = "prove"
        /\ s[3][1] \in {"verifier", "proofs", "meta"}
        /\ s[4][1] \in {"verifier", "proofs", "meta"}
    BY <2>1 DEF AtomicMutate, Prove, Verifier, Proofs, Meta
  <2> HIDE DEF s
  <2>3. ProofsFirst(b, s)
    BY <2>1, <2>2 DEF ProofsFirst
  <2>4. Staged(b, s)
    BY <1>0, <1>8, <2>3, StagedInOrder
  <2> QED BY <1>0, <2>4 DEF s
<1>9. CASE b = "atomic_zindex"
  <2>1. Plan(b, o) = AtomicZIndex(o) /\ NProofs(b) = 2
    BY <1>9 DEF Plan, NProofs
  <2>2. /\ Len(s) = 4
        /\ s[1][1] = "prove" /\ s[2][1] = "prove"
        /\ s[3][1] \in {"verifier", "proofs", "meta"}
        /\ s[4][1] \in {"verifier", "proofs", "meta"}
    BY <2>1 DEF AtomicZIndex, Prove, Verifier, Proofs, Meta
  <2> HIDE DEF s
  <2>3. ProofsFirst(b, s)
    BY <2>1, <2>2 DEF ProofsFirst
  <2>4. Staged(b, s)
    BY <1>0, <1>9, <2>3, StagedInOrder
  <2> QED BY <1>0, <2>4 DEF s
<1>10. CASE b = "batch"
  <2>1. Plan(b, o) = Batch(o) /\ NProofs(b) = 3
    BY <1>10 DEF Plan, NProofs
  <2>2. /\ Len(s) = 5
        /\ s[1][1] = "prove" /\ s[2][1] = "prove" /\ s[3][1] = "prove"
        /\ s[4][1] \in {"verifier", "proofs", "meta"}
        /\ s[5][1] \in {"verifier", "proofs", "meta"}
    BY <2>1 DEF Batch, Prove, Verifier, Proofs, Meta
  <2> HIDE DEF s
  <2>3. ProofsFirst(b, s)
    BY <2>1, <2>2 DEF ProofsFirst
  <2>4. Staged(b, s)
    BY <1>0, <1>10, <2>3, StagedInOrder
  <2> QED BY <1>0, <2>4 DEF s
<1>11. CASE b = "chained"
  <2>1. Plan(b, o) = ChainedMutate(o) /\ NProofs(b) = 4
    BY <1>11 DEF Plan, NProofs
  <2>2. /\ Len(s) = 6
        /\ s[1][1] = "prove" /\ s[2][1] = "prove" /\ s[3][1] = "prove" /\ s[4][1] = "prove"
        /\ s[5][1] \in {"verifier", "proofs", "meta"}
        /\ s[6][1] \in {"verifier", "proofs", "meta"}
    BY <2>1 DEF ChainedMutate, Prove, Verifier, Proofs, Meta
  <2> HIDE DEF s
  <2>3. ProofsFirst(b, s)
    BY <2>1, <2>2 DEF ProofsFirst
  <2>4. Staged(b, s)
    BY <1>0, <1>11, <2>3, StagedInOrder
  <2> QED BY <1>0, <2>4 DEF s
<1>12. CASE b = "atomic_transfer"
  <2>1. /\ Len(s) = 5 /\ s[1][1] = "prove" /\ s[2][1] = "verifier" /\ s[3][1] = "prove"
        /\ \A k \in 4..5 : s[k][1] \in {"verifier", "proofs", "meta"}
    BY <1>12 DEF Plan, AtomicTransfer, Prove, Verifier, Proofs, Meta
  <2>2. NProofs(b) = 2 /\ StepOf(b, 1) = 1 /\ StepOf(b, 2) = 3
    BY <1>12 DEF NProofs, StepOf
  <2>3. \A i \in 1..2 : i = 1 \/ i = 2
    OBVIOUS
  <2> HIDE DEF s
  <2>4. \A k \in 1..5 : s[k][1] = "prove" <=> k \in {1, 3}
    BY <2>1
  <2> QED BY <1>0, <2>1, <2>2, <2>3, <2>4 DEF Staged, s
<1>13. CASE b = "batch_max"
  <2>1. /\ Len(s) = NSlots + 3
        /\ \A k \in 1..NSlots : s[k] = <<"prove", MutateWitness(k, Minted)>>
        /\ s[NSlots + 1][1] = "prove" /\ s[NSlots + 2][1] = "proofs"
        /\ s[NSlots + 3][1] = "meta"
    BY <1>13, BatchMaxSteps DEF Plan
  <2>2. NProofs(b) = NSlots + 1
    BY <1>13 DEF NProofs
  <2> HIDE DEF s
  <2>3. \A k \in 1..Len(s) : k \in 1..NSlots \/ k = NSlots + 1 \/ k = NSlots + 2 \/ k = NSlots + 3
    BY <1>0, <2>1
  <2>4. ProofsFirst(b, s)
    BY <1>0, <2>1, <2>2, <2>3 DEF ProofsFirst
  <2> QED BY <1>0, <1>13, <2>4, StagedInOrder DEF s
<1> QED BY <1>0, <1>1, <1>2, <1>3, <1>4, <1>5, <1>6, <1>7, <1>8, <1>9, <1>10, <1>11, <1>12, <1>13
           DEF V2, Builders, V1Builders

LEMMA SamePlan ==
  ASSUME NEW b \in V2, NEW o, NEW u, o.a = u.a, o.b = u.b
  PROVE  Plan(b, o) = Plan(b, u)
<1>1. /\ MutateSlot(o) = MutateSlot(u) /\ AtomicMutate(o) = AtomicMutate(u)
      /\ BatchMax(o) = BatchMax(u) /\ ZIndexCommit(o) = ZIndexCommit(u)
      /\ ShadowT10(o) = ShadowT10(u)
  BY DEF MutateSlot, AtomicMutate, BatchMax, ZIndexCommit, ShadowT10
<1>2. Batch(o) = Batch(u)
  BY DEF Batch
<1>3. ChainedMutate(o) = ChainedMutate(u)
  BY DEF ChainedMutate
<1>4. AtomicExtract(o) = AtomicExtract(u) /\ AtomicZIndex(o) = AtomicZIndex(u)
  BY DEF AtomicExtract, AtomicZIndex
<1>5. TransferShadowV2(o) = TransferShadowV2(u) /\ SolveShadowV2(o) = SolveShadowV2(u)
  BY DEF TransferShadowV2, SolveShadowV2
<1>6. AtomicTransfer(o) = AtomicTransfer(u)
  BY DEF AtomicTransfer
<1>7. TransferFeatureV2(o) = TransferFeatureV2(u)
  BY DEF TransferFeatureV2
<1> QED BY <1>1, <1>2, <1>3, <1>4, <1>5, <1>6, <1>7 DEF Plan, V2, Builders, V1Builders

(* The i-th proof of a script, counted, is that of the i-th place.         *)
LEMMA PlacesLemma ==
  ASSUME NEW b \in V2, NEW o
  PROVE  LET steps == ProofSteps(Plan(b, o))
         IN /\ Cardinality(steps) = NProofs(b)
            /\ \A i \in 1..NProofs(b) : Nth(steps, i) = StepOf(b, i)
<1> DEFINE s == Plan(b, o).script
           steps == ProofSteps(Plan(b, o))
           N == NProofs(b)
           upto(k) == Cardinality({m \in steps : m <= k})
<1>1. Staged(b, s) /\ N \in Nat \ {0} /\ Len(s) \in Nat
  BY StagedLemma, StepOfLemma
<1>2. steps = {StepOf(b, i) : i \in 1..N}
  <2>1. \A k \in 1..Len(s) : s[k][1] \in {"prove", "remote"} <=> \E i \in 1..N : k = StepOf(b, i)
    BY <1>1 DEF Staged
  <2>2. \A i \in 1..N : StepOf(b, i) \in 1..Len(s)
    BY <1>1 DEF Staged
  <2>3. steps = {k \in 1..Len(s) : s[k][1] \in {"prove", "remote"}}
    BY DEF ProofSteps
  <2> HIDE DEF s, N, steps
  <2> QED BY <2>1, <2>2, <2>3
<1> HIDE DEF s, N, steps
<1>3. ASSUME \A i \in 1..N : upto(StepOf(b, i)) = i
      PROVE  \A i \in 1..N : Nth(steps, i) = StepOf(b, i)
  <2> SUFFICES ASSUME NEW i \in 1..N PROVE Nth(steps, i) = StepOf(b, i)
    OBVIOUS
  <2> HIDE DEF upto
  <2>1. \A k \in steps : upto(k) = i => k = StepOf(b, i)
    BY <1>2, <1>3
  <2>2. StepOf(b, i) \in steps /\ upto(StepOf(b, i)) = i
    BY <1>2, <1>3
  <2>3. Nth(steps, i) = CHOOSE k \in steps : upto(k) = i
    BY DEF Nth, upto
  <2> QED BY <2>1, <2>2, <2>3
<1>4. CASE b = "atomic_transfer"
  <2>1. N = 2 /\ StepOf(b, 1) = 1 /\ StepOf(b, 2) = 3
    BY <1>4 DEF NProofs, StepOf, N
  <2>2. 1..2 = {1, 2}
    OBVIOUS
  <2>3. steps = {1, 3}
    BY <1>2, <2>1, <2>2
  <2>4. {m \in steps : m <= 1} = {1} /\ {m \in steps : m <= 3} = {1} \cup {3}
        /\ steps = {1} \cup {3}
    BY <2>3
  <2>5. Cardinality({1}) = 1 /\ Cardinality({1} \cup {3}) = 2
    <3>1. IsFiniteSet({1}) /\ Cardinality({1}) = 1 /\ 3 \notin {1}
      BY FS_Singleton
    <3> DEFINE one == {1}
    <3> HIDE DEF one
    <3>2. Cardinality(one \cup {3}) = Cardinality(one) + 1
      BY <3>1, FS_AddElement DEF one
    <3> QED BY <3>1, <3>2 DEF one
  <2>6. upto(1) = 1 /\ upto(3) = 2 /\ Cardinality(steps) = 2
    BY <2>4, <2>5
  <2> HIDE DEF upto
  <2>7. \A i \in 1..N : upto(StepOf(b, i)) = i
    BY <2>1, <2>2, <2>6
  <2> QED BY <1>3, <2>1, <2>6, <2>7 DEF N, s, steps, upto
<1>5. CASE b # "atomic_transfer"
  <2>1. \A i : StepOf(b, i) = i
    BY <1>5 DEF StepOf
  <2>2. steps = 1..N
    BY <2>1, <1>2
  <2>3. ASSUME NEW k \in 1..N
        PROVE  upto(k) = k
    <3>1. {m \in steps : m <= k} = 1..k
      BY <1>1, <2>2
    <3>2. Cardinality(1..k) = k
      BY <1>1, FS_Interval
    <3> QED BY <3>1, <3>2
  <2>4. Cardinality(steps) = N
    BY <1>1, <2>2, FS_Interval
  <2> HIDE DEF upto
  <2>5. \A i \in 1..N : Nth(steps, i) = StepOf(b, i)
    BY <1>3, <2>1, <2>3 DEF upto
  <2> QED BY <2>4, <2>5 DEF N, s, steps, upto
<1> QED BY <1>4, <1>5

(* The options that a run gets beyond: two slots, or one state, of a carrier.*)
Allowed(b, o) ==
  /\ o \in Options(b)
  /\ b = "batch" => o.a # o.b
  /\ b = "transfer_feature_v2" => o.a = o.b

Carries(list, b, o) ==
  \A i \in 1..Len(list) : /\ list[i].circuit = Made(b, o, i).circuit
                          /\ list[i].pi = Made(b, o, i).pi

(* A run has made the proofs of the steps that it is past.                 *)
RunMakes ==
  run # None /\ run.builder \in V2 =>
    /\ Allowed(run.builder, run.o)
    /\ Len(run.list) <= NProofs(run.builder)
    /\ Carries(run.list, run.builder, run.o)
    /\ \A i \in 1..NProofs(run.builder) :
         StepOf(run.builder, i) < run.at <=> i <= Len(run.list)

(* The proofs of a fixture are those of a whole run, with the options that *)
(* its directory is named by.                                              *)
MadeOf(r, b) ==
  \E o \in Options(b) : /\ Allowed(b, o) /\ r.made = Chosen(o)
                        /\ Len(r.list) = NProofs(b) /\ Carries(r.list, b, o)
FixtureMade == \A b \in Launched \cap V2 : MadeOf(fixture[b], b)

ReplayInv == RunMakes /\ FixtureMade

LEMMA DefaultAllowed ==
  ASSUME NEW b \in V2
  PROVE  \E o \in Options(b) : Allowed(b, o) /\ o.a = Default(b).a /\ o.b = Default(b).b
<1> DEFINE o == [a |-> Default(b).a, b |-> Default(b).b, flag |-> FALSE, stop |-> FALSE]
<1>1. NSlots \in Nat /\ 1 \in Slots /\ 2 \in Slots
  BY BoundsAssumption DEF Slots
<1>2. <<Default(b).a, Default(b).b>> \in OptionValues(b)
  BY <1>1 DEF Default, OptionValues, V2, Builders, V1Builders
<1>3. o \in Options(b)
  <2> DEFINE c == <<Default(b).a, Default(b).b>>
  <2>1. o = [a |-> c[1], b |-> c[2], flag |-> FALSE, stop |-> FALSE]
    OBVIOUS
  <2>2. FALSE \in {f \in BOOLEAN : f => b \in Rebuilding}
        /\ FALSE \in {f \in BOOLEAN : f => b \in Stopping}
    OBVIOUS
  <2>3. c \in OptionValues(b)
    BY <1>2
  <2> HIDE DEF o, c
  <2>4. \E e \in OptionValues(b), flag \in {f \in BOOLEAN : f => b \in Rebuilding},
           stop \in {f \in BOOLEAN : f => b \in Stopping} :
          o = [a |-> e[1], b |-> e[2], flag |-> flag, stop |-> stop]
    BY <2>1, <2>2, <2>3, Zenon
  <2> QED BY <2>4 DEF Options
<1>4. /\ b = "batch" => o.a # o.b
      /\ b = "transfer_feature_v2" => o.a = o.b
  BY DEF Default, V1Builders
<1>5. o.a = Default(b).a /\ o.b = Default(b).b
  OBVIOUS
<1> QED BY <1>3, <1>4, <1>5 DEF Allowed

LEMMA CommittedMade ==
  ASSUME NEW b \in V2
  PROVE  MadeOf(Committed(b), b)
<1> DEFINE d == Default(b)
           p == Plan(b, d)
           steps == ProofSteps(p)
           list == [i \in 1..Cardinality(steps) |-> Proven(p.script[Nth(steps, i)][2], 0, TRUE)]
<1>1. Committed(b).made = Chosen(d) /\ Committed(b).list = list
  BY DEF Committed
<1>2. PICK o \in Options(b) : Allowed(b, o) /\ o.a = d.a /\ o.b = d.b
  BY DefaultAllowed
<1>3. Plan(b, o) = p /\ Chosen(o) = Chosen(d)
  BY <1>2, SamePlan DEF Chosen
<1>4. /\ Cardinality(steps) = NProofs(b) /\ NProofs(b) \in Nat
      /\ \A i \in 1..NProofs(b) : Nth(steps, i) = StepOf(b, i)
  BY PlacesLemma, StepOfLemma
<1> HIDE DEF steps, d
<1>5. Len(list) = NProofs(b)
  BY <1>4
<1>6. ASSUME NEW i \in 1..NProofs(b)
      PROVE  list[i].circuit = Made(b, o, i).circuit /\ list[i].pi = Made(b, o, i).pi
  BY <1>3, <1>4 DEF Proven, Made
<1> HIDE DEF list, p
<1>7. Carries(list, b, o)
  BY <1>5, <1>6 DEF Carries
<1> QED BY <1>1, <1>2, <1>3, <1>5, <1>7 DEF MadeOf

LEMMA ReplayInit == Init => ReplayInv
<1> SUFFICES ASSUME Init PROVE ReplayInv
  OBVIOUS
<1>1. RunMakes
  BY DEF Init, RunMakes
<1>2. ASSUME NEW b \in Launched \cap V2
      PROVE  MadeOf(fixture[b], b)
  <2>1. fixture[b] = Committed(b)
    BY DEF Init
  <2> QED BY <2>1, CommittedMade
<1> QED BY <1>1, <1>2 DEF ReplayInv, FixtureMade

(* A proof of a script of v2 goes to the next place of the list.           *)
LEMMA ProofAdded ==
  ASSUME FixturesInv, RunMakes, ProveHere
  PROVE  RunMakes'
<1> DEFINE c == Step[2].circuit
           w == Proven(Step[2], source[c], Key(c) = source[c])
           b == run.builder
<1> SUFFICES ASSUME run' # None, run'.builder \in V2 PROVE RunMakes'
  BY DEF RunMakes
<1>1. /\ Running /\ Step[1] = "prove" /\ Advance(Append(run.list, w), toml \cup {c})
  BY DEF ProveHere, Doing, Exit
<1>2. RunShape /\ Step = ThePlan.script[run.at] /\ run.at \in 1..Len(ThePlan.script)
  BY <1>1, RunningLemma
<1> HIDE DEF w
<1>3. IsList(run.list) /\ IsList(Append(run.list, w))
  BY <1>2, AppendLemma DEF RunShape
<1>4. /\ run'.builder = b /\ run'.o = run.o /\ run'.at = run.at + 1
      /\ run'.list = Append(run.list, w)
  BY <1>1, <1>2, <1>3, AdvanceLemma
<1>5. /\ Allowed(b, run.o) /\ Len(run.list) <= NProofs(b) /\ Carries(run.list, b, run.o)
      /\ \A i \in 1..NProofs(b) : StepOf(b, i) < run.at <=> i <= Len(run.list)
      /\ b \in V2
  BY <1>1, <1>4 DEF RunMakes, Running
<1>6. Staged(b, ThePlan.script) /\ Len(ThePlan.script) \in Nat \ {0}
  BY <1>5, StagedLemma DEF ThePlan
<1>7. PICK j \in 1..NProofs(b) : run.at = StepOf(b, j)
  BY <1>1, <1>2, <1>6 DEF Staged
<1>8. /\ NProofs(b) \in Nat /\ Len(run.list) \in Nat
      /\ \A i \in 1..NProofs(b) : StepOf(b, i) \in Nat
      /\ \A i, k \in 1..NProofs(b) : i < k <=> StepOf(b, i) < StepOf(b, k)
  BY <1>3, <1>5, StepOfLemma DEF IsList
<1>9. \A i \in 1..NProofs(b) : i < j <=> i <= Len(run.list)
  BY <1>5, <1>7, <1>8
<1>10. Len(run.list) = j - 1
  <2>1. ~(j <= Len(run.list))
    BY <1>7, <1>9, <1>8
  <2>2. j - 1 <= Len(run.list)
    <3>1. CASE j = 1
      BY <1>8, <3>1
    <3>2. CASE j > 1
      <4>1. j - 1 \in 1..NProofs(b) /\ j - 1 < j
        BY <1>7, <1>8, <3>2
      <4> QED BY <1>9, <4>1
    <3> QED BY <3>1, <3>2
  <2> QED BY <1>8, <2>1, <2>2
<1>11. Len(Append(run.list, w)) = j
  BY <1>3, <1>8, <1>10, AppendLemma DEF IsList
<1>12. w.circuit = Made(b, run.o, j).circuit /\ w.pi = Made(b, run.o, j).pi
  BY <1>2, <1>7 DEF w, Proven, Made, ThePlan
<1>13. Carries(Append(run.list, w), b, run.o)
  <2> SUFFICES ASSUME NEW i \in 1..j
               PROVE  /\ Append(run.list, w)[i].circuit = Made(b, run.o, i).circuit
                      /\ Append(run.list, w)[i].pi = Made(b, run.o, i).pi
    BY <1>11 DEF Carries
  <2>1. CASE i = j
    BY <1>3, <1>8, <1>10, <1>12, <2>1, AppendLemma
  <2>2. CASE i # j
    <3>1. i \in 1..Len(run.list)
      BY <1>7, <1>8, <1>10, <2>2
    <3>2. Append(run.list, w)[i] = run.list[i]
      BY <1>3, <3>1, AppendLemma
    <3> QED BY <1>5, <3>1, <3>2 DEF Carries
  <2> QED BY <2>1, <2>2
<1>14. \A i \in 1..NProofs(b) : StepOf(b, i) < run.at + 1 <=> i <= j
  BY <1>7, <1>8
<1> QED BY <1>4, <1>5, <1>7, <1>8, <1>11, <1>13, <1>14 DEF RunMakes, Carries, Made

(* Every other step of the script leaves the list.                         *)
LEMMA ListKept ==
  ASSUME FixturesInv, RunMakes, Running, Step[1] \notin {"prove", "remote"},
         NEW tomls, Advance(run.list, tomls)
  PROVE  RunMakes'
<1> DEFINE b == run.builder
<1> SUFFICES ASSUME run' # None, run'.builder \in V2 PROVE RunMakes'
  BY DEF RunMakes
<1>1. RunShape /\ Step = ThePlan.script[run.at] /\ run.at \in 1..Len(ThePlan.script)
  BY RunningLemma
<1>2. /\ run'.builder = b /\ run'.o = run.o /\ run'.at = run.at + 1 /\ run'.list = run.list
  BY <1>1, AdvanceLemma DEF RunShape
<1>3. /\ Allowed(b, run.o) /\ Len(run.list) <= NProofs(b) /\ Carries(run.list, b, run.o)
      /\ \A i \in 1..NProofs(b) : StepOf(b, i) < run.at <=> i <= Len(run.list)
      /\ b \in V2
  BY <1>2 DEF RunMakes, Running
<1>4. Staged(b, ThePlan.script) /\ Len(ThePlan.script) \in Nat \ {0}
  BY <1>3, StagedLemma DEF ThePlan
<1>5. \A i \in 1..NProofs(b) : run.at # StepOf(b, i)
  BY <1>1, <1>4 DEF Staged
<1>6. \A i \in 1..NProofs(b) : StepOf(b, i) < run.at + 1 <=> StepOf(b, i) < run.at
  BY <1>1, <1>3, <1>4, <1>5, StepOfLemma
<1> QED BY <1>2, <1>3, <1>6 DEF RunMakes, Carries, Made

(* When the proofs are written, they are all there.                        *)
LEMMA ListComplete ==
  ASSUME FixturesInv, RunMakes, Doing("proofs"), run.builder \in V2
  PROVE  Len(run.list) = NProofs(run.builder)
<1> DEFINE b == run.builder
<1>1. RunShape /\ Step = ThePlan.script[run.at] /\ run.at \in 1..Len(ThePlan.script)
  BY RunningLemma DEF Doing
<1>2. /\ Len(run.list) <= NProofs(b)
      /\ \A i \in 1..NProofs(b) : StepOf(b, i) < run.at <=> i <= Len(run.list)
  BY DEF RunMakes, Doing, Running
<1>3. Staged(b, ThePlan.script)
  BY StagedLemma DEF ThePlan
<1>4. \A i \in 1..NProofs(b) : StepOf(b, i) < run.at
  BY <1>1, <1>3 DEF Staged, Doing
<1>5. NProofs(b) \in Nat \ {0} /\ Len(run.list) \in Nat
  BY <1>1, StepOfLemma DEF RunShape, IsList
<1> QED BY <1>2, <1>4, <1>5

LEMMA WrittenFields ==
  ASSUME FixturesInv, WriteProofs
  PROVE  \A d \in Launched :
           /\ d = run.builder => /\ fixture'[d].made = Chosen(run.o)
                                 /\ fixture'[d].list = run.list
           /\ d # run.builder => fixture'[d] = fixture[d]
<1> DEFINE b == run.builder
           r == fixture[b]
           r1 == [r EXCEPT !.made = Chosen(run.o)]
           r2 == [r1 EXCEPT !.list = run.list]
           r3 == [r2 EXCEPT !.from = run.from]
<1>1. Running /\ fixture' = [fixture EXCEPT ![b].made = Chosen(run.o), ![b].list = run.list,
                                            ![b].from = run.from]
  BY DEF WriteProofs, Doing
<1>2. b \in Launched
  BY <1>1, RunningLemma DEF RunShape
<1>3. fixture = [d \in Launched |-> fixture[d]]
      /\ r = [made |-> r.made, meta |-> r.meta, from |-> r.from, list |-> r.list]
  BY <1>2 DEF FixturesInv, FixtureInv
<1>4. fixture' = [fixture EXCEPT ![b] = r3]
  BY <1>1, <1>2, <1>3
<1>5. r1 = [made |-> Chosen(run.o), meta |-> r.meta, from |-> r.from, list |-> r.list]
  BY <1>3, FilesLemma
<1>6. r2 = [made |-> Chosen(run.o), meta |-> r.meta, from |-> r.from, list |-> run.list]
  <2> HIDE DEF r1
  <2> QED BY <1>5, FilesLemma
<1>7. r3 = [made |-> Chosen(run.o), meta |-> r.meta, from |-> run.from, list |-> run.list]
  <2> HIDE DEF r2
  <2> QED BY <1>6, FilesLemma
<1>8. r3.made = Chosen(run.o) /\ r3.list = run.list
  BY <1>7
<1> HIDE DEF r3
<1> QED BY <1>2, <1>3, <1>4, <1>8

LEMMA MetaFields ==
  ASSUME FixtureInv, NEW b, NEW m, fixture' = [fixture EXCEPT ![b].meta = m]
  PROVE  \A d \in Launched :
           fixture'[d].made = fixture[d].made /\ fixture'[d].list = fixture[d].list
<1> SUFFICES ASSUME NEW d \in Launched
             PROVE  fixture'[d].made = fixture[d].made /\ fixture'[d].list = fixture[d].list
  OBVIOUS
<1>1. fixture = [e \in Launched |-> fixture[e]]
  BY DEF FixtureInv
<1>2. fixture[d] = [made |-> fixture[d].made, meta |-> fixture[d].meta,
                    from |-> fixture[d].from, list |-> fixture[d].list]
  BY DEF FixtureInv
<1>3. fixture'[d] = IF d = b THEN [fixture[d] EXCEPT !.meta = m] ELSE fixture[d]
  BY <1>1
<1>4. [fixture[d] EXCEPT !.meta = m] = [made |-> fixture[d].made, meta |-> m,
                                        from |-> fixture[d].from, list |-> fixture[d].list]
  BY <1>2, FilesLemma
<1> QED BY <1>3, <1>4

LEMMA ReplayStep == FixturesInv /\ ReplayInv /\ [Next]_vars => ReplayInv'
<1> SUFFICES ASSUME FixturesInv, ReplayInv, [Next]_vars PROVE ReplayInv'
  OBVIOUS
<1>1. RunMakes /\ FixtureMade /\ FixtureInv
  BY DEF ReplayInv, FixturesInv
<1>2. ASSUME \A d \in Launched : /\ fixture'[d].made = fixture[d].made
                                 /\ fixture'[d].list = fixture[d].list
      PROVE  FixtureMade'
  <2> SUFFICES ASSUME NEW d \in Launched \cap V2 PROVE MadeOf(fixture[d], d)'
    BY DEF FixtureMade
  <2>1. MadeOf(fixture[d], d)
    BY <1>1 DEF FixtureMade
  <2> QED BY <1>2, <2>1 DEF MadeOf, Carries, Made
<1>3. UNCHANGED run => RunMakes'
  BY <1>1 DEF RunMakes, Carries, Made
<1>4. run' = None => RunMakes'
  BY DEF RunMakes
<1>5. UNCHANGED fixture => FixtureMade'
  BY <1>2
<1>6. ASSUME NEW c \in Edited, EditCircuit(c)
      PROVE  ReplayInv'
  BY <1>3, <1>5, <1>6 DEF EditCircuit, ReplayInv
<1>7. ASSUME NEW b \in Launched, NEW o \in Options(b), Launch(b, o)
      PROVE  ReplayInv'
  <2>1. UNCHANGED fixture
    BY <1>7 DEF Launch
  <2>2. ASSUME run' # None, run'.builder \in V2
        PROVE  RunMakes'
    <3>1. Admitted(b, o) /\ run'.builder = b /\ run'.o = o /\ run'.at = 1 /\ run'.list = <<>>
      BY <1>7, <2>2 DEF Launch
    <3>2. Allowed(b, o)
      BY <1>7, <3>1 DEF Admitted, Allowed
    <3>3. \A i \in 1..NProofs(b) : ~(StepOf(b, i) < 1) /\ ~(i <= 0)
      BY <2>2, <3>1, StepOfLemma
    <3>4. NProofs(b) \in Nat
      BY <2>2, <3>1, StepOfLemma
    <3>5. Len(<<>>) = 0
      OBVIOUS
    <3> QED BY <3>1, <3>2, <3>3, <3>4, <3>5 DEF RunMakes, Carries
  <2> QED BY <1>5, <2>1, <2>2 DEF ReplayInv, RunMakes
<1>8. CASE ProveHere
  BY <1>1, <1>5, <1>8, ProofAdded DEF ReplayInv, ProveHere
<1>9. CASE StopEarly
  <2>1. /\ run' = None
        /\ \/ fixture' = fixture
           \/ fixture' = [fixture EXCEPT ![run.builder].meta = Chosen(run.o)]
    BY <1>9 DEF StopEarly, Exit
  <2>2. FixtureMade'
    BY <1>1, <1>2, <1>5, <2>1, MetaFields
  <2> QED BY <1>4, <2>1, <2>2 DEF ReplayInv
<1>10. CASE WriteVerifier
  BY <1>1, <1>5, <1>10, ListKept DEF ReplayInv, WriteVerifier, Doing
<1>11. CASE WriteProofs
  <2>1. RunMakes'
    BY <1>1, <1>11, ListKept DEF WriteProofs, Doing
  <2>2. ASSUME NEW d \in Launched \cap V2
        PROVE  MadeOf(fixture[d], d)'
    <3>1. CASE d # run.builder
      <4>1. fixture'[d] = fixture[d] /\ MadeOf(fixture[d], d)
        BY <1>1, <1>11, <3>1, WrittenFields DEF FixtureMade
      <4> QED BY <4>1 DEF MadeOf, Carries, Made
    <3>2. CASE d = run.builder
      <4>1. fixture'[d].made = Chosen(run.o) /\ fixture'[d].list = run.list
        BY <1>11, <3>2, WrittenFields
      <4>2. Allowed(d, run.o) /\ Carries(run.list, d, run.o) /\ run.o \in Options(d)
        BY <1>1, <1>11, <3>2 DEF RunMakes, WriteProofs, Doing, Running, Allowed
      <4>3. Len(run.list) = NProofs(d)
        BY <1>1, <1>11, <3>2, ListComplete DEF WriteProofs
      <4> QED BY <4>1, <4>2, <4>3 DEF MadeOf, Carries, Made
    <3> QED BY <3>1, <3>2
  <2> QED BY <2>1, <2>2 DEF ReplayInv, FixtureMade
<1>12. CASE WriteMeta
  <2>1. /\ Running /\ Step[1] = "meta" /\ Advance(run.list, toml)
        /\ fixture' = [fixture EXCEPT ![run.builder].meta = Chosen(run.o)]
    BY <1>12 DEF WriteMeta, Doing
  <2>2. FixtureMade'
    BY <1>1, <1>2, <2>1, MetaFields
  <2> QED BY <1>1, <2>1, <2>2, ListKept DEF ReplayInv
<1>13. CASE DecodeMint \/ Fail
  BY <1>4, <1>5, <1>13 DEF ReplayInv, DecodeMint, Fail, Exit
<1>14. ASSUME NEW executed, ProveThere(executed)
       PROVE  ReplayInv'
  <2>1. RunShape /\ run.builder \in Remote /\ UNCHANGED fixture
    BY <1>14, RunningLemma DEF ProveThere, Doing
  <2>2. ASSUME run' # None
        PROVE  run'.builder = run.builder
    <3>1. PICK w : Advance(Append(run.list, w), toml \cup {Step[2].circuit})
      BY <1>14, <2>2 DEF ProveThere, Exit
    <3>2. IsList(Append(run.list, w))
      BY <2>1, AppendLemma DEF RunShape
    <3> QED BY <2>1, <2>2, <3>1, <3>2, AdvanceLemma
  <2>3. Remote \cap V2 = {}
    BY DEF Remote, V2, V1Builders
  <2> QED BY <1>5, <2>1, <2>2, <2>3 DEF ReplayInv, RunMakes
<1>15. CASE UNCHANGED vars
  BY <1>3, <1>5, <1>15 DEF vars, ReplayInv
<1> QED BY <1>6, <1>7, <1>8, <1>9, <1>10, <1>11, <1>12, <1>13, <1>14, <1>15 DEF Next

--------------------------------------------------------------------------------
(* A set of numbers that has 0, and n + 1 with n, has them all.            *)
LEMMA SetInduction ==
  ASSUME NEW S, 0 \in S, \A n \in Nat : n \in S => n + 1 \in S
  PROVE  \A n \in Nat : n \in S
<1> DEFINE R == {ss \in Nat \X Nat : ss[1] < ss[2]}
           T == {n \in Nat : n \notin S}
<1>1. IsWellFoundedOn(R, Nat)
  BY NatLessThanWellFounded DEF OpToRel
<1> SUFFICES ASSUME T # {} PROVE FALSE
  OBVIOUS
<1>2. \A x, y \in Nat : y < x => <<y, x>> \in R
  OBVIOUS
<1>3. T \subseteq Nat
  OBVIOUS
<1> HIDE DEF R
<1>4. PICK m \in T : \A y \in T : ~(<<y, m>> \in R)
  <2> HIDE DEF T
  <2> QED BY <1>1, <1>3, WFMin
<1>5. m # 0 /\ m \in Nat /\ m - 1 \in Nat /\ m - 1 < m /\ m - 1 + 1 = m
  OBVIOUS
<1>6. m - 1 \in S
  BY <1>2, <1>4, <1>5
<1> QED BY <1>4, <1>5, <1>6

(* One call of the test: an extraction without a proof, or a proof applied.*)
Call(p, chosen, list, n, st) ==
  IF p.order[n] = 0 THEN Extracted(chosen[1], st) ELSE Apply(list[p.order[n]], st)

Replays(after, n, p, chosen, list) ==
  /\ after[0] = p.start
  /\ \A m \in 1..n : after[m] = Call(p, chosen, list, m, after[m - 1])

LEMMA ReplayExists ==
  ASSUME NEW p, NEW chosen, NEW list
  PROVE  \A n \in Nat :
           \E after : after = [m \in 0..n |-> after[m]] /\ Replays(after, n, p, chosen, list)
<1> DEFINE Good(n) == \E after : after = [m \in 0..n |-> after[m]]
                                 /\ Replays(after, n, p, chosen, list)
           S == {n \in Nat : Good(n)}
<1>1. 0 \in S
  <2> DEFINE f == [m \in 0..0 |-> p.start]
  <2>1. f = [m \in 0..0 |-> f[m]] /\ Replays(f, 0, p, chosen, list)
    BY DEF Replays
  <2> HIDE DEF f
  <2> QED BY <2>1
<1>2. ASSUME NEW n \in Nat, n \in S
      PROVE  n + 1 \in S
  <2>1. PICK f : f = [m \in 0..n |-> f[m]] /\ Replays(f, n, p, chosen, list)
    BY <1>2
  <2> DEFINE g == [m \in 0..n + 1 |-> IF m = n + 1 THEN Call(p, chosen, list, m, f[n]) ELSE f[m]]
  <2>2. /\ g[0] = f[0] /\ g[n + 1] = Call(p, chosen, list, n + 1, f[n])
        /\ \A m \in 0..n : g[m] = f[m]
        /\ g = [m \in 0..n + 1 |-> g[m]]
    OBVIOUS
  <2> HIDE DEF g
  <2>3. ASSUME NEW m \in 1..n + 1
        PROVE  g[m] = Call(p, chosen, list, m, g[m - 1])
    <3>1. CASE m = n + 1
      <4>1. m - 1 = n /\ n \in 0..n
        BY <3>1
      <4> QED BY <2>2, <3>1, <4>1
    <3>2. CASE m # n + 1
      <4>1. m \in 1..n /\ m \in 0..n /\ m - 1 \in 0..n
        BY <3>2
      <4>2. f[m] = Call(p, chosen, list, m, f[m - 1])
        BY <2>1, <4>1 DEF Replays
      <4> QED BY <2>2, <4>1, <4>2
    <3> QED BY <3>1, <3>2
  <2>4. Replays(g, n + 1, p, chosen, list)
    BY <2>1, <2>2, <2>3 DEF Replays
  <2> QED BY <2>2, <2>4
<1> HIDE DEF S
<1>3. \A n \in Nat : n \in S
  BY <1>1, <1>2, SetInduction
<1> QED BY <1>3 DEF S

(* The replay of a fixture, call by call.                                  *)
LEMMA ReplayUnfolds ==
  ASSUME NEW b, NEW chosen, NEW list,
         NEW q, q = Plan(b, [a |-> chosen[1], b |-> chosen[2], flag |-> FALSE, stop |-> FALSE]),
         Len(q.order) \in Nat
  PROVE  \E after : /\ Replays(after, Len(q.order), q, chosen, list)
                    /\ Replayed(b, chosen, list) = after[Len(q.order)]
<1> DEFINE p == Plan(b, [a |-> chosen[1], b |-> chosen[2], flag |-> FALSE, stop |-> FALSE])
           N == Len(p.order)
           Is(h) == h = [n \in 0..N |->
                           IF n = 0 THEN p.start
                           ELSE IF p.order[n] = 0 THEN Extracted(chosen[1], h[n - 1])
                           ELSE Apply(list[p.order[n]], h[n - 1])]
           f == CHOOSE h : Is(h)
<1>1. PICK g : g = [m \in 0..N |-> g[m]] /\ Replays(g, N, p, chosen, list)
  BY ReplayExists
<1>2. \A n \in 0..N : g[n] = IF n = 0 THEN p.start
                             ELSE IF p.order[n] = 0 THEN Extracted(chosen[1], g[n - 1])
                             ELSE Apply(list[p.order[n]], g[n - 1])
  <2> SUFFICES ASSUME NEW n \in 0..N
               PROVE  g[n] = IF n = 0 THEN p.start
                             ELSE IF p.order[n] = 0 THEN Extracted(chosen[1], g[n - 1])
                             ELSE Apply(list[p.order[n]], g[n - 1])
    OBVIOUS
  <2>1. n # 0 => n \in 1..N
    OBVIOUS
  <2> QED BY <1>1, <2>1 DEF Replays, Call
<1>3. Is(f)
  <2>1. Is(g)
    <3> HIDE DEF N
    <3> QED BY <1>1, <1>2
  <2> HIDE DEF Is
  <2> QED BY <2>1
<1>4. Replayed(b, chosen, list) = f[N]
  BY DEF Replayed
<1> HIDE DEF f, p
<1>5. \A n \in 0..N : f[n] = IF n = 0 THEN p.start
                             ELSE IF p.order[n] = 0 THEN Extracted(chosen[1], f[n - 1])
                             ELSE Apply(list[p.order[n]], f[n - 1])
  <2> HIDE DEF N
  <2> QED BY <1>3
<1>6. Replays(f, N, p, chosen, list)
  <2>1. f[0] = p.start
    BY <1>5
  <2>2. ASSUME NEW m \in 1..N
        PROVE  f[m] = Call(p, chosen, list, m, f[m - 1])
    <3>1. m \in 0..N /\ m # 0
      OBVIOUS
    <3> HIDE DEF N
    <3> QED BY <1>5, <3>1 DEF Call
  <2> QED BY <2>1, <2>2 DEF Replays
<1> QED BY <1>4, <1>6 DEF p

(* What one proof does to a state that it meets.                           *)
At(st, lsh, z) == st.lsh = lsh /\ st.z = z /\ st.ok = TRUE

LEMMA ThenLemma ==
  ASSUME NEW st, NEW lsh, NEW z, NEW ok \in BOOLEAN, ok, st.ok = TRUE
  PROVE  At(Then(st, lsh, z, ok), lsh, z)
<1> DEFINE r == Then(st, lsh, z, ok)
<1>1. ok = TRUE
  OBVIOUS
<1>2. r.lsh = lsh /\ r.z = z
  BY DEF Then
<1>3. r.ok = (st.ok /\ ok)
  BY DEF Then
<1>4. r.ok = TRUE
  BY <1>1, <1>3
<1> HIDE DEF r
<1>5. At(r, lsh, z)
  BY <1>2, <1>4 DEF At
<1> QED BY <1>5 DEF r

LEMMA MutateCall ==
  ASSUME NEW w, NEW st, NEW lsh, NEW z, NEW slot, NEW n \in Nat \ {0},
         At(st, lsh, z), lsh[slot] = n,
         w.circuit = MutateWitness(slot, n).circuit, w.pi = MutateWitness(slot, n).pi
  PROVE  At(Apply(w, st), Put(lsh, slot, n + 1), z)
<1> DEFINE e == w.pi[2] # 0 /\ st.lsh[w.pi[1]] = w.pi[2]
<1>1. w.circuit = "mutate_slot" /\ w.pi[1] = slot /\ w.pi[2] = n /\ w.pi[3] = n + 1
  BY DEF MutateWitness
<1>2. Apply(w, st) = Then(st, Put(st.lsh, w.pi[1], w.pi[3]), st.z, e)
  BY <1>1 DEF Apply
<1>3. st.lsh = lsh /\ st.z = z /\ st.ok = TRUE
  BY DEF At
<1>4. e \in BOOLEAN /\ e
  BY <1>1, <1>3
<1> HIDE DEF e
<1>5. Apply(w, st) = Then(st, Put(lsh, slot, n + 1), z, e)
  BY <1>1, <1>2, <1>3
<1> QED BY <1>3, <1>4, <1>5, ThenLemma

LEMMA T10Call ==
  ASSUME NEW w, NEW st, NEW lsh, NEW z, At(st, lsh, z),
         w.circuit = T10Witness(lsh, z).circuit, w.pi = T10Witness(lsh, z).pi
  PROVE  At(Apply(w, st), lsh, z)
<1> DEFINE e == w.pi = st.lsh \o <<st.z>>
<1>1. w.circuit = "shadow_t10" /\ w.pi = lsh \o <<z>>
  BY DEF T10Witness
<1>2. Apply(w, st) = Then(st, st.lsh, st.z, e)
  BY <1>1 DEF Apply
<1>3. st.lsh = lsh /\ st.z = z /\ st.ok = TRUE
  BY DEF At
<1>4. e \in BOOLEAN /\ e
  BY <1>1, <1>3
<1> HIDE DEF e
<1>5. Apply(w, st) = Then(st, lsh, z, e)
  BY <1>1, <1>2, <1>3
<1> QED BY <1>3, <1>4, <1>5, ThenLemma

LEMMA SolveCall ==
  ASSUME NEW w, NEW st, NEW lsh, NEW z, At(st, lsh, z),
         w.circuit = SolveWitness(lsh, z).circuit, w.pi = SolveWitness(lsh, z).pi
  PROVE  At(Apply(w, st), Only({}, 0), z)
<1> DEFINE e == w.pi = st.lsh \o <<st.z>>
<1>1. w.circuit = "solve_shadow_v2" /\ w.pi = lsh \o <<z>>
  BY DEF SolveWitness
<1>2. Apply(w, st) = Then(st, Only({}, 0), st.z, e)
  BY <1>1 DEF Apply
<1>3. st.lsh = lsh /\ st.z = z /\ st.ok = TRUE
  BY DEF At
<1>4. e \in BOOLEAN /\ e
  BY <1>1, <1>3
<1> HIDE DEF e
<1>5. Apply(w, st) = Then(st, Only({}, 0), z, e)
  BY <1>1, <1>2, <1>3
<1> QED BY <1>3, <1>4, <1>5, ThenLemma

LEMMA FeatureCall ==
  ASSUME NEW w, NEW st, NEW lsh, NEW z, NEW n, At(st, lsh, z), lsh[1] = n,
         w.circuit = FeatureWitness(n).circuit, w.pi = FeatureWitness(n).pi
  PROVE  At(Apply(w, st), Put(lsh, 1, n + 1), z)
<1> DEFINE e == st.lsh[1] = w.pi[1]
<1>1. w.circuit = "transfer_feature_v2" /\ w.pi[1] = n /\ w.pi[2] = n + 1
  BY DEF FeatureWitness
<1>2. Apply(w, st) = Then(st, Put(st.lsh, 1, w.pi[2]), st.z, e)
  BY <1>1 DEF Apply
<1>3. st.lsh = lsh /\ st.z = z /\ st.ok = TRUE
  BY DEF At
<1>4. e \in BOOLEAN /\ e
  BY <1>1, <1>3
<1> HIDE DEF e
<1>5. Apply(w, st) = Then(st, Put(lsh, 1, n + 1), z, e)
  BY <1>1, <1>2, <1>3
<1> QED BY <1>3, <1>4, <1>5, ThenLemma

LEMMA ZIndexCall ==
  ASSUME NEW w, NEW st, NEW lsh, NEW z, NEW y, At(st, lsh, z),
         w.circuit = ZIndexWitness(y).circuit, w.pi = ZIndexWitness(y).pi
  PROVE  At(Apply(w, st), lsh, y)
<1>1. w.circuit = "zindex_commit" /\ w.pi[1] = y
  BY DEF ZIndexWitness
<1>2. Apply(w, st) = Then(st, lsh, y, TRUE)
  BY <1>1 DEF Apply, At
<1>3. st.ok = TRUE
  BY DEF At
<1> QED BY <1>2, <1>3, ThenLemma

LEMMA ExtractCall ==
  ASSUME NEW st, NEW lsh, NEW z, NEW slot, At(st, lsh, z), lsh[slot] # 0
  PROVE  At(Extracted(slot, st), Put(lsh, slot, 0), z)
<1> DEFINE e == st.lsh[slot] # 0
<1>1. Extracted(slot, st) = Then(st, Put(lsh, slot, 0), z, e)
  BY DEF Extracted, At
<1>2. e \in BOOLEAN /\ e
  BY DEF At
<1>3. st.ok = TRUE
  BY DEF At
<1> HIDE DEF e
<1> QED BY <1>1, <1>2, <1>3, ThenLemma

(* The public inputs of a transfer are the old states and then the new.    *)
Again(lsh) == [i \in Slots |-> IF lsh[i] = 0 THEN 0 ELSE lsh[i] + 1]

LEMMA TransferHalves ==
  ASSUME NEW lsh \in [Slots -> Nat]
  PROVE  LET pi == TransferWitness(lsh).pi
         IN /\ SubSeq(pi, 1, NSlots) = lsh
            /\ SubSeq(pi, NSlots + 1, 2 * NSlots) = Again(lsh)
<1> DEFINE u == lsh
           v == Again(lsh)
           pi == u \o v
           N == NSlots
<1>1. TransferWitness(lsh).pi = pi
  BY DEF TransferWitness, Again
<1>2. N \in Nat /\ N >= 2 /\ Slots = 1..N
  BY BoundsAssumption DEF Slots
<1>3. v \in [1..N -> Nat] /\ u \in [1..N -> Nat]
  BY <1>2 DEF Again
<1> HIDE DEF u, v, N
<1>4. u \in Seq(Nat) /\ v \in Seq(Nat) /\ Len(u) = N /\ Len(v) = N
  BY <1>2, <1>3
<1>5. /\ \A i \in 1..N : pi[i] = u[i]
      /\ \A i \in 1..N : pi[N + i] = v[i]
  <2>1. \A i \in 1..Len(u) + Len(v) : pi[i] = IF i <= Len(u) THEN u[i] ELSE v[i - Len(u)]
    BY <1>4, ConcatProperties, Zenon
  <2> HIDE DEF pi
  <2>2. \A i \in 1..N + N : pi[i] = IF i <= N THEN u[i] ELSE v[i - N]
    BY <1>4, <2>1
  <2>3. ASSUME NEW i \in 1..N
        PROVE  /\ i \in 1..N + N /\ i <= N
               /\ N + i \in 1..N + N /\ ~(N + i <= N) /\ (N + i) - N = i
    BY <1>2
  <2> QED BY <2>2, <2>3
<1> HIDE DEF pi
<1>6. SubSeq(pi, 1, N) = u
  <2> DEFINE t == SubSeq(pi, 1, N)
  <2>1. \A i \in 1..N : pi[i] \in Nat
    BY <1>3, <1>5
  <2>2. /\ t \in Seq(Nat) /\ Len(t) = N
        /\ \A i \in 1..N : t[i] = pi[i]
    <3>1. /\ t \in Seq(Nat)
          /\ Len(t) = IF 1 <= N THEN N - 1 + 1 ELSE 0
          /\ \A i \in 1..N - 1 + 1 : t[i] = pi[1 + i - 1]
      BY <1>2, <2>1, SubSeqProperties
    <3>2. N - 1 + 1 = N /\ \A i \in 1..N : 1 + i - 1 = i
      BY <1>2
    <3> QED BY <1>2, <3>1, <3>2
  <2> HIDE DEF t
  <2>3. t \in [1..N -> Nat] /\ \A i \in 1..N : t[i] = u[i]
    BY <1>5, <2>2
  <2>4. t = [i \in 1..N |-> t[i]] /\ u = [i \in 1..N |-> u[i]]
    BY <1>3, <2>3
  <2>5. t = u
    BY <2>3, <2>4
  <2> QED BY <2>5 DEF t
<1>7. SubSeq(pi, N + 1, 2 * N) = v
  <2> DEFINE t == SubSeq(pi, N + 1, 2 * N)
  <2>1. \A i \in N + 1..2 * N : pi[i] \in Nat
    <3>1. \A i \in N + 1..2 * N : i - N \in 1..N /\ N + (i - N) = i
      BY <1>2
    <3> QED BY <1>3, <1>5, <3>1
  <2>2. /\ t \in Seq(Nat) /\ Len(t) = N
        /\ \A i \in 1..N : t[i] = pi[N + i]
    <3>1. /\ t \in Seq(Nat)
          /\ Len(t) = IF N + 1 <= 2 * N THEN 2 * N - (N + 1) + 1 ELSE 0
          /\ \A i \in 1..2 * N - (N + 1) + 1 : t[i] = pi[N + 1 + i - 1]
      BY <1>2, <2>1, SubSeqProperties
    <3>2. /\ 2 * N - (N + 1) + 1 = N /\ N + 1 <= 2 * N
          /\ \A i \in 1..N : N + 1 + i - 1 = N + i
      BY <1>2
    <3> QED BY <3>1, <3>2
  <2> HIDE DEF t
  <2>3. t \in [1..N -> Nat] /\ \A i \in 1..N : t[i] = v[i]
    BY <1>5, <2>2
  <2>4. t = [i \in 1..N |-> t[i]] /\ v = [i \in 1..N |-> v[i]]
    BY <1>3, <2>3
  <2>5. t = v
    BY <2>3, <2>4
  <2> QED BY <2>5 DEF t
<1> QED BY <1>1, <1>6, <1>7 DEF u, v, N

LEMMA TransferCall ==
  ASSUME NEW w, NEW st, NEW lsh, NEW z, At(st, lsh, z), lsh \in [Slots -> Nat],
         w.circuit = TransferWitness(lsh).circuit, w.pi = TransferWitness(lsh).pi
  PROVE  At(Apply(w, st), Again(lsh), z)
<1> DEFINE e == SubSeq(w.pi, 1, NSlots) = st.lsh
<1>1. w.circuit = "transfer_shadow_v2"
  BY DEF TransferWitness
<1>2. Apply(w, st) = Then(st, SubSeq(w.pi, NSlots + 1, 2 * NSlots), st.z, e)
  BY <1>1 DEF Apply
<1>3. st.lsh = lsh /\ st.z = z /\ st.ok = TRUE
  BY DEF At
<1>6. SubSeq(w.pi, NSlots + 1, 2 * NSlots) = Again(lsh) /\ SubSeq(w.pi, 1, NSlots) = lsh
  BY TransferHalves
<1>4. e \in BOOLEAN /\ e
  BY <1>3, <1>6
<1> HIDE DEF e
<1>5. Apply(w, st) = Then(st, Again(lsh), z, e)
  BY <1>2, <1>3, <1>6
<1> QED BY <1>3, <1>4, <1>5, ThenLemma

(* A list of proofs that a builder of v2 makes of options it lets through. *)
Faithful(list, b, o) ==
  b \in V2 /\ Allowed(b, o) /\ Len(list) = NProofs(b) /\ Carries(list, b, o)

(* A proof of the list, as the circuit and public inputs of its witness.   *)
Is(proof, w) == proof.circuit = w.circuit /\ proof.pi = w.pi

LEMMA FaithfulLemma ==
  ASSUME NEW b, NEW o, NEW list, Faithful(list, b, o), NEW n, NProofs(b) = n
  PROVE  \A i \in 1..n : Is(list[i], Plan(b, o).script[StepOf(b, i)][2])
BY DEF Faithful, Carries, Is, Made

(* The states that the calls of a test go through.                         *)
Course(after, b, o, list, lsh, z) ==
  LET order == Plan(b, o).order
  IN /\ At(after[0], lsh, z)
     /\ \A m \in 1..Len(order) :
          after[m] = Call(Plan(b, o), Chosen(o), list, m, after[m - 1])
     /\ Replayed(b, Chosen(o), list) = after[Len(order)]

LEMMA CallsLemma ==
  ASSUME NEW b \in V2, NEW o, NEW list, NEW lsh, NEW z,
         NEW p, p = Plan(b, o), Len(p.order) \in Nat, p.start = Start(lsh, z)
  PROVE  \E after : Course(after, b, o, list, lsh, z)
<1> DEFINE u == [a |-> Chosen(o)[1], b |-> Chosen(o)[2], flag |-> FALSE, stop |-> FALSE]
<1>1. u.a = o.a /\ u.b = o.b
  BY DEF Chosen
<1>2. p = Plan(b, u)
  <2> HIDE DEF u
  <2> QED BY <1>1, SamePlan
<1>3. PICK after : /\ Replays(after, Len(p.order), p, Chosen(o), list)
                   /\ Replayed(b, Chosen(o), list) = after[Len(p.order)]
  BY <1>2, ReplayUnfolds
<1>4. At(after[0], lsh, z)
  <2>1. after[0] = Start(lsh, z)
    BY <1>3 DEF Replays
  <2> QED BY <2>1 DEF At, Start
<1>5. \A m \in 1..Len(p.order) : after[m] = Call(p, Chosen(o), list, m, after[m - 1])
  BY <1>3 DEF Replays
<1> QED BY <1>3, <1>4, <1>5 DEF Course

(* The tests that submit one proof, and those that submit two in order.    *)
LEMMA OneCall ==
  ASSUME NEW b \in V2, NEW o, NEW list, NEW lsh, NEW z,
         NEW p, p = Plan(b, o), p.order = << 1 >>, p.start = Start(lsh, z)
  PROVE  \E st : At(st, lsh, z) /\ Replayed(b, Chosen(o), list) = Apply(list[1], st)
<1>1. Len(p.order) = 1 /\ p.order[1] = 1 /\ 1 \in Nat
  OBVIOUS
<1>2. PICK after : Course(after, b, o, list, lsh, z)
  <2>1. Len(p.order) \in Nat
    BY <1>1
  <2> QED BY <2>1, CallsLemma
<1>3. after[1] = Call(p, Chosen(o), list, 1, after[0])
  BY <1>1, <1>2 DEF Course
<1>4. after[1] = Apply(list[1], after[0])
  BY <1>1, <1>3 DEF Call
<1> QED BY <1>1, <1>2, <1>4 DEF Course

LEMMA TwoCalls ==
  ASSUME NEW b \in V2, NEW o, NEW list, NEW lsh, NEW z,
         NEW p, p = Plan(b, o), p.order = << 1, 2 >>, p.start = Start(lsh, z)
  PROVE  \E st : /\ At(st, lsh, z)
                 /\ Replayed(b, Chosen(o), list) = Apply(list[2], Apply(list[1], st))
<1>1. Len(p.order) = 2 /\ p.order[1] = 1 /\ p.order[2] = 2 /\ 2 \in Nat
  OBVIOUS
<1>2. PICK after : Course(after, b, o, list, lsh, z)
  <2>1. Len(p.order) \in Nat
    BY <1>1
  <2> QED BY <2>1, CallsLemma
<1>3. /\ after[1] = Call(p, Chosen(o), list, 1, after[0])
      /\ after[2] = Call(p, Chosen(o), list, 2, after[1])
  BY <1>1, <1>2 DEF Course
<1>4. after[1] = Apply(list[1], after[0]) /\ after[2] = Apply(list[2], after[1])
  BY <1>1, <1>3 DEF Call
<1> QED BY <1>1, <1>2, <1>4 DEF Course

LEMMA ReplayMutate ==
  ASSUME NEW o, NEW list, Faithful(list, "mutate_slot", o)
  PROVE  Replayed("mutate_slot", Chosen(o), list).ok
<1> DEFINE b == "mutate_slot"
           p == MutateSlot(o)
           lsh == Only({1}, Minted)
<1>1. Plan(b, o) = p /\ NProofs(b) = 1 /\ StepOf(b, 1) = 1 /\ b \in V2
  BY DEF Plan, NProofs, StepOf, V2, Builders, V1Builders
<1>2. p.order = << 1 >> /\ p.start = Start(lsh, 0)
      /\ p.script[1][2] = MutateWitness(1, Minted)
  BY DEF MutateSlot, Prove
<1>3. lsh[1] = Minted /\ Minted \in Nat \ {0}
  BY BoundsAssumption DEF Only, Minted, Slots
<1> HIDE DEF p, lsh, b
<1>4. Is(list[1], MutateWitness(1, Minted))
  BY <1>1, <1>2, FaithfulLemma DEF b
<1>5. PICK st : At(st, lsh, 0) /\ Replayed(b, Chosen(o), list) = Apply(list[1], st)
  BY <1>1, <1>2, OneCall
<1>6. At(Apply(list[1], st), Put(lsh, 1, Minted + 1), 0)
  BY <1>3, <1>4, <1>5, MutateCall DEF Is
<1> QED BY <1>5, <1>6 DEF At, b

LEMMA ReplayZIndex ==
  ASSUME NEW o, NEW list, Faithful(list, "zindex_commit", o)
  PROVE  Replayed("zindex_commit", Chosen(o), list).ok
<1> DEFINE b == "zindex_commit"
           p == ZIndexCommit(o)
           lsh == Only({1}, Minted)
<1>1. Plan(b, o) = p /\ NProofs(b) = 1 /\ StepOf(b, 1) = 1 /\ b \in V2
  BY DEF Plan, NProofs, StepOf, V2, Builders, V1Builders
<1>2. p.order = << 1 >> /\ p.start = Start(lsh, 0) /\ p.script[1][2] = ZIndexWitness(1)
  BY DEF ZIndexCommit, Prove
<1> HIDE DEF p, lsh, b
<1>3. Is(list[1], ZIndexWitness(1))
  BY <1>1, <1>2, FaithfulLemma DEF b
<1>4. PICK st : At(st, lsh, 0) /\ Replayed(b, Chosen(o), list) = Apply(list[1], st)
  BY <1>1, <1>2, OneCall
<1>5. At(Apply(list[1], st), lsh, 1)
  BY <1>3, <1>4, ZIndexCall DEF Is
<1> QED BY <1>4, <1>5 DEF At, b

LEMMA ReplayT10 ==
  ASSUME NEW o, NEW list, Faithful(list, "shadow_t10", o)
  PROVE  Replayed("shadow_t10", Chosen(o), list).ok
<1> DEFINE b == "shadow_t10"
           p == ShadowT10(o)
           lsh == Only(Slots, Minted)
<1>1. Plan(b, o) = p /\ NProofs(b) = 1 /\ StepOf(b, 1) = 1 /\ b \in V2
  BY DEF Plan, NProofs, StepOf, V2, Builders, V1Builders
<1>2. p.order = << 1 >> /\ p.start = Start(lsh, 1) /\ p.script[1][2] = T10Witness(lsh, 1)
  BY DEF ShadowT10, Prove
<1> HIDE DEF p, lsh, b
<1>3. Is(list[1], T10Witness(lsh, 1))
  BY <1>1, <1>2, FaithfulLemma DEF b
<1>4. PICK st : At(st, lsh, 1) /\ Replayed(b, Chosen(o), list) = Apply(list[1], st)
  BY <1>1, <1>2, OneCall
<1>5. At(Apply(list[1], st), lsh, 1)
  BY <1>3, <1>4, T10Call DEF Is
<1> QED BY <1>4, <1>5 DEF At, b

LEMMA ReplaySolve ==
  ASSUME NEW o, NEW list, Faithful(list, "solve_shadow_v2", o)
  PROVE  Replayed("solve_shadow_v2", Chosen(o), list).ok
<1> DEFINE b == "solve_shadow_v2"
           p == SolveShadowV2(o)
           lsh == Only(1..o.a, Minted)
<1>1. Plan(b, o) = p /\ NProofs(b) = 1 /\ StepOf(b, 1) = 1 /\ b \in V2
  BY DEF Plan, NProofs, StepOf, V2, Builders, V1Builders
<1>2. p.order = << 1 >> /\ p.start = Start(lsh, 1) /\ p.script[1][2] = SolveWitness(lsh, 1)
  BY DEF SolveShadowV2, Prove
<1> HIDE DEF p, lsh, b
<1>3. Is(list[1], SolveWitness(lsh, 1))
  BY <1>1, <1>2, FaithfulLemma DEF b
<1>4. PICK st : At(st, lsh, 1) /\ Replayed(b, Chosen(o), list) = Apply(list[1], st)
  BY <1>1, <1>2, OneCall
<1>5. At(Apply(list[1], st), Only({}, 0), 1)
  BY <1>3, <1>4, SolveCall DEF Is
<1> QED BY <1>4, <1>5 DEF At, b

LEMMA ReplayTransfer ==
  ASSUME NEW o, NEW list, Faithful(list, "transfer_shadow_v2", o)
  PROVE  Replayed("transfer_shadow_v2", Chosen(o), list).ok
<1> DEFINE b == "transfer_shadow_v2"
           p == TransferShadowV2(o)
           lsh == Only(1..o.a, Minted)
<1>1. Plan(b, o) = p /\ NProofs(b) = 1 /\ StepOf(b, 1) = 1 /\ b \in V2
  BY DEF Plan, NProofs, StepOf, V2, Builders, V1Builders
<1>2. p.order = << 1 >> /\ p.start = Start(lsh, 0) /\ p.script[1][2] = TransferWitness(lsh)
  BY DEF TransferShadowV2, Prove
<1>3. lsh \in [Slots -> Nat]
  BY DEF Only, Minted
<1> HIDE DEF p, lsh, b
<1>4. Is(list[1], TransferWitness(lsh))
  BY <1>1, <1>2, FaithfulLemma DEF b
<1>5. PICK st : At(st, lsh, 0) /\ Replayed(b, Chosen(o), list) = Apply(list[1], st)
  BY <1>1, <1>2, OneCall
<1>6. At(Apply(list[1], st), Again(lsh), 0)
  BY <1>3, <1>4, <1>5, TransferCall DEF Is
<1> QED BY <1>5, <1>6 DEF At, b

(* The carrier's checkpoint on chain is the state the proof starts from:   *)
(* the builder refuses the other choice.                                   *)
LEMMA ReplayFeature ==
  ASSUME NEW o, NEW list, Faithful(list, "transfer_feature_v2", o)
  PROVE  Replayed("transfer_feature_v2", Chosen(o), list).ok
<1> DEFINE b == "transfer_feature_v2"
           p == TransferFeatureV2(o)
           lsh == Only({1}, o.b)
<1>1. Plan(b, o) = p /\ NProofs(b) = 1 /\ StepOf(b, 1) = 1 /\ b \in V2
  BY DEF Plan, NProofs, StepOf, V2, Builders, V1Builders
<1>2. p.order = << 1 >> /\ p.start = Start(lsh, 0) /\ p.script[1][2] = FeatureWitness(o.a)
  BY DEF TransferFeatureV2, Prove
<1>3. lsh[1] = o.a
  <2>1. o.a = o.b
    BY DEF Faithful, Allowed
  <2> QED BY <2>1, BoundsAssumption DEF Only, Slots
<1> HIDE DEF p, lsh, b
<1>4. Is(list[1], FeatureWitness(o.a))
  BY <1>1, <1>2, FaithfulLemma DEF b
<1>5. PICK st : At(st, lsh, 0) /\ Replayed(b, Chosen(o), list) = Apply(list[1], st)
  BY <1>1, <1>2, OneCall
<1>6. At(Apply(list[1], st), Put(lsh, 1, o.a + 1), 0)
  BY <1>3, <1>4, <1>5, FeatureCall DEF Is
<1> QED BY <1>5, <1>6 DEF At, b

LEMMA ReplayAtomicMutate ==
  ASSUME NEW o, NEW list, Faithful(list, "atomic_mutate", o)
  PROVE  Replayed("atomic_mutate", Chosen(o), list).ok
<1> DEFINE b == "atomic_mutate"
           p == AtomicMutate(o)
           lsh == Only({1}, Minted)
           next == Only({1}, New(MutateWitness(1, Minted)))
<1>1. Plan(b, o) = p /\ NProofs(b) = 2 /\ StepOf(b, 1) = 1 /\ StepOf(b, 2) = 2 /\ b \in V2
  BY DEF Plan, NProofs, StepOf, V2, Builders, V1Builders
<1>2. p.order = << 1, 2 >> /\ p.start = Start(lsh, 0)
      /\ p.script[1][2] = MutateWitness(1, Minted)
      /\ p.script[2][2] = T10Witness(next, 0)
  BY DEF AtomicMutate, Prove
<1>3. /\ lsh[1] = Minted /\ Minted \in Nat \ {0}
      /\ Put(lsh, 1, Minted + 1) = next
  BY BoundsAssumption DEF Only, Minted, Slots, Put, New, MutateWitness
<1> HIDE DEF p, lsh, next, b
<1>4. Is(list[1], MutateWitness(1, Minted)) /\ Is(list[2], T10Witness(next, 0))
  BY <1>1, <1>2, FaithfulLemma DEF b
<1>5. PICK st : /\ At(st, lsh, 0)
                /\ Replayed(b, Chosen(o), list) = Apply(list[2], Apply(list[1], st))
  BY <1>1, <1>2, TwoCalls
<1>6. At(Apply(list[1], st), next, 0)
  BY <1>3, <1>4, <1>5, MutateCall DEF Is
<1>7. At(Apply(list[2], Apply(list[1], st)), next, 0)
  BY <1>4, <1>6, T10Call DEF Is
<1> QED BY <1>5, <1>7 DEF At, b

LEMMA ReplayAtomicZIndex ==
  ASSUME NEW o, NEW list, Faithful(list, "atomic_zindex", o)
  PROVE  Replayed("atomic_zindex", Chosen(o), list).ok
<1> DEFINE b == "atomic_zindex"
           p == AtomicZIndex(o)
           lsh == Only({o.a}, Minted)
<1>1. Plan(b, o) = p /\ NProofs(b) = 2 /\ StepOf(b, 1) = 1 /\ StepOf(b, 2) = 2 /\ b \in V2
  BY DEF Plan, NProofs, StepOf, V2, Builders, V1Builders
<1>2. p.order = << 1, 2 >> /\ p.start = Start(lsh, 0)
      /\ p.script[1][2] = ZIndexWitness(1)
      /\ p.script[2][2] = T10Witness(lsh, 1)
  BY DEF AtomicZIndex, Prove
<1> HIDE DEF p, lsh, b
<1>4. Is(list[1], ZIndexWitness(1)) /\ Is(list[2], T10Witness(lsh, 1))
  BY <1>1, <1>2, FaithfulLemma DEF b
<1>5. PICK st : /\ At(st, lsh, 0)
                /\ Replayed(b, Chosen(o), list) = Apply(list[2], Apply(list[1], st))
  BY <1>1, <1>2, TwoCalls
<1>6. At(Apply(list[1], st), lsh, 1)
  BY <1>4, <1>5, ZIndexCall DEF Is
<1>7. At(Apply(list[2], Apply(list[1], st)), lsh, 1)
  BY <1>4, <1>6, T10Call DEF Is
<1> QED BY <1>5, <1>7 DEF At, b

(* The T10 proof is of the states that the transfer leaves.                *)
LEMMA ReplayAtomicTransfer ==
  ASSUME NEW o, NEW list, Faithful(list, "atomic_transfer", o)
  PROVE  Replayed("atomic_transfer", Chosen(o), list).ok
<1> DEFINE b == "atomic_transfer"
           p == AtomicTransfer(o)
           lsh == Only(1..o.a, Minted)
           w == TransferWitness(lsh)
           t10 == T10Witness(SubSeq(w.pi, NSlots + 1, 2 * NSlots), 0)
<1>1. Plan(b, o) = p /\ NProofs(b) = 2 /\ StepOf(b, 1) = 1 /\ StepOf(b, 2) = 3 /\ b \in V2
  BY DEF Plan, NProofs, StepOf, V2, Builders, V1Builders
<1>2. p.order = << 1, 2 >> /\ p.start = Start(lsh, 0)
      /\ p.script[1][2] = w /\ p.script[3][2] = t10
  BY DEF AtomicTransfer, Prove
<1>3. lsh \in [Slots -> Nat]
  BY DEF Only, Minted
<1> HIDE DEF p, lsh, b
<1>4. t10 = T10Witness(Again(lsh), 0)
  BY <1>3, TransferHalves
<1> HIDE DEF t10
<1>5. Is(list[1], w) /\ Is(list[2], t10)
  BY <1>1, <1>2, FaithfulLemma DEF b
<1>6. PICK st : /\ At(st, lsh, 0)
                /\ Replayed(b, Chosen(o), list) = Apply(list[2], Apply(list[1], st))
  BY <1>1, <1>2, TwoCalls
<1>7. At(Apply(list[1], st), Again(lsh), 0)
  BY <1>3, <1>5, <1>6, TransferCall DEF Is
<1>8. At(Apply(list[2], Apply(list[1], st)), Again(lsh), 0)
  BY <1>4, <1>5, <1>7, T10Call DEF Is
<1> QED BY <1>6, <1>8 DEF At, b

LEMMA ReplayExtract ==
  ASSUME NEW o, NEW list, Faithful(list, "atomic_extract", o)
  PROVE  Replayed("atomic_extract", Chosen(o), list).ok
<1> DEFINE b == "atomic_extract"
           p == AtomicExtract(o)
           lsh == Only({o.a}, Minted)
           none == Only({}, 0)
<1>1. Plan(b, o) = p /\ NProofs(b) = 1 /\ StepOf(b, 1) = 1 /\ b \in V2
  BY DEF Plan, NProofs, StepOf, V2, Builders, V1Builders
<1>2. /\ Len(p.order) = 2 /\ p.order[1] = 0 /\ p.order[2] = 1 /\ p.start = Start(lsh, 0)
      /\ p.script[1][2] = T10Witness(none, 0)
  BY DEF AtomicExtract, Prove
<1>3. o.a \in Slots
  <2>1. o \in Options(b)
    BY DEF Faithful, Allowed
  <2>2. OptionValues(b) = Slots \X {0}
    BY DEF OptionValues, V1Builders
  <2> QED BY <2>1, <2>2 DEF Options
<1>4. lsh[o.a] # 0 /\ Put(lsh, o.a, 0) = none
  BY <1>3 DEF Only, Minted, Put
<1> HIDE DEF p, lsh, none, b
<1>5. Is(list[1], T10Witness(none, 0))
  BY <1>1, <1>2, FaithfulLemma DEF b
<1>6. PICK after : Course(after, b, o, list, lsh, 0)
  <2>1. Len(p.order) \in Nat /\ p.start = Start(lsh, 0)
    BY <1>2
  <2> QED BY <1>1, <2>1, CallsLemma
<1>7. /\ At(after[0], lsh, 0)
      /\ after[1] = Call(p, Chosen(o), list, 1, after[0])
      /\ after[2] = Call(p, Chosen(o), list, 2, after[1])
      /\ Replayed(b, Chosen(o), list) = after[2]
  <2>1. /\ 1 \in 1..Len(p.order) /\ 2 \in 1..Len(p.order)
        /\ 1 - 1 = 0 /\ 2 - 1 = 1
    BY <1>2
  <2>2. /\ At(after[0], lsh, 0) /\ Replayed(b, Chosen(o), list) = after[Len(p.order)]
        /\ \A m \in 1..Len(p.order) : after[m] = Call(p, Chosen(o), list, m, after[m - 1])
    BY <1>1, <1>6 DEF Course
  <2> QED BY <1>2, <2>1, <2>2, Zenon
<1>8. after[1] = Extracted(o.a, after[0]) /\ after[2] = Apply(list[1], after[1])
  BY <1>2, <1>7 DEF Call, Chosen
<1>9. At(after[1], none, 0)
  BY <1>4, <1>7, <1>8, ExtractCall
<1>10. At(after[2], none, 0)
  BY <1>5, <1>8, <1>9, T10Call DEF Is
<1> QED BY <1>7, <1>10 DEF At, b

(* Two slots, each mutated once, and one T10 for both.                     *)
LEMMA ReplayBatch ==
  ASSUME NEW o, NEW list, Faithful(list, "batch", o)
  PROVE  Replayed("batch", Chosen(o), list).ok
<1> DEFINE b == "batch"
           p == Batch(o)
           w1 == MutateWitness(o.a, Minted)
           w2 == MutateWitness(o.b, Minted)
           lsh0 == Only({o.a, o.b}, Minted)
           lsh1 == Put(lsh0, o.a, Minted + 1)
           lsh2 == Put(Only({o.a}, New(w1)), o.b, New(w2))
<1>1. /\ Plan(b, o) = p /\ NProofs(b) = 3 /\ b \in V2
      /\ StepOf(b, 1) = 1 /\ StepOf(b, 2) = 2 /\ StepOf(b, 3) = 3
  BY DEF Plan, NProofs, StepOf, V2, Builders, V1Builders
<1>2. /\ Len(p.order) = 3 /\ p.order[1] = 1 /\ p.order[2] = 2 /\ p.order[3] = 3
      /\ p.start = Start(lsh0, 0)
      /\ p.script[1][2] = w1 /\ p.script[2][2] = w2 /\ p.script[3][2] = T10Witness(lsh2, 0)
  BY DEF Batch, Prove
<1>3. o.a # o.b /\ o.a \in Slots /\ o.b \in Slots
  <2>1. o \in Options(b) /\ o.a # o.b
    BY DEF Faithful, Allowed
  <2>2. OptionValues(b) = Slots \X Slots
    BY DEF OptionValues, V1Builders
  <2> QED BY <2>1, <2>2 DEF Options
<1>4. /\ lsh0[o.a] = Minted /\ lsh1[o.b] = Minted /\ Minted \in Nat \ {0}
      /\ Put(lsh1, o.b, Minted + 1) = lsh2
  BY <1>3 DEF Only, Minted, Put, New, MutateWitness
<1> HIDE DEF p, lsh0, lsh1, lsh2, w1, w2, b
<1>5. Is(list[1], w1) /\ Is(list[2], w2) /\ Is(list[3], T10Witness(lsh2, 0))
  BY <1>1, <1>2, FaithfulLemma DEF b
<1>6. PICK after : Course(after, b, o, list, lsh0, 0)
  <2>1. Len(p.order) \in Nat /\ p.start = Start(lsh0, 0)
    BY <1>2
  <2> QED BY <1>1, <2>1, CallsLemma
<1>7. /\ At(after[0], lsh0, 0)
      /\ after[1] = Call(p, Chosen(o), list, 1, after[0])
      /\ after[2] = Call(p, Chosen(o), list, 2, after[1])
      /\ after[3] = Call(p, Chosen(o), list, 3, after[2])
      /\ Replayed(b, Chosen(o), list) = after[3]
  <2>1. /\ 1 \in 1..Len(p.order) /\ 2 \in 1..Len(p.order) /\ 3 \in 1..Len(p.order)
        /\ 1 - 1 = 0 /\ 2 - 1 = 1 /\ 3 - 1 = 2
    BY <1>2
  <2>2. /\ At(after[0], lsh0, 0) /\ Replayed(b, Chosen(o), list) = after[Len(p.order)]
        /\ \A m \in 1..Len(p.order) : after[m] = Call(p, Chosen(o), list, m, after[m - 1])
    BY <1>1, <1>6 DEF Course
  <2> QED BY <1>2, <2>1, <2>2, Zenon
<1>8. /\ after[1] = Apply(list[1], after[0]) /\ after[2] = Apply(list[2], after[1])
      /\ after[3] = Apply(list[3], after[2])
  BY <1>2, <1>7 DEF Call
<1>9. At(after[1], lsh1, 0)
  BY <1>4, <1>5, <1>7, <1>8, MutateCall DEF Is, w1, lsh1
<1>10. At(after[2], lsh2, 0)
  BY <1>4, <1>5, <1>8, <1>9, MutateCall DEF Is, w2
<1>11. At(after[3], lsh2, 0)
  BY <1>5, <1>8, <1>10, T10Call DEF Is
<1> QED BY <1>7, <1>11 DEF At, b

(* Proved mutation, mutation, T10, T10; submitted mutation, T10, mutation, *)
(* T10.                                                                    *)
LEMMA ReplayChained ==
  ASSUME NEW o, NEW list, Faithful(list, "chained", o)
  PROVE  Replayed("chained", Chosen(o), list).ok
<1> DEFINE b == "chained"
           p == ChainedMutate(o)
           w1 == MutateWitness(o.a, Minted)
           w2 == MutateWitness(o.a, New(w1))
           lsh0 == Only({o.a}, Minted)
           lsh1 == Only({o.a}, New(w1))
           lsh2 == Only({o.a}, New(w2))
<1>1. /\ Plan(b, o) = p /\ NProofs(b) = 4 /\ b \in V2
      /\ StepOf(b, 1) = 1 /\ StepOf(b, 2) = 2 /\ StepOf(b, 3) = 3 /\ StepOf(b, 4) = 4
  BY DEF Plan, NProofs, StepOf, V2, Builders, V1Builders
<1>2. /\ Len(p.order) = 4 /\ p.order[1] = 1 /\ p.order[2] = 3 /\ p.order[3] = 2
      /\ p.order[4] = 4 /\ p.start = Start(lsh0, 0)
      /\ p.script[1][2] = w1 /\ p.script[2][2] = w2
      /\ p.script[3][2] = T10Witness(lsh1, 0) /\ p.script[4][2] = T10Witness(lsh2, 0)
  BY DEF ChainedMutate, Prove
<1>3. o.a \in Slots
  <2>1. o \in Options(b)
    BY DEF Faithful, Allowed
  <2>2. OptionValues(b) = Slots \X {0}
    BY DEF OptionValues, V1Builders
  <2> QED BY <2>1, <2>2 DEF Options
<1>4. /\ New(w1) = Minted + 1 /\ New(w2) = New(w1) + 1
      /\ Minted \in Nat \ {0} /\ New(w1) \in Nat \ {0}
  BY DEF New, MutateWitness, Minted
<1>5. /\ lsh0[o.a] = Minted /\ Put(lsh0, o.a, Minted + 1) = lsh1
      /\ lsh1[o.a] = New(w1) /\ Put(lsh1, o.a, New(w1) + 1) = lsh2
  <2> HIDE DEF w1, w2
  <2> QED BY <1>3, <1>4 DEF Only, Put
<1> HIDE DEF p, lsh0, lsh1, lsh2, b
<1>6. /\ Is(list[1], w1) /\ Is(list[2], w2) /\ Is(list[3], T10Witness(lsh1, 0))
      /\ Is(list[4], T10Witness(lsh2, 0))
  BY <1>1, <1>2, FaithfulLemma DEF b
<1>7. PICK after : Course(after, b, o, list, lsh0, 0)
  <2>1. Len(p.order) \in Nat /\ p.start = Start(lsh0, 0)
    BY <1>2
  <2> QED BY <1>1, <2>1, CallsLemma
<1>8. /\ At(after[0], lsh0, 0)
      /\ after[1] = Call(p, Chosen(o), list, 1, after[0])
      /\ after[2] = Call(p, Chosen(o), list, 2, after[1])
      /\ after[3] = Call(p, Chosen(o), list, 3, after[2])
      /\ after[4] = Call(p, Chosen(o), list, 4, after[3])
      /\ Replayed(b, Chosen(o), list) = after[4]
  <2>1. /\ 1 \in 1..Len(p.order) /\ 2 \in 1..Len(p.order)
        /\ 3 \in 1..Len(p.order) /\ 4 \in 1..Len(p.order)
        /\ 1 - 1 = 0 /\ 2 - 1 = 1 /\ 3 - 1 = 2 /\ 4 - 1 = 3
    BY <1>2
  <2>2. /\ At(after[0], lsh0, 0) /\ Replayed(b, Chosen(o), list) = after[Len(p.order)]
        /\ \A m \in 1..Len(p.order) : after[m] = Call(p, Chosen(o), list, m, after[m - 1])
    BY <1>1, <1>7 DEF Course
  <2> QED BY <1>2, <2>1, <2>2, Zenon
<1>9. /\ after[1] = Apply(list[1], after[0]) /\ after[2] = Apply(list[3], after[1])
      /\ after[3] = Apply(list[2], after[2]) /\ after[4] = Apply(list[4], after[3])
  BY <1>2, <1>8 DEF Call
<1>10. At(after[1], lsh1, 0)
  BY <1>4, <1>5, <1>6, <1>8, <1>9, MutateCall DEF Is
<1>11. At(after[2], lsh1, 0)
  BY <1>6, <1>9, <1>10, T10Call DEF Is
<1>12. At(after[3], lsh2, 0)
  BY <1>4, <1>5, <1>6, <1>9, <1>11, MutateCall DEF Is
<1>13. At(after[4], lsh2, 0)
  BY <1>6, <1>9, <1>12, T10Call DEF Is
<1> QED BY <1>8, <1>13 DEF At, b

(* As many mutations as there are slots: after n of them the first n slots *)
(* are a state further.                                                    *)
LEMMA ReplayBatchMax ==
  ASSUME NEW o, NEW list, Faithful(list, "batch_max", o)
  PROVE  Replayed("batch_max", Chosen(o), list).ok
<1> DEFINE b == "batch_max"
           p == BatchMax(o)
           N == NSlots
           lsh(n) == [i \in Slots |-> IF i <= n THEN Minted + 1 ELSE Minted]
<1>1. /\ Plan(b, o) = p /\ NProofs(b) = N + 1 /\ b \in V2
      /\ \A i : StepOf(b, i) = i
  BY DEF Plan, NProofs, StepOf, V2, Builders, V1Builders
<1>2. N \in Nat /\ N >= 2 /\ Slots = 1..N
  BY BoundsAssumption DEF Slots
<1>3. /\ Len(p.order) = N + 1 /\ \A i \in 1..N + 1 : p.order[i] = i
      /\ p.start = Start(Only(Slots, Minted), 0)
  BY <1>2 DEF BatchMax
<1>4. /\ \A k \in 1..N : p.script[k][2] = MutateWitness(k, Minted)
      /\ p.script[N + 1][2] = T10Witness(Only(Slots, Minted + 1), 0)
  BY BatchMaxSteps
<1>5. /\ Only(Slots, Minted) = lsh(0) /\ Only(Slots, Minted + 1) = lsh(N)
      /\ Minted \in Nat \ {0}
      /\ \A n \in 0..N : n < N => /\ lsh(n)[n + 1] = Minted
                                  /\ Put(lsh(n), n + 1, Minted + 1) = lsh(n + 1)
  BY <1>2 DEF Only, Minted, Put
<1> HIDE DEF p, lsh, b, N
<1>6. /\ \A i \in 1..N : Is(list[i], MutateWitness(i, Minted))
      /\ Is(list[N + 1], T10Witness(lsh(N), 0))
  <2>1. \A i \in 1..N + 1 : Is(list[i], p.script[i][2])
    BY <1>1, FaithfulLemma DEF b
  <2>2. N + 1 \in 1..N + 1 /\ \A i \in 1..N : i \in 1..N + 1
    BY <1>2
  <2> QED BY <1>4, <1>5, <2>1, <2>2
<1>7. PICK after : Course(after, b, o, list, lsh(0), 0)
  <2>1. Len(p.order) \in Nat /\ p.start = Start(lsh(0), 0)
    BY <1>2, <1>3, <1>5
  <2> QED BY <1>1, <2>1, CallsLemma
<1>8. /\ At(after[0], lsh(0), 0) /\ Replayed(b, Chosen(o), list) = after[N + 1]
      /\ \A m \in 1..N + 1 : after[m] = Apply(list[m], after[m - 1])
  <2>1. /\ At(after[0], lsh(0), 0) /\ Replayed(b, Chosen(o), list) = after[N + 1]
        /\ \A m \in 1..N + 1 : after[m] = Call(p, Chosen(o), list, m, after[m - 1])
    BY <1>1, <1>3, <1>7 DEF Course
  <2>2. \A m \in 1..N + 1 : m # 0
    BY <1>2
  <2> QED BY <1>3, <2>1, <2>2 DEF Call
<1> DEFINE S == {n \in Nat : n <= N => At(after[n], lsh(n), 0)}
<1>9. 0 \in S
  BY <1>8
<1>10. ASSUME NEW n \in Nat, n \in S
       PROVE  n + 1 \in S
  <2> SUFFICES ASSUME n + 1 <= N PROVE At(after[n + 1], lsh(n + 1), 0)
    OBVIOUS
  <2>1. /\ n \in 0..N /\ n < N /\ n <= N /\ n + 1 \in 1..N /\ n + 1 \in 1..N + 1
        /\ n + 1 - 1 = n
    BY <1>2
  <2>2. At(after[n], lsh(n), 0)
    BY <1>10, <2>1
  <2>3. after[n + 1] = Apply(list[n + 1], after[n])
    BY <1>8, <2>1
  <2>4. Is(list[n + 1], MutateWitness(n + 1, Minted)) /\ lsh(n)[n + 1] = Minted
        /\ Put(lsh(n), n + 1, Minted + 1) = lsh(n + 1)
    BY <1>5, <1>6, <2>1
  <2> QED BY <1>5, <2>2, <2>3, <2>4, MutateCall DEF Is
<1> HIDE DEF S
<1>11. \A n \in Nat : n \in S
  BY <1>9, <1>10, SetInduction
<1>12. At(after[N], lsh(N), 0)
  BY <1>2, <1>11 DEF S
<1>13. after[N + 1] = Apply(list[N + 1], after[N])
  <2>1. ASSUME NEW m, m = N + 1
        PROVE  after[m] = Apply(list[m], after[N])
    <3>1. m \in 1..N + 1 /\ m - 1 = N
      BY <1>2, <2>1
    <3>2. after[m] = Apply(list[m], after[m - 1])
      BY <1>8, <3>1
    <3> QED BY <3>1, <3>2
  <2> QED BY <2>1
<1>14. At(after[N + 1], lsh(N), 0)
  BY <1>6, <1>12, <1>13, T10Call DEF Is
<1> QED BY <1>8, <1>14 DEF At, b

(* Whatever proofs are in the list, if they are of the witnesses that the  *)
(* script builds, the calls of the test meet the states they were made of. *)
LEMMA ReplayLemma ==
  ASSUME NEW b, NEW o, NEW list, Faithful(list, b, o)
  PROVE  Replayed(b, Chosen(o), list).ok
<1>1. b \in V2
  BY DEF Faithful
<1> QED BY <1>1, ReplayMutate, ReplayZIndex, ReplayT10, ReplaySolve, ReplayTransfer, ReplayFeature,
           ReplayAtomicMutate, ReplayAtomicZIndex, ReplayAtomicTransfer, ReplayExtract,
           ReplayBatch, ReplayChained, ReplayBatchMax DEF V2, Builders, V1Builders

(* A fixture whose files are of one set of options replays end to end.     *)
THEOREM FixturesReplay == Spec => []FixtureReplays
<1>1. ReplayInv => FixtureReplays
  <2> SUFFICES ASSUME ReplayInv, NEW b \in Launched, Replayable(b),
                      fixture[b].made = fixture[b].meta
               PROVE  Replayed(b, fixture[b].meta, fixture[b].list).ok
    BY DEF FixtureReplays
  <2>1. b \in V2
    BY LaunchedAssumption DEF Replayable, V2
  <2>2. PICK o \in Options(b) : /\ Allowed(b, o) /\ fixture[b].made = Chosen(o)
                                /\ Len(fixture[b].list) = NProofs(b)
                                /\ Carries(fixture[b].list, b, o)
    BY <2>1 DEF ReplayInv, FixtureMade, MadeOf
  <2>3. Faithful(fixture[b].list, b, o)
    BY <2>1, <2>2 DEF Faithful
  <2>4. Replayed(b, Chosen(o), fixture[b].list).ok
    BY <2>3, ReplayLemma
  <2> QED BY <2>2, <2>4
<1> QED BY <1>1, ReplayInit, ReplayStep, FixturesInductive, PTL DEF Spec
================================================================================
