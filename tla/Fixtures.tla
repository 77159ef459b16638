-------------------------------- MODULE Fixtures --------------------------------
(***************************************************************************)
(* The fixture builders (tools/build_*_fixture.py): each is a script that  *)
(* builds the witnesses of a few linked proofs, proves them in the shared  *)
(* circuit directories, writes a Solidity verifier when told to, and       *)
(* writes a fixture that the contract tests replay call by call.  The      *)
(* directory of a fixture is named by its seed, so that runs with other    *)
(* options overwrite it; the v1 builders read one another's fixtures.      *)
(* Circuits are edited at any moment and a run may fail or be killed.      *)
(***************************************************************************)
EXTENDS Naturals, Sequences, FiniteSets

CONSTANTS
  NSlots,   \* model bound: slots of a shadow, 16 in the code
  Launched, \* the builders that are run
  Edited,   \* model bound: the circuits that are edited
  MaxEdits, \* model bound: edits of a circuit
  MaxRuns,  \* model bound: runs of builders
  NoVerifier, \* the verifiers that are not in the tree at first
  None

ASSUME BoundsAssumption == {NSlots, MaxEdits, MaxRuns} \subseteq Nat /\ NSlots >= 2
ASSUME NoneAssumption == None \notin Nat

VARIABLES
  source,   \* how often each circuit was edited
  target,   \* on the remote machine: the witness last solved for each circuit
  vk,       \* the version target/vk was written for, None when absent
  toml,     \* the circuits whose Prover.toml is there
  verifier, \* the circuit and version each verifier was generated from
  fixture,  \* of each builder: the files of its fixture
  run,      \* the builder that is running, None between runs
  runs,     \* model bound: runs so far
  faulty    \* history: builders of which a run failed or was killed

vars == <<source, target, vk, toml, verifier, fixture, run, runs, faulty>>

Slots == 1..NSlots

(* The verifier written for a circuit: v1 and v2 share two of the names.   *)
VerifierOf(c) ==
  CASE c = "mutate_slot" -> "MutateSlot"
    [] c = "shadow_t10" -> "T10Shadow"
    [] c = "zindex_commit" -> "ZIndexCommit"
    [] c \in {"transfer_shadow", "transfer_shadow_v2"} -> "TransferShadow"
    [] c \in {"solve_shadow", "solve_shadow_v2"} -> "SolveShadow"
    [] c = "transfer_feature" -> "TransferFeature"
    [] c = "transfer_feature_v2" -> "TransferFeatureV2"
    [] c = "extract_slot" -> "ExtractSlot"
    [] OTHER -> None
Circuits ==
  {"mutate_slot", "shadow_t10", "zindex_commit", "transfer_shadow",
   "transfer_shadow_v2", "solve_shadow", "solve_shadow_v2", "transfer_feature",
   "transfer_feature_v2", "extract_slot", "landmark_regions", "face_disc"}
Verifiers == {VerifierOf(c) : c \in Circuits} \ {None}
ASSUME EditedAssumption == Edited \subseteq Circuits /\ NoVerifier \subseteq Verifiers
--------------------------------------------------------------------------------
(* Witnesses.  The live state hash of a slot is a number: 0 when empty, 1  *)
(* as minted, and one more after every change.                             *)
Minted == 1
Only(S, n) == [i \in Slots |-> IF i \in S THEN n ELSE 0]
Put(lsh, slot, n) == [i \in Slots |-> IF i = slot THEN n ELSE lsh[i]]

(* build_witness: from the state of prev to the next, a pose apart.        *)
MutateWitness(slot, prev) ==
  [circuit |-> "mutate_slot", pi |-> <<slot, prev, prev + 1>>]
New(w) == w.pi[3]
T10Witness(lsh, z) == [circuit |-> "shadow_t10", pi |-> lsh \o <<z>>]
ZIndexWitness(z) == [circuit |-> "zindex_commit", pi |-> <<z>>]

(* Every occupied slot is encrypted again, one change further.             *)
TransferWitness(lsh) ==
  [circuit |-> "transfer_shadow_v2",
   pi |-> lsh \o [i \in Slots |-> IF lsh[i] = 0 THEN 0 ELSE lsh[i] + 1]]
SolveWitness(lsh, z) == [circuit |-> "solve_shadow_v2", pi |-> lsh \o <<z>>]
FeatureWitness(old) == [circuit |-> "transfer_feature_v2", pi |-> <<old, old + 1>>]
V1Witness(c, content) == [circuit |-> c, pi |-> <<content>>]
--------------------------------------------------------------------------------
(* The scripts, by the options of the command line: two numbers a and b,   *)
(* --rebuild-verifier and --no-prove.  start is the state the test seeds,  *)
(* order that in which it replays the proofs (0 is a proofless extraction),*)
(* keys whether target/vk is written always or if missing, clean the       *)
(* Prover.tomls removed when the run ends.                                 *)
Prove(w) == <<"prove", w>>
Verifier(policy) == <<"verifier", policy>>
Proofs == <<"proofs", None>>
Meta == <<"meta", None>>
Start(lsh, z) == [lsh |-> lsh, z |-> z, ok |-> TRUE]

MutateSlot(o) ==
  [start |-> Start(Only({1}, Minted), 0), order |-> <<1>>, keys |-> "always", clean |-> {},
   script |-> <<Prove(MutateWitness(1, Minted)), Verifier("missing"), Meta, Proofs>>]

AtomicMutate(o) ==
  LET w == MutateWitness(1, Minted)
  IN [start |-> Start(Only({1}, Minted), 0), order |-> <<1, 2>>, keys |-> "always",
      clean |-> {},
      script |-> <<Prove(w), Prove(T10Witness(Only({1}, New(w)), 0)), Proofs, Meta>>]

Batch(o) ==
  LET w1 == MutateWitness(o.a, Minted)
      w2 == MutateWitness(o.b, Minted)
      lsh == Put(Only({o.a}, New(w1)), o.b, New(w2))
  IN [start |-> Start(Only({o.a, o.b}, Minted), 0), order |-> <<1, 2, 3>>,
      keys |-> "missing", clean |-> {},
      script |-> <<Prove(w1), Prove(w2), Prove(T10Witness(lsh, 0)), Proofs, Meta>>]

BatchMax(o) ==
  [start |-> Start(Only(Slots, Minted), 0), order |-> [i \in 1..NSlots + 1 |-> i],
   keys |-> "missing", clean |-> {},
   script |-> [i \in Slots |-> Prove(MutateWitness(i, Minted))]
              \o <<Prove(T10Witness(Only(Slots, Minted + 1), 0)), Proofs, Meta>>]

ChainedMutate(o) ==
  LET w1 == MutateWitness(o.a, Minted)
      w2 == MutateWitness(o.a, New(w1))
  IN [start |-> Start(Only({o.a}, Minted), 0), order |-> <<1, 3, 2, 4>>,
      keys |-> "missing", clean |-> {},
      script |-> <<Prove(w1), Prove(w2), Prove(T10Witness(Only({o.a}, New(w1)), 0)),
                   Prove(T10Witness(Only({o.a}, New(w2)), 0)), Proofs, Meta>>]

AtomicExtract(o) ==
  [start |-> Start(Only({o.a}, Minted), 0), order |-> <<0, 1>>, keys |-> "always",
   clean |-> {}, script |-> <<Prove(T10Witness(Only({}, 0), 0)), Proofs, Meta>>]

(* Faulty variant: T10 binds the commitment from before.                   *)
AtomicZIndex_OldZ(o) ==
  LET lsh == Only({o.a}, Minted)
  IN [start |-> Start(lsh, 0), order |-> <<1, 2>>, keys |-> "always", clean |-> {},
      script |-> <<Prove(ZIndexWitness(1)), Prove(T10Witness(lsh, 0)), Proofs, Meta>>]

AtomicZIndex(o) ==
  LET lsh == Only({o.a}, Minted)
  IN [start |-> Start(lsh, 0), order |-> <<1, 2>>, keys |-> "always", clean |-> {},
      script |-> <<Prove(ZIndexWitness(1)), Prove(T10Witness(lsh, 1)), Proofs, Meta>>]

ZIndexCommit(o) ==
  [start |-> Start(Only({1}, Minted), 0), order |-> <<1>>, keys |-> "always", clean |-> {},
   script |-> <<Prove(ZIndexWitness(1)), Verifier("missing"), Proofs, Meta>>]

ShadowT10(o) ==
  [start |-> Start(Only(Slots, Minted), 1), order |-> <<1>>, keys |-> "always", clean |-> {},
   script |-> <<Prove(T10Witness(Only(Slots, Minted), 1)), Verifier("missing"),
                Proofs, Meta>>]

TransferShadowV2(o) ==
  LET lsh == Only(1..o.a, Minted)
  IN [start |-> Start(lsh, 0), order |-> <<1>>, keys |-> "always",
      clean |-> {"transfer_shadow_v2"},
      script |-> <<Prove(TransferWitness(lsh)), Verifier("flag"), Proofs, Meta>>]

AtomicTransfer(o) ==
  LET lsh == Only(1..o.a, Minted)
      w == TransferWitness(lsh)
  IN [start |-> Start(lsh, 0), order |-> <<1, 2>>, keys |-> "always",
      clean |-> {"transfer_shadow_v2", "shadow_t10"},
      script |-> <<Prove(w), Verifier("flag"),
                   Prove(T10Witness(SubSeq(w.pi, NSlots + 1, 2 * NSlots), 0)),
                   Proofs, Meta>>]

SolveShadowV2(o) ==
  LET lsh == Only(1..o.a, Minted)
  IN [start |-> Start(lsh, 1), order |-> <<1>>, keys |-> "always",
      clean |-> {"solve_shadow_v2"},
      script |-> <<Prove(SolveWitness(lsh, 1)), Verifier("flag"), Proofs, Meta>>]

(* --source-state mint is a = 1, post-mutate a = 2; b is the checkpoint of *)
(* the carrier on chain, in the place of the first slot.                   *)
TransferFeatureV2(o) ==
  [start |-> Start(Only({1}, o.b), 0), order |-> <<1>>, keys |-> "always",
   clean |-> {"transfer_feature_v2"},
   script |-> <<Prove(FeatureWitness(o.a)), Verifier("flag"), Proofs, Meta>>]
--------------------------------------------------------------------------------
(* The v1 builders.  What they prove is only told apart by its options.    *)
V1(c, o) ==
  [start |-> Start(Only({}, 0), 0), order |-> <<>>, keys |-> "always", clean |-> {},
   script |-> <<Prove(V1Witness(c, o.a)), Proofs, Meta, Verifier("always")>>]

ExtractSlot(o) == V1("extract_slot", o)
TransferShadow(o) == V1("transfer_shadow", o)
TransferFeature(o) == V1("transfer_feature", o)
SolveShadow(o) == V1("solve_shadow", o)

(* These two prove on a remote machine, from its own target directory; the *)
(* first sends no circuit, only the witness, and its decoding looks up 18  *)
(* names among 17 inputs and dies.                                         *)
LandmarkMint(o) ==
  [start |-> Start(Only({}, 0), 0), order |-> <<>>, keys |-> "assumed", clean |-> {},
   script |-> <<<<"remote", V1Witness("landmark_regions", o.a)>>, Proofs, <<"die", None>>,
                Meta>>]
FaceDisc(o) ==
  [start |-> Start(Only({}, 0), 0), order |-> <<>>, keys |-> "missing", clean |-> {},
   script |-> <<<<"remote", V1Witness("face_disc", o.a)>>, Proofs, Meta>>]

Plan(b, o) ==
  CASE b = "mutate_slot" -> MutateSlot(o)
    [] b = "atomic_mutate" -> AtomicMutate(o)
    [] b = "batch" -> Batch(o)
    [] b = "batch_max" -> BatchMax(o)
    [] b = "chained" -> ChainedMutate(o)
    [] b = "atomic_extract" -> AtomicExtract(o)
    [] b = "atomic_zindex" -> AtomicZIndex(o)
    [] b = "zindex_commit" -> ZIndexCommit(o)
    [] b = "shadow_t10" -> ShadowT10(o)
    [] b = "transfer_shadow_v2" -> TransferShadowV2(o)
    [] b = "atomic_transfer" -> AtomicTransfer(o)
    [] b = "solve_shadow_v2" -> SolveShadowV2(o)
    [] b = "transfer_feature_v2" -> TransferFeatureV2(o)
    [] b = "extract_slot" -> ExtractSlot(o)
    [] b = "transfer_shadow" -> TransferShadow(o)
    [] b = "transfer_feature" -> TransferFeature(o)
    [] b = "solve_shadow" -> SolveShadow(o)
    [] b = "landmark_mint" -> LandmarkMint(o)
    [] b = "face_disc" -> FaceDisc(o)
Builders ==
  {"mutate_slot", "atomic_mutate", "batch", "batch_max", "chained", "atomic_extract",
   "atomic_zindex", "zindex_commit", "shadow_t10", "transfer_shadow_v2",
   "atomic_transfer", "solve_shadow_v2", "transfer_feature_v2", "extract_slot",
   "transfer_shadow", "transfer_feature", "solve_shadow", "landmark_mint", "face_disc"}
ASSUME LaunchedAssumption == Launched \subseteq Builders

(* The builders with --rebuild-verifier and those with --no-prove,         *)
(* --skip-prove or --check-only; two of them stop only after bb verify.    *)
Rebuilding == {"mutate_slot", "shadow_t10", "zindex_commit", "transfer_shadow_v2",
               "atomic_transfer", "solve_shadow_v2", "transfer_feature_v2"}
Stopping == {"mutate_slot", "shadow_t10", "zindex_commit", "transfer_shadow_v2",
             "solve_shadow_v2", "transfer_feature_v2", "extract_slot",
             "transfer_shadow", "transfer_feature", "solve_shadow"}
StopsAfterVerify == {"shadow_t10", "zindex_commit"}

V1Builders == {"extract_slot", "transfer_shadow", "transfer_feature", "solve_shadow",
               "landmark_mint", "face_disc"}
OptionValues(b) ==
  CASE b \in V1Builders -> (0..1) \X {0}
    [] b = "batch" -> Slots \X Slots
    [] b = "transfer_feature_v2" -> (1..2) \X (1..2)
    [] b \in {"chained", "atomic_extract", "atomic_zindex", "transfer_shadow_v2",
              "atomic_transfer", "solve_shadow_v2"} -> Slots \X {0}
    [] OTHER -> {<<1, 0>>}
Options(b) ==
  {[a |-> c[1], b |-> c[2], flag |-> flag, stop |-> stop] :
     c \in OptionValues(b), flag \in {f \in BOOLEAN : f => b \in Rebuilding},
     stop \in {f \in BOOLEAN : f => b \in Stopping}}
Chosen(o) == <<o.a, o.b>>
--------------------------------------------------------------------------------
(* The fixtures and verifiers of the repository: made with default options *)
(* before any edit.                                                        *)
Default(b) ==
  CASE b \in V1Builders -> [a |-> 0, b |-> 0]
    [] b \in {"batch", "transfer_feature_v2"} -> [a |-> 2, b |-> IF b = "batch" THEN 1 ELSE 2]
    [] b \in {"mutate_slot", "atomic_mutate", "batch_max", "zindex_commit",
              "shadow_t10"} -> [a |-> 1, b |-> 0]
    [] OTHER -> [a |-> 2, b |-> 0]
Proven(w, version, verified) ==
  [circuit |-> w.circuit, pi |-> w.pi, version |-> version, verified |-> verified]
ProofSteps(p) == {k \in 1..Len(p.script) : p.script[k][1] \in {"prove", "remote"}}
Nth(steps, i) == CHOOSE k \in steps : Cardinality({m \in steps : m <= k}) = i
Committed(b) ==
  LET o == Default(b)
      p == Plan(b, o)
      steps == ProofSteps(p)
  IN [made |-> Chosen(o), meta |-> Chosen(o), from |-> <<<<0, 0>>, <<0, 0>>>>,
      list |-> [i \in 1..Cardinality(steps) |->
                  Proven(p.script[Nth(steps, i)][2], 0, TRUE)]]
Current == [v \in Verifiers |->
              CHOOSE c \in Circuits : VerifierOf(c) = v
                                      /\ c \notin {"transfer_shadow", "solve_shadow"}]

Init ==
  /\ source = [c \in Circuits |-> 0]
  /\ target = [c \in Circuits |-> None]
  /\ vk = [c \in Circuits |-> IF c = "landmark_regions" THEN 0 ELSE None]
  /\ toml = {}
  /\ verifier = [v \in Verifiers |-> IF v \in NoVerifier THEN <<>> ELSE <<Current[v], 0>>]
  /\ fixture = [b \in Launched |-> Committed(b)]
  /\ run = None
  /\ runs = 0
  /\ faulty = {}

EditCircuit(c) ==
  /\ source[c] < MaxEdits
  /\ source' = [source EXCEPT ![c] = @ + 1]
  /\ UNCHANGED <<target, vk, toml, verifier, fixture, run, runs, faulty>>
--------------------------------------------------------------------------------
(* What a builder looks at before it writes its witness.                   *)
MintInputs == 18
Upstream(b) ==
  CASE b \in {"extract_slot", "transfer_shadow", "solve_shadow"} -> "landmark_mint"
    [] b = "transfer_feature" -> "extract_slot"
    [] OTHER -> None
From(b) == IF Upstream(b) \in Launched
           THEN <<fixture[Upstream(b)].made, fixture[Upstream(b)].meta>>
           ELSE <<<<0, 0>>, <<0, 0>>>>

(* c2.bin is the committed one: the mint builder never writes it.          *)
EnvelopeOpens(from) == from[1] = <<0, 0>> /\ from[2] = <<0, 0>>
FaceMatches(from) == from[1] = <<0, 0>>

(* Faulty variant: the source ciphertext is not hashed again.              *)
SourceRoundTrips_Unchecked(from) == TRUE

(* The ciphertext against the commitment and the key of fixture.json.      *)
SourceRoundTrips(from) == from[1] = from[2]

Admitted(b, o) ==
  CASE b = "batch" -> o.a # o.b
    [] b = "transfer_feature_v2" -> o.a = o.b
    [] b = "transfer_shadow" -> MintInputs = 17 /\ EnvelopeOpens(From(b))
    [] b = "extract_slot" -> EnvelopeOpens(From(b))
    [] b = "solve_shadow" -> FaceMatches(From(b))
    [] b = "transfer_feature" -> SourceRoundTrips(From(b))
    [] OTHER -> TRUE

Launch(b, o) ==
  /\ run = None
  /\ runs < MaxRuns
  /\ runs' = runs + 1
  /\ run' = IF Admitted(b, o)
            THEN [builder |-> b, o |-> o, at |-> 1, list |-> <<>>, from |-> From(b)]
            ELSE None
  /\ toml' = IF b = "extract_slot" /\ ~Admitted(b, o) THEN toml \cup {b} ELSE toml
  /\ UNCHANGED <<source, target, vk, verifier, fixture, faulty>>
--------------------------------------------------------------------------------
Running == run # None
ThePlan == Plan(run.builder, run.o)
Step == ThePlan.script[run.at]
Doing(what) == Running /\ Step[1] = what

(* Normal ends, exceptions and sys.exit run the finally and atexit blocks. *)
Exit(tomls) == run' = None /\ toml' = tomls \ ThePlan.clean

Advance(list, tomls) ==
  IF run.at < Len(ThePlan.script)
  THEN run' = [run EXCEPT !.at = @ + 1, !.list = list] /\ toml' = tomls
  ELSE Exit(tomls)

(* Faulty variant: bb verify is skipped.                                   *)
Verifies_Unchecked(key, version) == TRUE
Verifies(key, version) == key = version

Key(c) == IF ThePlan.keys = "always" \/ (ThePlan.keys = "missing" /\ vk[c] = None)
          THEN source[c] ELSE vk[c]

(* Prover.toml, nargo execute, write_vk, prove and verify in a circuit's   *)
(* directory: the proof is read back at once.                              *)
ProveHere ==
  /\ Doing("prove") /\ ~run.o.stop
  /\ LET c == Step[2].circuit
         w == Proven(Step[2], source[c], Key(c) = source[c])
     IN /\ vk' = [vk EXCEPT ![c] = Key(c)]
        /\ IF Verifies(Key(c), source[c])
           THEN Advance(Append(run.list, w), toml \cup {c})
           ELSE Exit(toml \cup {c})
  /\ UNCHANGED <<source, target, verifier, fixture, runs, faulty>>

(* --no-prove: the mutation writes its json all the same.                  *)
StopEarly ==
  /\ Doing("prove") /\ run.o.stop
  /\ LET c == Step[2].circuit
     IN /\ vk' = IF run.builder \in StopsAfterVerify THEN [vk EXCEPT ![c] = Key(c)] ELSE vk
        /\ Exit(toml \cup {c})
  /\ fixture' = IF run.builder = "mutate_slot"
                THEN [fixture EXCEPT ![run.builder].meta = Chosen(run.o)] ELSE fixture
  /\ UNCHANGED <<source, target, verifier, runs, faulty>>

Sent(c) == IF ThePlan.keys = "assumed" THEN vk[c] ELSE source[c]

(* Over ssh the output of nargo and bb goes through tail, whose status is  *)
(* the one looked at: an execution that fails leaves the last witness, and *)
(* a proof that does not verify is fetched like any other.                 *)
ProveThere(executed) ==
  /\ Doing("remote")
  /\ LET c == Step[2].circuit
         solved == IF executed THEN Proven(Step[2], Sent(c), TRUE) ELSE target[c]
     IN /\ target' = [target EXCEPT ![c] = solved]
        /\ vk' = [vk EXCEPT ![c] = Key(c)]
        /\ IF solved # None
           THEN Advance(Append(run.list, [solved EXCEPT !.verified =
                                            Key(c) = solved.version]), toml \cup {c})
           ELSE Exit(toml \cup {c})
  /\ UNCHANGED <<source, verifier, fixture, runs, faulty>>

(* Faulty variant: the verifier is generated from the circuit as it is now.*)
VerifierKey_Source(c) == source[c]
VerifierKey(c) == vk[c]

WriteVerifier ==
  /\ Doing("verifier")
  /\ LET c == run.list[Len(run.list)].circuit
         v == VerifierOf(c)
     IN verifier' = IF \/ Step[2] = "always"
                       \/ run.o.flag
                       \/ Step[2] = "missing" /\ verifier[v] = <<>>
                    THEN [verifier EXCEPT ![v] = <<c, VerifierKey(c)>>] ELSE verifier
  /\ Advance(run.list, toml)
  /\ UNCHANGED <<source, target, vk, fixture, runs, faulty>>

WriteProofs ==
  /\ Doing("proofs")
  /\ fixture' = [fixture EXCEPT ![run.builder].made = Chosen(run.o),
                                ![run.builder].list = run.list,
                                ![run.builder].from = run.from]
  /\ Advance(run.list, toml)
  /\ UNCHANGED <<source, target, vk, verifier, runs, faulty>>

WriteMeta ==
  /\ Doing("meta")
  /\ fixture' = [fixture EXCEPT ![run.builder].meta = Chosen(run.o)]
  /\ Advance(run.list, toml)
  /\ UNCHANGED <<source, target, vk, verifier, runs, faulty>>

DecodeMint ==
  /\ Doing("die")
  /\ Exit(toml)
  /\ UNCHANGED <<source, target, vk, verifier, fixture, runs, faulty>>

(* A command that fails or times out, and a kill, which cleans nothing.    *)
Witnessed == IF Step[1] \in {"prove", "remote"} THEN {Step[2].circuit} ELSE {}
Fail ==
  /\ Running
  /\ faulty' = faulty \cup {run.builder}
  /\ \/ Exit(toml \cup Witnessed)
     \/ run' = None /\ toml' \in {toml, toml \cup Witnessed}
  /\ UNCHANGED <<source, target, vk, verifier, fixture, runs>>

Next ==
  \/ \E c \in Edited : EditCircuit(c)
  \/ \E b \in Launched : \E o \in Options(b) : Launch(b, o)
  \/ ProveHere \/ StopEarly \/ WriteVerifier \/ WriteProofs \/ WriteMeta
  \/ DecodeMint \/ Fail
  \/ \E executed \in BOOLEAN : ProveThere(executed)

Spec == Init /\ [][Next]_vars
--------------------------------------------------------------------------------
(* What ShadowToken and FeatureNFT make of the proofs of a fixture, on the *)
(* state that the test has seeded.                                         *)
Then(st, lsh, z, ok) == [lsh |-> lsh, z |-> z, ok |-> st.ok /\ ok]
Apply(w, st) ==
  CASE w.circuit = "mutate_slot" ->
         Then(st, Put(st.lsh, w.pi[1], w.pi[3]), st.z,
              w.pi[2] # 0 /\ st.lsh[w.pi[1]] = w.pi[2])
    [] w.circuit = "zindex_commit" -> Then(st, st.lsh, w.pi[1], TRUE)
    [] w.circuit = "shadow_t10" -> Then(st, st.lsh, st.z, w.pi = st.lsh \o <<st.z>>)
    [] w.circuit = "transfer_shadow_v2" ->
         Then(st, SubSeq(w.pi, NSlots + 1, 2 * NSlots), st.z,
              SubSeq(w.pi, 1, NSlots) = st.lsh)
    [] w.circuit = "solve_shadow_v2" ->
         Then(st, Only({}, 0), st.z, w.pi = st.lsh \o <<st.z>>)
    [] w.circuit = "transfer_feature_v2" ->
         Then(st, Put(st.lsh, 1, w.pi[2]), st.z, st.lsh[1] = w.pi[1])
Extracted(slot, st) ==
  Then(st, Put(st.lsh, slot, 0), st.z, st.lsh[slot] # 0)

Replayed(b, chosen, list) ==
  LET p == Plan(b, [a |-> chosen[1], b |-> chosen[2], flag |-> FALSE, stop |-> FALSE])
      after[n \in 0..Len(p.order)] ==
        IF n = 0 THEN p.start
        ELSE IF p.order[n] = 0 THEN Extracted(chosen[1], after[n - 1])
        ELSE Apply(list[p.order[n]], after[n - 1])
  IN after[Len(p.order)]

(* The v1 circuits have no contract any more.                              *)
Replayable(b) == b \notin V1Builders
--------------------------------------------------------------------------------
(* A fixture whose files are of one set of options replays from end to end *)
(* on the contracts: every proof meets the state that those before it left,*)
(* also where a script proves in another order than the test calls.        *)
FixtureReplays ==
  \A b \in Launched : Replayable(b) /\ fixture[b].made = fixture[b].meta =>
    Replayed(b, fixture[b].meta, fixture[b].list).ok

(* All proofs of one circuit in a fixture are of the same version of it,   *)
(* whatever was edited between two of them, so that one verifier accepts   *)
(* them all: a script that finds a key of another version exits.           *)
OneVerifierAccepts ==
  \A b \in Launched \ {"face_disc", "landmark_mint"} :
    \A i, j \in DOMAIN fixture[b].list :
      fixture[b].list[i].circuit = fixture[b].list[j].circuit =>
        fixture[b].list[i].version = fixture[b].list[j].version

(* A fixture made from another one was made from files of one run of its   *)
(* builder, also when that builder died between two of its files.          *)
MadeFromOneRun ==
  \A b \in Launched \cap {"extract_slot", "transfer_feature"} :
    fixture[b].from[1] = fixture[b].from[2]

(* A verifier is only replaced by that of a proof that the same run has    *)
(* verified, an edit of the circuit in the meantime notwithstanding.       *)
VerifierFitsTheProof ==
  [][\A v \in Verifiers : verifier'[v] # verifier[v] =>
       \E i \in DOMAIN run.list : <<run.list[i].circuit, run.list[i].version>>
                                  = verifier'[v]]_vars

(* check_verifier_manifest: the number of public inputs of each verifier   *)
(* and of its fixture.  An edit is taken to keep the number.               *)
Inputs(c) ==
  CASE c = "mutate_slot" -> 16
    [] c = "shadow_t10" -> 20
    [] c = "zindex_commit" -> 2
    [] c = "solve_shadow" -> 261
    [] c = "solve_shadow_v2" -> 7
    [] c = "transfer_shadow" -> 8
    [] c \in {"transfer_shadow_v2", "transfer_feature_v2"} -> 11
    [] c = "transfer_feature" -> 8
    [] c = "extract_slot" -> 10
    [] OTHER -> 0

(* Faulty variant: the constant of the verifier is not compared.           *)
ManifestAccepts_AnyCount(v) == verifier[v] # <<>>
ManifestAccepts(v) == verifier[v] # <<>> /\ Inputs(verifier[v][1]) = Inputs(Current[v])
ManifestPasses == \A v \in Verifiers : ManifestAccepts(v)

(* When the manifest check passes, every verifier is of the circuit that   *)
(* the contracts use, although the v1 builders write their own over it.    *)
ManifestSeesV1 == ManifestPasses => \A v \in Verifiers : verifier[v][1] = Current[v]

(* check_metadata_authority, of the Prover.toml files: "they must stay     *)
(* untracked/transient".  Builders that all ended as they should leave the *)
(* tree in a state that passes.                                            *)
WitnessesAreTransient == run = None /\ faulty = {} => toml = {}

(* build_landmark_mint_fixture: "scp proof + PI back, deserialize, save    *)
(* fixture JSON".  A run that nothing made fail leaves a whole fixture.    *)
MintFixtureIsWhole ==
  "landmark_mint" \in Launched /\ run = None /\ "landmark_mint" \notin faulty =>
    fixture["landmark_mint"].made = fixture["landmark_mint"].meta

(* build_face_disc_fixture: "The two fixtures together form a complete     *)
(* mint: the contract verifies BOTH proofs".  A published proof verifies.  *)
RemoteProofsVerify ==
  "face_disc" \in Launched =>
    \A i \in DOMAIN fixture["face_disc"].list : fixture["face_disc"].list[i].verified
================================================================================
