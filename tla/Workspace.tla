-------------------------------- MODULE Workspace --------------------------------
(***************************************************************************)
(* How the Python tools make proofs: every process writes its witness to   *)
(* the one Prover.toml of a circuit's directory, runs nargo and bb there,  *)
(* and reads the result back from that directory before it writes its own  *)
(* fixture.  Nothing locks the directory, processes may be killed at any   *)
(* step, and the circuit may be edited between two runs.                   *)
(***************************************************************************)
EXTENDS Naturals, Sequences, FiniteSets

CONSTANTS
  Jobs,       \* one run of a tool each
  Kinds,      \* model bound: which tools the jobs run, in each instance
  MaxRunning, \* model bound: processes running at once
  MaxEdits,   \* model bound: edits of a circuit
  Edited,     \* model bound: the circuits that are edited
  None

(* The builders of a mutation, a batch, an insertion, a transfer and a     *)
(* solution, and of the inbox encrypt_fields and encrypt_and_prove.        *)
Builders == {"mutate", "batch", "insert", "transfer", "solve"}
ASSUME KindAssumption == Kinds \subseteq [Jobs -> Builders \cup {"inbox", "sealed"}]
ASSUME BoundsAssumption == MaxRunning \in Nat /\ MaxEdits \in Nat

VARIABLES
  kind,       \* the tool each job runs
  toml,       \* the witness in each circuit's Prover.toml, None when absent
  source,     \* how often each circuit was edited
  target,     \* what nargo execute left: compiled version and solved witness
  vk,         \* the version target/vk was written for, None when absent
  proofDir,   \* the last proof bb left in each output directory
  pc, step,   \* of each process: where it is, and in which of its proofs
  got,        \* of each process: what it read back
  out,        \* the fixture directory, the same --out-seed for every builder
  overlapped, \* history: processes that ever ran together with another one
  killed,     \* history: processes that were killed
  torn        \* history: the fixture was abandoned between its files

shared == <<toml, source, target, vk, proofDir>>
history == <<overlapped, killed>>
vars == <<kind, shared, pc, step, got, out, history, torn>>

Circuits == {"mutate_slot", "shadow_t10", "transfer_shadow_v2", "solve_shadow_v2",
             "secret_inbox", "_poseidon2_state_helper", "_ecies_keystream_helper"}
ASSUME EditedAssumption == Edited \subseteq Circuits

(* The circuits a tool goes through, with the output directory of bb, which*)
(* a helper does not have: its result is what nargo execute prints.        *)
MutateProofs == <<<<"mutate_slot", "proof_dir">>, <<"shadow_t10", "proof_dir">>>>
InsertProofs == <<<<"mutate_slot", "proof_dir">>, <<"shadow_t10", "proof_dir">>>>
BatchProofs == <<<<"mutate_slot", "proof_dir_a">>, <<"mutate_slot", "proof_dir_b">>,
                 <<"shadow_t10", "proof_dir">>>>
TransferProofs ==
  <<<<"transfer_shadow_v2", "proof_dir">>, <<"shadow_t10", "proof_dir">>>>
SolveProofs == <<<<"solve_shadow_v2", "proof_dir">>>>
EncryptFields == <<<<"_poseidon2_state_helper", None>>,
                   <<"_ecies_keystream_helper", None>>>>
EncryptAndProve == <<<<"_poseidon2_state_helper", None>>,
                     <<"secret_inbox", "target/proof">>>>

Proofs(j) ==
  CASE kind[j] = "mutate"   -> MutateProofs
    [] kind[j] = "insert"   -> InsertProofs
    [] kind[j] = "batch"    -> BatchProofs
    [] kind[j] = "transfer" -> TransferProofs
    [] kind[j] = "solve"    -> SolveProofs
    [] kind[j] = "inbox"    -> EncryptFields
    [] kind[j] = "sealed"   -> EncryptAndProve

Builder(j) == kind[j] \in Builders
Circuit(j) == Proofs(j)[step[j]][1]
Dir(j) == Proofs(j)[step[j]]
IsHelper(j) == Dir(j)[2] = None

Witness(j) == <<j, step[j]>>
Running(j) == pc[j] \notin {"idle", "done", "dead"}

Goto(j, label) == pc' = [pc EXCEPT ![j] = label]

(* Faulty variant: only the file of the last proof is removed.             *)
CleanedAtExit_LastOnly(j) == {Circuit(j)}

(* The builders register the removal of their files with atexit, the inbox *)
(* removes its one in a finally; a batch leaves them.  A path is removed,  *)
(* whoever wrote it last.                                                  *)
CleanedAtExit(j) ==
  CASE kind[j] = "batch" -> {}
    [] kind[j] \in Builders \ {"batch"} -> {Proofs(j)[k][1] : k \in 1..step[j]}
    [] ~Builder(j) -> IF pc[j] \in {"execute", "prove", "unlink"}
                      THEN {Circuit(j)} ELSE {}
AfterExit(j) == [c \in Circuits |-> IF c \in CleanedAtExit(j) THEN None ELSE toml[c]]
--------------------------------------------------------------------------------
Init ==
  /\ kind \in Kinds
  /\ toml = [c \in Circuits |-> None]
  /\ source = [c \in Circuits |-> 0]
  /\ target = [c \in Circuits |-> None]
  /\ vk = [c \in Circuits |-> None]
  /\ proofDir = [d \in {} |-> None]
  /\ pc = [j \in Jobs |-> "idle"]
  /\ step = [j \in Jobs |-> 1]
  /\ got = [j \in Jobs |-> <<>>]
  /\ out = [proofs |-> <<>>, meta |-> None]
  /\ overlapped = {}
  /\ killed = {}
  /\ torn = FALSE

(* encrypt_and_prove looks for its circuit and key before it writes.       *)
FirstStep(j, k) ==
  IF Proofs(j)[k][1] = "secret_inbox" THEN "ensure" ELSE "write"

Start(j) ==
  LET others == {i \in Jobs : Running(i)}
  IN /\ pc[j] = "idle"
     /\ Cardinality(others) < MaxRunning
     /\ Goto(j, FirstStep(j, 1))
     /\ overlapped' = IF others = {} THEN overlapped
                      ELSE overlapped \cup others \cup {j}
     /\ UNCHANGED <<shared, step, got, out, killed, torn>>

EditCircuit(c) ==
  /\ source[c] < MaxEdits
  /\ source' = [source EXCEPT ![c] = @ + 1]
  /\ UNCHANGED <<toml, target, vk, proofDir, pc, step, got, out, history, torn>>

(* _ensure_secret_inbox_built compiles and writes the key only if missing. *)
EnsureBuilt(j) ==
  LET c == Circuit(j)
      built == IF target[c] = None THEN source[c] ELSE target[c].version
  IN /\ pc[j] = "ensure"
     /\ vk' = IF vk[c] # None THEN vk ELSE [vk EXCEPT ![c] = built]
     /\ target' = IF target[c] # None THEN target
                  ELSE [target EXCEPT ![c] = [version |-> built, witness |-> None]]
     /\ Goto(j, "write")
     /\ UNCHANGED <<toml, source, proofDir, step, got, out, history, torn>>

WriteToml(j) ==
  /\ pc[j] = "write"
  /\ toml' = [toml EXCEPT ![Circuit(j)] = Witness(j)]
  /\ Goto(j, "execute")
  /\ UNCHANGED <<source, target, vk, proofDir, step, got, out, history, torn>>

(* A subprocess that exits nonzero, and a timeout: the process ends, its   *)
(* finally and atexit handlers run.                                        *)
Dies(j) ==
  /\ Goto(j, "dead")
  /\ toml' = AfterExit(j)
  /\ torn' = (torn \/ pc[j] = "meta")

(* nargo execute compiles what was edited and solves the witness it finds. *)
Execute(j) ==
  LET c == Circuit(j)
  IN /\ pc[j] = "execute"
     /\ IF toml[c] = None
        THEN /\ Dies(j)
             /\ UNCHANGED <<target, got>>
        ELSE /\ target' = [target EXCEPT ![c] = [version |-> source[c], witness |-> toml[c]]]
             /\ got' = IF IsHelper(j) THEN [got EXCEPT ![j] = Append(@, [own |-> toml[c]])]
                       ELSE got
             /\ Goto(j, IF IsHelper(j) THEN "unlink"
                        ELSE IF Builder(j) THEN "vk" ELSE "prove")
             /\ UNCHANGED <<toml, torn>>
     /\ UNCHANGED <<source, vk, proofDir, step, out, history>>

KeepsKey(j) == kind[j] = "batch"

WriteVk(j) ==
  LET c == Circuit(j)
  IN /\ pc[j] = "vk"
     /\ vk' = IF KeepsKey(j) /\ vk[c] # None THEN vk
              ELSE [vk EXCEPT ![c] = target[c].version]
     /\ Goto(j, "prove")
     /\ UNCHANGED <<toml, source, target, proofDir, step, got, out, history, torn>>

(* Faulty variant: the proof an earlier run left is used again.            *)
Proof_Reused(j) ==
  LET t == target[Circuit(j)]
  IN IF Dir(j) \in DOMAIN proofDir THEN proofDir[Dir(j)]
     ELSE [witness |-> t.witness, version |-> t.version, key |-> vk[Circuit(j)]]

Proof(j) ==
  LET t == target[Circuit(j)]
  IN [witness |-> t.witness, version |-> t.version, key |-> vk[Circuit(j)]]

Prove(j) ==
  /\ pc[j] = "prove"
  /\ proofDir' = [d \in DOMAIN proofDir \cup {Dir(j)} |->
                    IF d = Dir(j) THEN Proof(j) ELSE proofDir[d]]
  /\ Goto(j, IF kind[j] = "sealed" THEN "unlink" ELSE "verify")
  /\ UNCHANGED <<toml, source, target, vk, step, got, out, history, torn>>

(* A proof verifies under the key of the version it was made for.          *)
Verifies(p, key) == p.version = key /\ p.key = key

Verify(j) ==
  /\ pc[j] = "verify"
  /\ IF Verifies(proofDir[Dir(j)], vk[Circuit(j)])
     THEN Goto(j, "read") /\ UNCHANGED <<toml, torn>>
     ELSE Dies(j)
  /\ UNCHANGED <<source, target, vk, proofDir, step, got, out, overlapped, killed>>

(* Past its last proof a builder writes its fixture; the inbox returns.    *)
Advance(j) ==
  IF step[j] < Len(Proofs(j))
  THEN step' = [step EXCEPT ![j] = @ + 1] /\ Goto(j, FirstStep(j, step[j] + 1))
  ELSE UNCHANGED step /\ Goto(j, IF Builder(j) THEN "files" ELSE "done")

Read(j) ==
  LET p == proofDir[Dir(j)]
  IN /\ pc[j] = "read"
     /\ got' = [got EXCEPT ![j] = Append(@, [own |-> p.witness])]
     /\ Advance(j)
     /\ UNCHANGED <<shared, out, history, torn>>

Unlinked(j) == [toml EXCEPT ![Circuit(j)] = None]

Unlink(j) ==
  /\ pc[j] = "unlink"
  /\ toml' = Unlinked(j)
  /\ IF IsHelper(j) THEN Advance(j) ELSE Goto(j, "read") /\ UNCHANGED step
  /\ UNCHANGED <<source, target, vk, proofDir, got, out, history, torn>>

(* Faulty variant: files that are there already are kept.                  *)
WriteProofs_KeepsOld(j) ==
  /\ pc[j] = "files"
  /\ out' = IF out.proofs = <<>> THEN [out EXCEPT !.proofs = got[j]] ELSE out
  /\ Goto(j, "meta")
  /\ UNCHANGED <<shared, step, got, history, torn>>

WriteProofs(j) ==
  /\ pc[j] = "files"
  /\ out' = [out EXCEPT !.proofs = got[j]]
  /\ Goto(j, "meta")
  /\ UNCHANGED <<shared, step, got, history, torn>>

(* Of a fixture the proofs and the meta are followed.  Its other files, as *)
(* the plaintexts.json that a transfer writes after the meta, are not.     *)
WriteMeta(j) ==
  /\ pc[j] = "meta"
  /\ out' = [out EXCEPT !.meta = j]
  /\ torn' = FALSE
  /\ toml' = AfterExit(j)
  /\ Goto(j, "done")
  /\ UNCHANGED <<source, target, vk, proofDir, step, got, history>>

Fail(j) ==
  /\ Running(j)
  /\ Dies(j)
  /\ UNCHANGED <<source, target, vk, proofDir, step, got, out, history>>

Kill(j) ==
  /\ Running(j)
  /\ Goto(j, "dead")
  /\ killed' = killed \cup {j}
  /\ torn' = (torn \/ pc[j] = "meta")
  /\ UNCHANGED <<shared, step, got, out, overlapped>>

Next ==
  /\ UNCHANGED kind
  /\ \/ \E j \in Jobs :
          \/ Start(j) \/ EnsureBuilt(j) \/ WriteToml(j) \/ Execute(j) \/ WriteVk(j)
          \/ Prove(j) \/ Verify(j) \/ Read(j) \/ Unlink(j) \/ WriteProofs(j)
          \/ WriteMeta(j) \/ Fail(j) \/ Kill(j)
     \/ \E c \in Edited : EditCircuit(c)

Spec == Init /\ [][Next]_vars
--------------------------------------------------------------------------------
(* A process that never shared the workspace reads back its own proofs and *)
(* nothing that an earlier, killed or failed, process left there: neither  *)
(* a stale witness, nor a stale proof, nor a stale compilation.            *)
ReadsItsOwn ==
  \A j \in Jobs \ overlapped : \A k \in DOMAIN got[j] : got[j][k].own = <<j, k>>

(* The fixture on disk is the one its meta.json describes, unless a builder*)
(* was stopped between writing the proofs and the meta or one that wrote to*)
(* it was disturbed.                                                       *)
FixtureIsWhole ==
  out.meta # None /\ ~torn /\ overlapped = {} /\ (\A j \in Jobs : pc[j] # "meta") =>
    /\ Len(out.proofs) = Len(Proofs(out.meta))
    /\ \A k \in DOMAIN out.proofs : out.proofs[k].own = <<out.meta, k>>

(* However processes overlap and fail, a witness is on disk only while the *)
(* process that wrote it runs, after it was killed, or if it is a batch's. *)
WitnessGoesWithItsProcess ==
  \A c \in Circuits :
    toml[c] # None =>
      LET j == toml[c][1]
      IN kind[j] = "batch" \/ Running(j) \/ j \in killed

(* Documented: a tool deletes its witness file after proof generation.     *)
WitnessDeletedAtExit ==
  \A c \in Circuits : toml[c] # None => pc[toml[c][1]] # "done"
================================================================================
