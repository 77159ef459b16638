---------------------------- MODULE Workspace_proofs ----------------------------
(* The workspace for any number of jobs, any instance of tools and any     *)
(* number of edits: what a process that is not disturbed reads back, what  *)
(* the fixture then holds, and how long a witness stays on disk.           *)
EXTENDS Workspace, TLAPS

Labels == {"idle", "ensure", "write", "execute", "vk", "prove", "verify", "unlink",
           "read", "files", "meta", "done", "dead"}

Witnesses == (Jobs \X Nat) \cup {None}
Compiled == [version : Nat, witness : Witnesses]
ProofFile == [witness : Witnesses, version : Nat, key : Nat \cup {None}]
Results == Seq([own : Witnesses])

(* bb has left the proof of j's current step and j has not read it yet.    *)
HasProof(j) ==
  pc[j] \in {"verify", "read"} \/ (pc[j] = "unlink" /\ ~IsHelper(j))

(* What a process looks at is there, whoever else runs.                    *)
Positioned(j) ==
  /\ step[j] \in 1..Len(Proofs(j))
  /\ pc[j] \in {"vk", "prove"} => target[Circuit(j)] \in Compiled /\ ~IsHelper(j)
  /\ HasProof(j) => Dir(j) \in DOMAIN proofDir

WorkTypeOK ==
  /\ kind \in Kinds
  /\ toml \in [Circuits -> Witnesses]
  /\ source \in [Circuits -> Nat]
  /\ target \in [Circuits -> Compiled \cup {None}]
  /\ vk \in [Circuits -> Nat \cup {None}]
  /\ \A d \in DOMAIN proofDir : proofDir[d] \in ProofFile
  /\ pc \in [Jobs -> Labels]
  /\ step \in [Jobs -> Nat]
  /\ got \in [Jobs -> Results]
  /\ out \in [proofs : Results, meta : Jobs \cup {None}]
  /\ overlapped \in SUBSET Jobs
  /\ killed \in SUBSET Jobs
  /\ torn \in BOOLEAN
  /\ \A j \in Jobs : Positioned(j)

JobStep(j) ==
  \/ Start(j) \/ EnsureBuilt(j) \/ WriteToml(j) \/ Execute(j) \/ WriteVk(j)
  \/ Prove(j) \/ Verify(j) \/ Read(j) \/ Unlink(j) \/ WriteProofs(j)
  \/ WriteMeta(j) \/ Fail(j) \/ Kill(j)

LEMMA AppendType ==
  ASSUME NEW S, NEW s \in Seq(S), NEW e \in S
  PROVE  Append(s, e) \in Seq(S)
OBVIOUS

LEMMA ProofsLemma ==
  ASSUME kind \in Kinds, NEW j \in Jobs
  PROVE  /\ Len(Proofs(j)) \in Nat \ {0}
         /\ \A k \in 1..Len(Proofs(j)) : Proofs(j)[k][1] \in Circuits
         /\ kind[j] = "inbox" => \A k \in 1..Len(Proofs(j)) : Proofs(j)[k][2] = None
         /\ kind[j] \in Builders \cup {"inbox", "sealed"}
<1>1. kind[j] \in Builders \cup {"inbox", "sealed"}
  BY KindAssumption
<1>2. CASE kind[j] = "mutate"
  BY <1>1, <1>2 DEF Proofs, MutateProofs, Circuits
<1>3. CASE kind[j] = "insert"
  BY <1>1, <1>3 DEF Proofs, InsertProofs, Circuits
<1>4. CASE kind[j] = "batch"
  BY <1>1, <1>4 DEF Proofs, BatchProofs, Circuits
<1>5. CASE kind[j] = "transfer"
  BY <1>1, <1>5 DEF Proofs, TransferProofs, Circuits
<1>6. CASE kind[j] = "solve"
  BY <1>1, <1>6 DEF Proofs, SolveProofs, Circuits
<1>7. CASE kind[j] = "inbox"
  BY <1>1, <1>7 DEF Proofs, EncryptFields, Circuits
<1>8. CASE kind[j] = "sealed"
  BY <1>1, <1>8 DEF Proofs, EncryptAndProve, Circuits
<1> QED BY <1>1, <1>2, <1>3, <1>4, <1>5, <1>6, <1>7, <1>8 DEF Builders

(* The tool a process runs does not change, nor do its circuits.           *)
LEMMA SameTools ==
  ASSUME UNCHANGED kind, NEW i \in Jobs
  PROVE  /\ Proofs(i)' = Proofs(i) /\ Builder(i)' = Builder(i)
         /\ step'[i] = step[i] =>
              /\ Circuit(i)' = Circuit(i) /\ Dir(i)' = Dir(i)
              /\ IsHelper(i)' = IsHelper(i) /\ Witness(i)' = Witness(i)
<1>1. Proofs(i)' = Proofs(i) /\ Builder(i)' = Builder(i)
  BY DEF Proofs, Builder
<1> QED BY <1>1 DEF Circuit, Dir, IsHelper, Witness

(* A step of one process moves no other, and takes nothing away that       *)
(* another one needs but witnesses and proofs of the same name.            *)
LEMMA StepOfOne ==
  ASSUME WorkTypeOK, NEW j \in Jobs, JobStep(j)
  PROVE  /\ \A i \in Jobs : i # j => /\ pc'[i] = pc[i]
                                     /\ step'[i] = step[i]
                                     /\ got'[i] = got[i]
         /\ \A c \in Circuits : target[c] \in Compiled => target'[c] \in Compiled
         /\ DOMAIN proofDir \subseteq DOMAIN proofDir'
         /\ overlapped \subseteq overlapped'
         /\ killed \subseteq killed'
<1>T. /\ pc \in [Jobs -> Labels] /\ step \in [Jobs -> Nat] /\ got \in [Jobs -> Results]
      /\ toml \in [Circuits -> Witnesses]
      /\ source \in [Circuits -> Nat]
      /\ target \in [Circuits -> Compiled \cup {None}]
  BY DEF WorkTypeOK
<1>1. CASE Start(j)
  BY <1>1, <1>T DEF Start, Goto, shared
<1>2. CASE EnsureBuilt(j)
  <2> DEFINE c == Circuit(j)
             built == IF target[c] = None THEN source[c] ELSE target[c].version
  <2>1. target' = IF target[c] # None THEN target
                  ELSE [target EXCEPT ![c] = [version |-> built, witness |-> None]]
    BY <1>2 DEF EnsureBuilt
  <2>2. c \in Circuits => built \in Nat
    BY <1>T DEF Compiled
  <2>3. c \in Circuits => [version |-> built, witness |-> None] \in Compiled
    BY <2>2 DEF Compiled, Witnesses
  <2> HIDE DEF built
  <2>4. \A d \in Circuits : target[d] \in Compiled => target'[d] \in Compiled
    BY <2>1, <2>3, <1>T
  <2> QED BY <1>2, <2>4, <1>T DEF EnsureBuilt, Goto, history
<1>3. CASE WriteToml(j)
  BY <1>3, <1>T DEF WriteToml, Goto, history
<1>4. CASE Execute(j)
  <2>1. \A i \in Jobs : i # j => /\ pc'[i] = pc[i]
                                 /\ step'[i] = step[i]
                                 /\ got'[i] = got[i]
    BY <1>4, <1>T DEF Execute, Goto, Dies, history
  <2>2. \A c \in Circuits : target[c] \in Compiled => target'[c] \in Compiled
    <3>1. CASE UNCHANGED target
      BY <3>1
    <3>2. CASE target' = [target EXCEPT ![Circuit(j)] =
                 [version |-> source[Circuit(j)], witness |-> toml[Circuit(j)]]]
      BY <3>2, <1>T DEF Compiled
    <3> QED BY <1>4, <3>1, <3>2 DEF Execute
  <2> QED BY <1>4, <2>1, <2>2 DEF Execute, history
<1>5. CASE WriteVk(j)
  BY <1>5, <1>T DEF WriteVk, Goto, history
<1>6. CASE Prove(j)
  BY <1>6, <1>T DEF Prove, Goto, history
<1>7. CASE Verify(j)
  BY <1>7, <1>T DEF Verify, Goto, Dies
<1>8. CASE Read(j)
  BY <1>8, <1>T DEF Read, Advance, Goto, shared, history
<1>9. CASE Unlink(j)
  BY <1>9, <1>T DEF Unlink, Advance, Goto, history
<1>10. CASE WriteProofs(j)
  BY <1>10, <1>T DEF WriteProofs, Goto, shared, history
<1>11. CASE WriteMeta(j)
  BY <1>11, <1>T DEF WriteMeta, Goto, history
<1>12. CASE Fail(j)
  BY <1>12, <1>T DEF Fail, Dies, Goto, history
<1>13. CASE Kill(j)
  BY <1>13, <1>T DEF Kill, Goto, shared
<1> QED BY <1>1, <1>2, <1>3, <1>4, <1>5, <1>6, <1>7, <1>8, <1>9, <1>10, <1>11, <1>12,
           <1>13 DEF JobStep

(* The exit handlers leave well-typed files.                               *)
LEMMA ExitType ==
  ASSUME toml \in [Circuits -> Witnesses], NEW j \in Jobs
  PROVE  AfterExit(j) \in [Circuits -> Witnesses]
BY DEF AfterExit, Witnesses

(* Past a proof a process is at its next one, or past its last.            *)
LEMMA AdvanceLemma ==
  ASSUME WorkTypeOK, NEW j \in Jobs, Advance(j)
  PROVE  /\ pc' \in [Jobs -> Labels]
         /\ step' \in [Jobs -> Nat]
         /\ step'[j] \in 1..Len(Proofs(j))
         /\ \/ step'[j] = step[j] + 1 /\ pc'[j] \in {"ensure", "write"}
            \/ /\ step'[j] = step[j] /\ step[j] = Len(Proofs(j))
               /\ pc'[j] = IF Builder(j) THEN "files" ELSE "done"
<1>T. /\ pc \in [Jobs -> Labels] /\ step \in [Jobs -> Nat]
      /\ step[j] \in 1..Len(Proofs(j)) /\ Len(Proofs(j)) \in Nat
  BY ProofsLemma DEF WorkTypeOK, Positioned
<1>1. CASE step[j] < Len(Proofs(j))
  BY <1>1, <1>T DEF Advance, Goto, FirstStep, Labels
<1>2. CASE ~(step[j] < Len(Proofs(j)))
  BY <1>2, <1>T DEF Advance, Goto, Labels
<1> QED BY <1>1, <1>2

(* Every step of a process leaves every variable in its type.              *)
LEMMA JobTypeStep ==
  ASSUME WorkTypeOK, NEW j \in Jobs, JobStep(j), UNCHANGED kind
  PROVE  WorkTypeOK'
<1>T. /\ kind \in Kinds
      /\ toml \in [Circuits -> Witnesses]
      /\ source \in [Circuits -> Nat]
      /\ target \in [Circuits -> Compiled \cup {None}]
      /\ vk \in [Circuits -> Nat \cup {None}]
      /\ \A d \in DOMAIN proofDir : proofDir[d] \in ProofFile
      /\ pc \in [Jobs -> Labels]
      /\ step \in [Jobs -> Nat]
      /\ got \in [Jobs -> Results]
      /\ out \in [proofs : Results, meta : Jobs \cup {None}]
      /\ overlapped \in SUBSET Jobs
      /\ killed \in SUBSET Jobs
      /\ torn \in BOOLEAN
      /\ \A i \in Jobs : Positioned(i)
  BY DEF WorkTypeOK
<1>C. /\ Circuit(j) \in Circuits /\ step[j] \in 1..Len(Proofs(j))
      /\ Proofs(j)' = Proofs(j) /\ Builder(j)' = Builder(j)
  BY <1>T, ProofsLemma, SameTools DEF Circuit, Positioned
<1> DEFINE Typed ==
             /\ toml' \in [Circuits -> Witnesses]
             /\ source' \in [Circuits -> Nat]
             /\ target' \in [Circuits -> Compiled \cup {None}]
             /\ vk' \in [Circuits -> Nat \cup {None}]
             /\ \A d \in DOMAIN proofDir' : proofDir'[d] \in ProofFile
             /\ pc' \in [Jobs -> Labels]
             /\ step' \in [Jobs -> Nat]
             /\ got' \in [Jobs -> Results]
             /\ out' \in [proofs : Results, meta : Jobs \cup {None}]
             /\ overlapped' \in SUBSET Jobs
             /\ killed' \in SUBSET Jobs
             /\ torn' \in BOOLEAN
             /\ Positioned(j)'
<1>0. ASSUME pc'[j] \in {"idle", "ensure", "write", "execute", "files", "meta", "done", "dead"},
             step'[j] \in 1..Len(Proofs(j))
      PROVE  Positioned(j)'
  BY <1>0, <1>C DEF Positioned, HasProof
<1>D. ASSUME Dies(j), UNCHANGED step
      PROVE  /\ toml' \in [Circuits -> Witnesses] /\ pc' \in [Jobs -> Labels]
             /\ torn' \in BOOLEAN
             /\ Positioned(j)'
  BY <1>D, <1>0, <1>T, <1>C, ExitType DEF Dies, Goto, Labels
<1>1. ASSUME Start(j) PROVE Typed
  <2>1. pc' \in [Jobs -> Labels] /\ pc'[j] \in {"ensure", "write"}
    BY <1>1, <1>T DEF Start, Goto, FirstStep, Labels
  <2> QED BY <1>1, <2>1, <1>0, <1>C, <1>T DEF Start, shared
<1>2. ASSUME EnsureBuilt(j) PROVE Typed
  <2> DEFINE c == Circuit(j)
             built == IF target[c] = None THEN source[c] ELSE target[c].version
  <2>1. built \in Nat
    BY <1>T, <1>C DEF Compiled
  <2>2. [version |-> built, witness |-> None] \in Compiled
    BY <2>1 DEF Compiled, Witnesses
  <2>3. /\ vk' = IF vk[c] # None THEN vk ELSE [vk EXCEPT ![c] = built]
        /\ target' = IF target[c] # None THEN target
                     ELSE [target EXCEPT ![c] = [version |-> built, witness |-> None]]
    BY <1>2 DEF EnsureBuilt
  <2> HIDE DEF built
  <2>4. target' \in [Circuits -> Compiled \cup {None}] /\ vk' \in [Circuits -> Nat \cup {None}]
    BY <1>T, <2>1, <2>2, <2>3
  <2>5. pc' \in [Jobs -> Labels] /\ pc'[j] = "write"
    BY <1>2, <1>T DEF EnsureBuilt, Goto, Labels
  <2> QED BY <1>2, <2>4, <2>5, <1>0, <1>T, <1>C DEF EnsureBuilt, history
<1>3. ASSUME WriteToml(j) PROVE Typed
  <2>1. Witness(j) \in Witnesses
    BY <1>T DEF Witness, Witnesses
  <2>2. pc' \in [Jobs -> Labels] /\ pc'[j] = "execute"
    BY <1>3, <1>T DEF WriteToml, Goto, Labels
  <2> QED BY <1>3, <2>1, <2>2, <1>0, <1>T, <1>C DEF WriteToml, history
<1>4. ASSUME Execute(j) PROVE Typed
  <2>1. CASE toml[Circuit(j)] = None
    BY <1>4, <2>1, <1>D, <1>T DEF Execute, history
  <2>2. CASE toml[Circuit(j)] # None
    <3> DEFINE c == Circuit(j)
    <3>1. /\ target' = [target EXCEPT ![c] = [version |-> source[c], witness |-> toml[c]]]
          /\ [version |-> source[c], witness |-> toml[c]] \in Compiled
      BY <1>4, <2>2, <1>T, <1>C DEF Execute, Compiled
    <3>2. target' \in [Circuits -> Compiled \cup {None}] /\ target'[c] \in Compiled
      BY <3>1, <1>T, <1>C
    <3>3. got' \in [Jobs -> Results]
      <4>1. [own |-> toml[c]] \in [own : Witnesses]
        BY <1>T, <1>C
      <4>2. Append(got[j], [own |-> toml[c]]) \in Results
        BY <4>1, <1>T, AppendType DEF Results
      <4> QED BY <1>4, <2>2, <4>2, <1>T DEF Execute
    <3>4. /\ pc' \in [Jobs -> Labels]
          /\ pc'[j] = IF IsHelper(j) THEN "unlink" ELSE IF Builder(j) THEN "vk" ELSE "prove"
      BY <1>4, <2>2, <1>T DEF Execute, Goto, Labels
    <3>5. step' = step /\ IsHelper(j)' = IsHelper(j) /\ Circuit(j)' = Circuit(j)
      BY <1>4, <1>T, SameTools DEF Execute
    <3>6. Positioned(j)'
      BY <3>2, <3>4, <3>5, <1>C DEF Positioned, HasProof
    <3> QED BY <1>4, <2>2, <3>2, <3>3, <3>4, <3>6, <1>T DEF Execute, history
  <2> QED BY <2>1, <2>2
<1>5. ASSUME WriteVk(j) PROVE Typed
  <2>1. target[Circuit(j)] \in Compiled /\ ~IsHelper(j)
    BY <1>5, <1>T DEF WriteVk, Positioned
  <2>2. target[Circuit(j)].version \in Nat
    BY <2>1 DEF Compiled
  <2>3. vk' \in [Circuits -> Nat \cup {None}]
    BY <1>5, <2>2, <1>T DEF WriteVk
  <2>4. pc' \in [Jobs -> Labels] /\ pc'[j] = "prove" /\ step' = step /\ target' = target
    BY <1>5, <1>T DEF WriteVk, Goto, Labels
  <2>5. Positioned(j)'
    BY <2>1, <2>4, <1>C, SameTools DEF Positioned, HasProof
  <2> QED BY <1>5, <2>3, <2>4, <2>5, <1>T DEF WriteVk, history
<1>6. ASSUME Prove(j) PROVE Typed
  <2>1. target[Circuit(j)] \in Compiled /\ ~IsHelper(j)
    BY <1>6, <1>T DEF Prove, Positioned
  <2>2. Proof(j) \in ProofFile
    BY <2>1, <1>T, <1>C DEF Proof, ProofFile, Compiled
  <2>3. proofDir' = [d \in DOMAIN proofDir \cup {Dir(j)} |->
                       IF d = Dir(j) THEN Proof(j) ELSE proofDir[d]]
    BY <1>6 DEF Prove
  <2>4. /\ DOMAIN proofDir' = DOMAIN proofDir \cup {Dir(j)}
        /\ \A d \in DOMAIN proofDir' : proofDir'[d] \in ProofFile
    BY <2>2, <2>3, <1>T
  <2>5. /\ pc' \in [Jobs -> Labels] /\ step' = step
        /\ pc'[j] \in {"unlink", "verify"}
    BY <1>6, <1>T DEF Prove, Goto, Labels
  <2>6. Dir(j)' = Dir(j) /\ IsHelper(j)' = IsHelper(j)
    BY <2>5, SameTools
  <2>7. Positioned(j)'
    BY <2>1, <2>4, <2>5, <2>6, <1>C DEF Positioned, HasProof
  <2> QED BY <1>6, <2>4, <2>5, <2>7, <1>T DEF Prove, history
<1>7. ASSUME Verify(j) PROVE Typed
  <2>1. CASE Dies(j)
    BY <1>7, <2>1, <1>D, <1>T DEF Verify
  <2>2. CASE Goto(j, "read") /\ UNCHANGED <<toml, torn>>
    <3>1. pc' \in [Jobs -> Labels] /\ pc'[j] = "read" /\ UNCHANGED <<step, proofDir>>
      BY <1>7, <2>2, <1>T DEF Verify, Goto, Labels
    <3>2. Dir(j) \in DOMAIN proofDir
      BY <1>7, <1>T DEF Verify, Positioned, HasProof
    <3>3. Positioned(j)'
      BY <3>1, <3>2, <1>C, SameTools DEF Positioned, HasProof
    <3> QED BY <1>7, <2>2, <3>1, <3>3, <1>T DEF Verify
  <2> QED BY <1>7, <2>1, <2>2 DEF Verify
<1>8. ASSUME Read(j) PROVE Typed
  <2>1. Dir(j) \in DOMAIN proofDir
    BY <1>8, <1>T DEF Read, Positioned, HasProof
  <2>2. [own |-> proofDir[Dir(j)].witness] \in [own : Witnesses]
    BY <2>1, <1>T DEF ProofFile
  <2>3. Append(got[j], [own |-> proofDir[Dir(j)].witness]) \in Results
    BY <2>2, <1>T, AppendType DEF Results
  <2>4. got' \in [Jobs -> Results]
    BY <1>8, <2>3, <1>T DEF Read
  <2>5. /\ pc' \in [Jobs -> Labels] /\ step' \in [Jobs -> Nat]
        /\ step'[j] \in 1..Len(Proofs(j))
        /\ pc'[j] \in {"ensure", "write", "files", "done"}
    BY <1>8, AdvanceLemma DEF Read
  <2> QED BY <1>8, <2>4, <2>5, <1>0, <1>T DEF Read, shared, history
<1>9. ASSUME Unlink(j) PROVE Typed
  <2>1. toml' \in [Circuits -> Witnesses]
    BY <1>9, <1>T DEF Unlink, Unlinked, Witnesses
  <2>2. CASE IsHelper(j)
    <3>1. /\ pc' \in [Jobs -> Labels] /\ step' \in [Jobs -> Nat]
          /\ step'[j] \in 1..Len(Proofs(j))
          /\ pc'[j] \in {"ensure", "write", "files", "done"}
      BY <1>9, <2>2, AdvanceLemma DEF Unlink
    <3> QED BY <1>9, <2>1, <3>1, <1>0, <1>T DEF Unlink, history
  <2>3. CASE ~IsHelper(j)
    <3>1. pc' \in [Jobs -> Labels] /\ pc'[j] = "read" /\ UNCHANGED <<step, proofDir>>
      BY <1>9, <2>3, <1>T DEF Unlink, Goto, Labels
    <3>2. Dir(j) \in DOMAIN proofDir
      BY <1>9, <2>3, <1>T DEF Unlink, Positioned, HasProof
    <3>3. Positioned(j)'
      BY <3>1, <3>2, <1>C, SameTools DEF Positioned, HasProof
    <3> QED BY <1>9, <2>1, <3>1, <3>3, <1>T DEF Unlink, history
  <2> QED BY <2>2, <2>3
<1>10. ASSUME WriteProofs(j) PROVE Typed
  <2>1. pc' \in [Jobs -> Labels] /\ pc'[j] = "meta"
    BY <1>10, <1>T DEF WriteProofs, Goto, Labels
  <2>2. out' \in [proofs : Results, meta : Jobs \cup {None}]
    BY <1>10, <1>T DEF WriteProofs
  <2> QED BY <1>10, <2>1, <2>2, <1>0, <1>C, <1>T DEF WriteProofs, shared, history
<1>11. ASSUME WriteMeta(j) PROVE Typed
  <2>1. pc' \in [Jobs -> Labels] /\ pc'[j] = "done" /\ toml' \in [Circuits -> Witnesses]
    BY <1>11, <1>T, ExitType DEF WriteMeta, Goto, Labels
  <2>2. out' \in [proofs : Results, meta : Jobs \cup {None}]
    BY <1>11, <1>T DEF WriteMeta
  <2> QED BY <1>11, <2>1, <2>2, <1>0, <1>C, <1>T DEF WriteMeta, history
<1>12. ASSUME Fail(j) PROVE Typed
  BY <1>12, <1>D, <1>T DEF Fail, history
<1>13. ASSUME Kill(j) PROVE Typed
  <2>1. pc' \in [Jobs -> Labels] /\ pc'[j] = "dead"
    BY <1>13, <1>T DEF Kill, Goto, Labels
  <2> QED BY <1>13, <2>1, <1>0, <1>C, <1>T DEF Kill, shared
<1> HIDE DEF Typed
<1>14. Typed
  BY <1>1, <1>2, <1>3, <1>4, <1>5, <1>6, <1>7, <1>8, <1>9, <1>10, <1>11, <1>12, <1>13
     DEF JobStep
<1>15. ASSUME NEW i \in Jobs, i # j
       PROVE  Positioned(i)'
  <2>1. /\ pc'[i] = pc[i] /\ step'[i] = step[i]
        /\ \A c \in Circuits : target[c] \in Compiled => target'[c] \in Compiled
        /\ DOMAIN proofDir \subseteq DOMAIN proofDir'
    BY <1>15, StepOfOne
  <2>2. /\ Proofs(i)' = Proofs(i) /\ Circuit(i)' = Circuit(i) /\ Dir(i)' = Dir(i)
        /\ IsHelper(i)' = IsHelper(i)
    BY <2>1, SameTools
  <2>3. Circuit(i) \in Circuits /\ Positioned(i)
    BY <1>T, ProofsLemma DEF Circuit, Positioned
  <2> QED BY <2>1, <2>2, <2>3 DEF Positioned, HasProof
<1> QED BY <1>14, <1>15, <1>T DEF WorkTypeOK, Typed
--------------------------------------------------------------------------------
(* Two processes that run together are both known to have overlapped.      *)
Alone ==
  \A i, j \in Jobs : i # j /\ Running(i) /\ Running(j) => i \in overlapped

LEMMA Awake ==
  ASSUME NEW j \in Jobs, JobStep(j)
  PROVE  Start(j) \/ Running(j)
BY DEF JobStep, EnsureBuilt, WriteToml, Execute, WriteVk, Prove, Verify, Read, Unlink,
       WriteProofs, WriteMeta, Fail, Kill, Running

(* Whoever meets another process on the way is in overlapped afterwards.   *)
LEMMA Meeting ==
  ASSUME Alone, NEW i \in Jobs, NEW j \in Jobs, i # j, Running(i), JobStep(j)
  PROVE  i \in overlapped' /\ j \in overlapped'
<1>1. CASE Start(j)
  <2>1. i \in {n \in Jobs : Running(n)}
    OBVIOUS
  <2> QED BY <1>1, <2>1 DEF Start
<1>2. CASE Running(j) /\ ~Start(j)
  <2>1. i \in overlapped /\ j \in overlapped
    BY <1>2 DEF Alone
  <2>2. overlapped \subseteq overlapped'
    BY <1>2 DEF JobStep, EnsureBuilt, WriteToml, Execute, WriteVk, Prove, Verify, Read,
       Unlink, WriteProofs, WriteMeta, Fail, Kill, history
  <2> QED BY <2>1, <2>2
<1> QED BY <1>1, <1>2, Awake

LEMMA AloneStep ==
  ASSUME WorkTypeOK, Alone, NEW j \in Jobs, JobStep(j)
  PROVE  Alone'
<1> SUFFICES ASSUME NEW a \in Jobs, NEW b \in Jobs, a # b, Running(a)', Running(b)'
             PROVE  a \in overlapped'
  BY DEF Alone
<1>1. CASE a = j
  <2>1. Running(b)
    BY <1>1, StepOfOne DEF Running
  <2> QED BY <1>1, <2>1, Meeting
<1>2. CASE b = j
  <2>1. Running(a)
    BY <1>2, StepOfOne DEF Running
  <2> QED BY <1>2, <2>1, Meeting
<1>3. CASE a # j /\ b # j
  <2>1. Running(a) /\ Running(b) /\ overlapped \subseteq overlapped'
    BY <1>3, StepOfOne DEF Running
  <2> QED BY <2>1 DEF Alone
<1> QED BY <1>1, <1>2, <1>3
--------------------------------------------------------------------------------
(* A process between two of its proofs, or in one, that has not read it.   *)
Unread(j) ==
  pc[j] \in {"ensure", "write", "execute", "vk", "prove"} \/ HasProof(j)

(* A process that never met another one: what it reads next is its own,    *)
(* and so is everything it has read.                                       *)
OnItsOwn(j) ==
  /\ \A k \in DOMAIN got[j] : got[j][k].own = <<j, k>>
  /\ pc[j] = "idle" => step[j] = 1 /\ got[j] = <<>>
  /\ Unread(j) => Len(got[j]) = step[j] - 1
  /\ pc[j] = "unlink" /\ IsHelper(j) => Len(got[j]) = step[j]
  /\ pc[j] \in {"files", "meta"} => Len(got[j]) = Len(Proofs(j))
  /\ pc[j] = "execute" => toml[Circuit(j)] = Witness(j)
  /\ pc[j] \in {"vk", "prove"} => target[Circuit(j)].witness = Witness(j)
  /\ HasProof(j) => proofDir[Dir(j)].witness = Witness(j)

Undisturbed == \A j \in Jobs \ overlapped : OnItsOwn(j)

(* One more result of the step a process is at.                            *)
LEMMA OneMore ==
  ASSUME WorkTypeOK, NEW j \in Jobs, OnItsOwn(j), Len(got[j]) = step[j] - 1,
         NEW w, w = Witness(j), w \in Witnesses, got' = [got EXCEPT ![j] = Append(@, [own |-> w])]
  PROVE  /\ Len(got'[j]) = step[j]
         /\ \A k \in DOMAIN got'[j] : got'[j][k].own = <<j, k>>
<1>1. got[j] \in Seq([own : Witnesses]) /\ step[j] \in Nat /\ [own |-> w] \in [own : Witnesses]
  BY DEF WorkTypeOK, Results
<1>2. got'[j] = Append(got[j], [own |-> w])
  BY DEF WorkTypeOK
<1>3. /\ DOMAIN got[j] = 1..(step[j] - 1)
      /\ DOMAIN got'[j] = 1..step[j]
      /\ Len(got'[j]) = step[j]
      /\ got'[j][step[j]] = [own |-> w]
      /\ \A k \in 1..(step[j] - 1) : got'[j][k] = got[j][k]
  BY <1>1, <1>2
<1>4. ASSUME NEW k \in 1..step[j] PROVE got'[j][k].own = <<j, k>>
  <2>1. CASE k = step[j]
    BY <2>1, <1>3 DEF Witness
  <2>2. CASE k # step[j]
    <3>1. k \in 1..(step[j] - 1)
      BY <1>1, <2>2
    <3> QED BY <3>1, <1>3 DEF OnItsOwn
  <2> QED BY <2>1, <2>2
<1> QED BY <1>3, <1>4

(* A process that has read all its results so far goes on, or is through.  *)
LEMMA GoesOn ==
  ASSUME WorkTypeOK, WorkTypeOK', UNCHANGED kind, NEW j \in Jobs, Advance(j),
         Len(got'[j]) = step[j],
         \A k \in DOMAIN got'[j] : got'[j][k].own = <<j, k>>
  PROVE  OnItsOwn(j)'
<1>1. step[j] \in Nat /\ Proofs(j)' = Proofs(j)
  BY SameTools DEF WorkTypeOK
<1>2. CASE step'[j] = step[j] + 1 /\ pc'[j] \in {"ensure", "write"}
  BY <1>1, <1>2 DEF OnItsOwn, Unread, HasProof
<1>3. CASE /\ step'[j] = step[j] /\ step[j] = Len(Proofs(j))
           /\ pc'[j] = IF Builder(j) THEN "files" ELSE "done"
  BY <1>1, <1>3 DEF OnItsOwn, Unread, HasProof
<1> QED BY <1>2, <1>3, AdvanceLemma

(* A step of an undisturbed process leaves it so.                          *)
LEMMA OwnStep ==
  ASSUME WorkTypeOK, WorkTypeOK', NEW j \in Jobs, JobStep(j), UNCHANGED kind, OnItsOwn(j)
  PROVE  OnItsOwn(j)'
<1>T. /\ toml \in [Circuits -> Witnesses]
      /\ target \in [Circuits -> Compiled \cup {None}]
      /\ \A d \in DOMAIN proofDir : proofDir[d] \in ProofFile
      /\ pc \in [Jobs -> Labels] /\ pc' \in [Jobs -> Labels]
      /\ step \in [Jobs -> Nat]
      /\ got \in [Jobs -> Results]
      /\ Positioned(j)
  BY DEF WorkTypeOK
<1>C. Circuit(j) \in Circuits /\ Proofs(j)' = Proofs(j)
  BY <1>T, ProofsLemma, SameTools DEF Circuit, Positioned, WorkTypeOK
<1>S. step' = step => /\ Circuit(j)' = Circuit(j) /\ Dir(j)' = Dir(j)
                      /\ IsHelper(j)' = IsHelper(j) /\ Witness(j)' = Witness(j)
  BY SameTools
<1>0. ASSUME pc'[j] \in {"done", "dead"}, UNCHANGED got
      PROVE  OnItsOwn(j)'
  BY <1>0 DEF OnItsOwn, Unread, HasProof
<1>D. ASSUME Dies(j), UNCHANGED got
      PROVE  OnItsOwn(j)'
  BY <1>D, <1>0, <1>T DEF Dies, Goto
<1>1. CASE Start(j)
  <2>1. pc'[j] \in {"ensure", "write"} /\ got' = got /\ step' = step /\ pc[j] = "idle"
    BY <1>1, <1>T DEF Start, Goto, FirstStep, shared
  <2>2. got[j] = <<>> /\ step[j] = 1
    BY <2>1 DEF OnItsOwn
  <2> QED BY <2>1, <2>2 DEF OnItsOwn, Unread, HasProof
<1>2. CASE EnsureBuilt(j)
  <2>1. pc[j] = "ensure" /\ pc'[j] = "write" /\ got' = got /\ step' = step
    BY <1>2, <1>T DEF EnsureBuilt, Goto
  <2> QED BY <2>1 DEF OnItsOwn, Unread, HasProof
<1>3. CASE WriteToml(j)
  <2>1. /\ pc[j] = "write" /\ pc'[j] = "execute" /\ got' = got /\ step' = step
        /\ toml' = [toml EXCEPT ![Circuit(j)] = Witness(j)]
    BY <1>3, <1>T DEF WriteToml, Goto
  <2>2. toml'[Circuit(j)] = Witness(j)
    BY <2>1, <1>T, <1>C
  <2> QED BY <2>1, <2>2, <1>S DEF OnItsOwn, Unread, HasProof
<1>4. CASE Execute(j)
  <2> DEFINE c == Circuit(j)
  <2>1. CASE toml[c] = None
    BY <1>4, <2>1, <1>D DEF Execute
  <2>2. CASE toml[c] # None
    <3>1. /\ pc[j] = "execute" /\ step' = step
          /\ target' = [target EXCEPT ![c] = [version |-> source[c], witness |-> toml[c]]]
          /\ got' = IF IsHelper(j) THEN [got EXCEPT ![j] = Append(@, [own |-> toml[c]])] ELSE got
          /\ pc'[j] = IF IsHelper(j) THEN "unlink" ELSE IF Builder(j) THEN "vk" ELSE "prove"
      BY <1>4, <2>2, <1>T DEF Execute, Goto
    <3>2. toml[c] = Witness(j) /\ toml[c] \in Witnesses /\ Len(got[j]) = step[j] - 1
      BY <3>1, <1>T, <1>C DEF OnItsOwn, Unread
    <3>3. target'[c].witness = Witness(j)
      BY <3>1, <3>2, <1>T, <1>C
    <3>4. CASE IsHelper(j)
      <4>1. got' = [got EXCEPT ![j] = Append(@, [own |-> toml[c]])]
        BY <3>1, <3>4
      <4>2. Len(got'[j]) = step[j] /\ \A k \in DOMAIN got'[j] : got'[j][k].own = <<j, k>>
        BY <3>2, <4>1, OneMore
      <4> QED BY <3>1, <3>4, <4>2, <1>S DEF OnItsOwn, Unread, HasProof
    <3>5. CASE ~IsHelper(j)
      <4>1. got' = got /\ pc'[j] \in {"vk", "prove"}
        BY <3>1, <3>5
      <4> QED BY <3>1, <3>2, <3>3, <4>1, <1>S DEF OnItsOwn, Unread, HasProof
    <3> QED BY <3>4, <3>5
  <2> QED BY <2>1, <2>2
<1>5. CASE WriteVk(j)
  <2>1. /\ pc[j] = "vk" /\ pc'[j] = "prove" /\ got' = got /\ step' = step
        /\ target' = target
    BY <1>5, <1>T DEF WriteVk, Goto
  <2> QED BY <2>1, <1>S DEF OnItsOwn, Unread, HasProof
<1>6. CASE Prove(j)
  <2>1. /\ pc[j] = "prove" /\ pc'[j] \in {"unlink", "verify"} /\ got' = got /\ step' = step
        /\ proofDir' = [d \in DOMAIN proofDir \cup {Dir(j)} |->
                          IF d = Dir(j) THEN Proof(j) ELSE proofDir[d]]
        /\ ~IsHelper(j)
    BY <1>6, <1>T DEF Prove, Goto, Positioned
  <2>2. proofDir'[Dir(j)].witness = Witness(j)
    BY <2>1 DEF OnItsOwn, Proof
  <2>3. Len(got'[j]) = step'[j] - 1
    BY <2>1 DEF OnItsOwn, Unread
  <2> QED BY <2>1, <2>2, <2>3, <1>S DEF OnItsOwn, Unread, HasProof
<1>7. CASE Verify(j)
  <2>1. CASE Dies(j)
    BY <1>7, <2>1, <1>D DEF Verify
  <2>2. CASE Goto(j, "read")
    <3>1. /\ pc[j] = "verify" /\ pc'[j] = "read" /\ got' = got /\ step' = step
          /\ proofDir' = proofDir
      BY <1>7, <2>2, <1>T DEF Verify, Goto
    <3>2. HasProof(j)
      BY <3>1 DEF HasProof
    <3> QED BY <3>1, <3>2, <1>S DEF OnItsOwn, Unread, HasProof
  <2> QED BY <1>7, <2>1, <2>2 DEF Verify
<1>8. CASE Read(j)
  <2> DEFINE p == proofDir[Dir(j)]
  <2>1. pc[j] = "read" /\ HasProof(j) /\ Advance(j)
    BY <1>8 DEF Read, HasProof
  <2>2. p.witness = Witness(j) /\ p.witness \in Witnesses /\ Len(got[j]) = step[j] - 1
    BY <2>1, <1>T DEF OnItsOwn, Unread, Positioned, ProofFile
  <2>3. got' = [got EXCEPT ![j] = Append(@, [own |-> p.witness])]
    BY <1>8 DEF Read
  <2>4. Len(got'[j]) = step[j] /\ \A k \in DOMAIN got'[j] : got'[j][k].own = <<j, k>>
    BY <2>2, <2>3, OneMore
  <2> QED BY <2>1, <2>4, GoesOn
<1>9. CASE Unlink(j)
  <2>1. CASE IsHelper(j)
    <3>1. Advance(j) /\ got' = got /\ Len(got[j]) = step[j]
      BY <1>9, <2>1 DEF Unlink, OnItsOwn
    <3>2. \A k \in DOMAIN got[j] : got[j][k].own = <<j, k>>
      BY DEF OnItsOwn
    <3> QED BY <3>1, <3>2, GoesOn
  <2>2. CASE ~IsHelper(j)
    <3>1. /\ pc[j] = "unlink" /\ pc'[j] = "read" /\ got' = got /\ step' = step
          /\ proofDir' = proofDir
      BY <1>9, <2>2, <1>T DEF Unlink, Goto
    <3>2. HasProof(j)
      BY <2>2, <3>1 DEF HasProof
    <3> QED BY <3>1, <3>2, <1>S DEF OnItsOwn, Unread, HasProof
  <2> QED BY <2>1, <2>2
<1>10. CASE WriteProofs(j)
  <2>1. pc[j] = "files" /\ pc'[j] = "meta" /\ got' = got
    BY <1>10, <1>T DEF WriteProofs, Goto
  <2> QED BY <2>1, <1>C DEF OnItsOwn, Unread, HasProof
<1>11. CASE WriteMeta(j)
  BY <1>11, <1>0, <1>T DEF WriteMeta, Goto
<1>12. CASE Fail(j)
  BY <1>12, <1>D DEF Fail
<1>13. CASE Kill(j)
  BY <1>13, <1>0, <1>T DEF Kill, Goto
<1> QED BY <1>1, <1>2, <1>3, <1>4, <1>5, <1>6, <1>7, <1>8, <1>9, <1>10, <1>11, <1>12,
           <1>13 DEF JobStep

LEMMA UndisturbedStep ==
  ASSUME WorkTypeOK, WorkTypeOK', Alone, Undisturbed,
         NEW j \in Jobs, JobStep(j), UNCHANGED kind
  PROVE  Undisturbed'
<1> SUFFICES ASSUME NEW i \in Jobs, i \notin overlapped'
             PROVE  OnItsOwn(i)'
  BY DEF Undisturbed
<1>1. OnItsOwn(i)
  BY StepOfOne DEF Undisturbed
<1>2. CASE i = j
  BY <1>1, <1>2, OwnStep
<1>3. CASE i # j
  <2>1. ~Running(i)
    BY <1>3, Meeting
  <2>2. pc'[i] = pc[i] /\ step'[i] = step[i] /\ got'[i] = got[i]
    BY <1>3, StepOfOne
  <2> QED BY <1>1, <2>1, <2>2 DEF OnItsOwn, Unread, HasProof, Running
<1> QED BY <1>2, <1>3
--------------------------------------------------------------------------------
(* Results that are all of j's own, in order.                              *)
Whole(proofs, j) ==
  /\ Len(proofs) = Len(Proofs(j))
  /\ \A k \in DOMAIN proofs : proofs[k].own = <<j, k>>

(* As long as no two processes have met, the proofs on disk are of the     *)
(* builder that is about to write the meta, or of the one that did.        *)
FixtureInv ==
  overlapped = {} =>
    /\ \A j \in Jobs : pc[j] = "meta" => Whole(out.proofs, j)
    /\ out.meta # None /\ ~torn /\ (\A j \in Jobs : pc[j] # "meta") =>
         Whole(out.proofs, out.meta)

LEMMA FixtureStep ==
  ASSUME WorkTypeOK, WorkTypeOK', Alone, Undisturbed, FixtureInv,
         NEW j \in Jobs, JobStep(j), UNCHANGED kind
  PROVE  FixtureInv'
<1> SUFFICES ASSUME overlapped' = {} PROVE FixtureInv'
  BY DEF FixtureInv
<1>T. /\ pc \in [Jobs -> Labels]
      /\ out \in [proofs : Results, meta : Jobs \cup {None}]
      /\ out' \in [proofs : Results, meta : Jobs \cup {None}]
  BY DEF WorkTypeOK
<1>O. overlapped = {} /\ \A i \in Jobs : i # j => pc'[i] = pc[i] /\ ~Running(i)
  BY StepOfOne, Meeting
<1>W. \A i \in Jobs, proofs \in Results : Whole(proofs, i)' <=> Whole(proofs, i)
  BY SameTools DEF Whole
<1>1. ASSUME out' = out, ~torn' => ~torn, pc[j] # "meta", pc'[j] # "meta"
      PROVE  FixtureInv'
  <2>1. \A i \in Jobs : pc'[i] = "meta" <=> pc[i] = "meta"
    BY <1>1, <1>O
  <2> QED BY <1>1, <2>1, <1>O, <1>W, <1>T DEF FixtureInv
<1>2. ASSUME out' = out, torn' = (torn \/ pc[j] = "meta"), pc'[j] = "dead"
      PROVE  FixtureInv'
  <2>1. CASE pc[j] = "meta"
    <3>1. torn' /\ \A i \in Jobs : pc'[i] # "meta"
      BY <1>2, <2>1, <1>O DEF Running
    <3> QED BY <3>1 DEF FixtureInv
  <2>2. CASE pc[j] # "meta"
    BY <1>1, <1>2, <2>2
  <2> QED BY <2>1, <2>2
<1>D. ASSUME Dies(j), out' = out PROVE FixtureInv'
  BY <1>D, <1>2, <1>T DEF Dies, Goto
<1>3. CASE Start(j)
  BY <1>1, <1>3, <1>T DEF Start, Goto, FirstStep
<1>4. CASE EnsureBuilt(j)
  BY <1>1, <1>4, <1>T DEF EnsureBuilt, Goto
<1>5. CASE WriteToml(j)
  BY <1>1, <1>5, <1>T DEF WriteToml, Goto
<1>6. CASE Execute(j)
  <2>1. CASE toml[Circuit(j)] = None
    BY <1>D, <1>6, <2>1 DEF Execute
  <2>2. CASE toml[Circuit(j)] # None
    BY <1>1, <1>6, <2>2, <1>T DEF Execute, Goto
  <2> QED BY <2>1, <2>2
<1>7. CASE WriteVk(j)
  BY <1>1, <1>7, <1>T DEF WriteVk, Goto
<1>8. CASE Prove(j)
  BY <1>1, <1>8, <1>T DEF Prove, Goto
<1>9. CASE Verify(j)
  <2>1. CASE Dies(j)
    BY <1>D, <1>9, <2>1 DEF Verify
  <2>2. CASE Goto(j, "read") /\ UNCHANGED <<toml, torn>>
    BY <1>1, <1>9, <2>2, <1>T DEF Verify, Goto
  <2> QED BY <1>9, <2>1, <2>2 DEF Verify
<1>10. CASE Read(j)
  <2>1. pc'[j] # "meta"
    BY <1>10, AdvanceLemma DEF Read
  <2> QED BY <1>1, <1>10, <2>1 DEF Read
<1>11. CASE Unlink(j)
  <2>1. pc'[j] # "meta"
    <3>1. CASE IsHelper(j)
      BY <1>11, <3>1, AdvanceLemma DEF Unlink
    <3>2. CASE ~IsHelper(j)
      BY <1>11, <3>2, <1>T DEF Unlink, Goto
    <3> QED BY <3>1, <3>2
  <2> QED BY <1>1, <1>11, <2>1 DEF Unlink
<1>12. CASE WriteProofs(j)
  <2>1. /\ pc[j] = "files" /\ pc'[j] = "meta"
        /\ out'.proofs = got[j]
    BY <1>12, <1>T DEF WriteProofs, Goto
  <2>2. Whole(got[j], j)
    BY <2>1, <1>O DEF Undisturbed, OnItsOwn, Whole
  <2>3. Whole(out'.proofs, j)
    BY <2>1, <2>2
  <2>4. out'.proofs \in Results
    BY <1>T
  <2>5. \A i \in Jobs : pc'[i] = "meta" => i = j
    BY <1>O DEF Running
  <2>6. Whole(out.proofs, j)'
    BY <2>3, SameTools DEF Whole
  <2> QED BY <2>1, <2>5, <2>6 DEF FixtureInv
<1>13. CASE WriteMeta(j)
  <2>1. pc[j] = "meta" /\ pc'[j] = "done" /\ out'.proofs = out.proofs /\ out'.meta = j
    BY <1>13, <1>T DEF WriteMeta, Goto
  <2>2. Whole(out.proofs, j)
    BY <2>1, <1>O DEF FixtureInv
  <2>3. Whole(out.proofs, j)'
    BY <2>1, <2>2, SameTools DEF Whole
  <2>4. \A i \in Jobs : pc'[i] # "meta"
    BY <2>1, <1>O DEF Running
  <2> QED BY <2>1, <2>3, <2>4 DEF FixtureInv
<1>14. CASE Fail(j)
  BY <1>D, <1>14 DEF Fail
<1>15. CASE Kill(j)
  BY <1>2, <1>15, <1>T DEF Kill, Goto
<1> QED BY <1>3, <1>4, <1>5, <1>6, <1>7, <1>8, <1>9, <1>10, <1>11, <1>12, <1>13, <1>14,
           <1>15 DEF JobStep
--------------------------------------------------------------------------------
(* The witness in c is of a proof j has reached, and j still owns it, was  *)
(* killed, or is a batch; a process of the inbox owns one at a time.       *)
Owed(c, j, k) ==
  /\ toml[c] = <<j, k>>
  /\ k \in 1..step[j]
  /\ Proofs(j)[k][1] = c
  /\ pc[j] # "idle"
  /\ Running(j) /\ ~Builder(j) =>
       k = step[j] /\ pc[j] \in {"execute", "prove", "unlink"}
  /\ kind[j] = "batch" \/ Running(j) \/ j \in killed

WitnessInv ==
  \A c \in Circuits : toml[c] # None => \E j \in Jobs, k \in Nat : Owed(c, j, k)

(* Files are only removed, except by the process that writes its witness.  *)
LEMMA TomlStep ==
  ASSUME WorkTypeOK, NEW j \in Jobs, JobStep(j), NEW c \in Circuits, toml'[c] # None
  PROVE  \/ toml'[c] = toml[c]
         \/ WriteToml(j) /\ c = Circuit(j) /\ toml'[c] = Witness(j)
<1>T. toml \in [Circuits -> Witnesses]
  BY DEF WorkTypeOK
<1>1. ASSUME Dies(j) PROVE toml'[c] = toml[c]
  BY <1>1 DEF Dies, AfterExit
<1>2. CASE WriteToml(j)
  BY <1>2, <1>T DEF WriteToml
<1>3. CASE Unlink(j)
  BY <1>3, <1>T DEF Unlink, Unlinked
<1>4. CASE WriteMeta(j)
  BY <1>4 DEF WriteMeta, AfterExit
<1>5. CASE Execute(j) \/ Verify(j) \/ Fail(j)
  BY <1>5, <1>1 DEF Execute, Verify, Fail
<1>6. CASE \/ Start(j) \/ EnsureBuilt(j) \/ WriteVk(j) \/ Prove(j) \/ Read(j)
           \/ WriteProofs(j) \/ Kill(j)
  BY <1>6 DEF Start, EnsureBuilt, WriteVk, Prove, Read, WriteProofs, Kill, shared
<1> QED BY <1>2, <1>3, <1>4, <1>5, <1>6 DEF JobStep

(* What a process still owns when it ends is removed.                      *)
LEMMA ExitCleans ==
  ASSUME WorkTypeOK, NEW j \in Jobs, NEW c \in Circuits, NEW k \in Nat, Owed(c, j, k),
         Running(j), kind[j] # "batch"
  PROVE  AfterExit(j)[c] = None
<1>1. kind[j] \in Builders \cup {"inbox", "sealed"}
  BY ProofsLemma DEF WorkTypeOK
<1>2. CASE Builder(j)
  <2>1. CleanedAtExit(j) = {Proofs(j)[n][1] : n \in 1..step[j]}
    BY <1>2 DEF CleanedAtExit, Builder
  <2>2. c \in CleanedAtExit(j)
    BY <2>1 DEF Owed
  <2> QED BY <2>2 DEF AfterExit
<1>3. CASE ~Builder(j)
  <2>1. pc[j] \in {"execute", "prove", "unlink"} /\ Circuit(j) = c
    BY <1>3 DEF Owed, Circuit
  <2>2. CleanedAtExit(j) = {Circuit(j)}
    BY <1>3, <2>1 DEF CleanedAtExit, Builder, Builders
  <2> QED BY <2>1, <2>2 DEF AfterExit
<1> QED BY <1>2, <1>3

(* A witness that survives a step of the process it belongs to is still    *)
(* owed by it.                                                             *)
LEMMA OwedStep ==
  ASSUME WorkTypeOK, WorkTypeOK', NEW j \in Jobs, JobStep(j), UNCHANGED kind,
         NEW c \in Circuits, NEW k \in Nat, Owed(c, j, k), toml'[c] # None,
         toml'[c] = toml[c]
  PROVE  Owed(c, j, k)'
<1>T. /\ pc \in [Jobs -> Labels] /\ pc' \in [Jobs -> Labels]
      /\ step \in [Jobs -> Nat] /\ Positioned(j)
  BY DEF WorkTypeOK
<1>K. kind[j] \in Builders \cup {"inbox", "sealed"}
  BY ProofsLemma DEF WorkTypeOK
<1>S. Proofs(j)' = Proofs(j) /\ (Builder(j)' <=> Builder(j))
  BY SameTools
<1>P. step[j] \in 1..Len(Proofs(j)) /\ killed \subseteq killed'
  BY StepOfOne DEF WorkTypeOK, Positioned
<1>1. ASSUME UNCHANGED step, Running(j), Running(j)',
             ~Builder(j) => pc'[j] \in {"execute", "prove", "unlink"}
      PROVE  Owed(c, j, k)'
  <2>1. pc'[j] # "idle"
    BY <1>1 DEF Running
  <2>2. ~Builder(j) => k = step[j]
    BY <1>1 DEF Owed
  <2> QED BY <1>1, <2>1, <2>2, <1>S DEF Owed
<1>2. ASSUME UNCHANGED step, Running(j), toml' = AfterExit(j), pc'[j] \in {"done", "dead"}
      PROVE  Owed(c, j, k)'
  <2>1. kind[j] = "batch"
    BY <1>2, ExitCleans
  <2>2. Builder(j)' /\ kind'[j] = "batch"
    BY <2>1, <1>S DEF Builder, Builders
  <2> QED BY <1>2, <2>2, <1>S DEF Owed
<1>D. ASSUME Dies(j), UNCHANGED step, Running(j)
      PROVE  Owed(c, j, k)'
  BY <1>D, <1>2, <1>T DEF Dies, Goto
<1>N. ASSUME ~Builder(j), Running(j), UNCHANGED toml
      PROVE  pc[j] \in {"execute", "prove", "unlink"} /\ k = step[j]
  BY <1>N DEF Owed
<1>3. CASE Start(j)
  BY <1>3 DEF Start, Owed
<1>4. CASE EnsureBuilt(j)
  <2>1. pc[j] = "ensure" /\ pc'[j] = "write" /\ UNCHANGED <<step, toml>>
    BY <1>4, <1>T DEF EnsureBuilt, Goto
  <2> QED BY <2>1, <1>1, <1>N DEF Running
<1>5. CASE WriteToml(j)
  <2>1. pc[j] = "write" /\ pc'[j] = "execute" /\ UNCHANGED step
    BY <1>5, <1>T DEF WriteToml, Goto
  <2> QED BY <2>1, <1>1 DEF Running
<1>6. CASE Execute(j)
  <2>1. CASE toml[Circuit(j)] = None
    BY <1>6, <2>1, <1>D DEF Execute, Running
  <2>2. CASE toml[Circuit(j)] # None
    <3>1. /\ pc[j] = "execute" /\ UNCHANGED <<step, toml>>
          /\ pc'[j] = IF IsHelper(j) THEN "unlink" ELSE IF Builder(j) THEN "vk" ELSE "prove"
      BY <1>6, <2>2, <1>T DEF Execute, Goto
    <3> QED BY <3>1, <1>1 DEF Running
  <2> QED BY <2>1, <2>2
<1>7. CASE WriteVk(j)
  <2>1. pc[j] = "vk" /\ pc'[j] = "prove" /\ UNCHANGED <<step, toml>>
    BY <1>7, <1>T DEF WriteVk, Goto
  <2> QED BY <2>1, <1>1 DEF Running
<1>8. CASE Prove(j)
  <2>1. /\ pc[j] = "prove" /\ UNCHANGED <<step, toml>>
        /\ pc'[j] = IF kind[j] = "sealed" THEN "unlink" ELSE "verify"
    BY <1>8, <1>T DEF Prove, Goto
  <2>2. ~Builder(j) => kind[j] = "sealed"
    <3>1. ~IsHelper(j)
      BY <2>1, <1>T DEF Positioned
    <3>2. kind[j] = "inbox" => IsHelper(j)
      BY <1>P, ProofsLemma DEF WorkTypeOK, IsHelper, Dir
    <3> QED BY <3>1, <3>2, <1>K DEF Builder
  <2> QED BY <2>1, <2>2, <1>1 DEF Running
<1>9. CASE Verify(j)
  <2>1. CASE Dies(j)
    BY <1>9, <2>1, <1>D DEF Verify, Running
  <2>2. CASE Goto(j, "read") /\ UNCHANGED <<toml, torn>>
    <3>1. pc[j] = "verify" /\ pc'[j] = "read" /\ UNCHANGED <<step, toml>>
      BY <1>9, <2>2, <1>T DEF Verify, Goto
    <3> QED BY <3>1, <1>1, <1>N DEF Running
  <2> QED BY <1>9, <2>1, <2>2 DEF Verify
<1>A. ASSUME Advance(j), Running(j), Builder(j)
      PROVE  Owed(c, j, k)'
  <2>1. pc'[j] \in {"ensure", "write", "files"} /\ 1..step[j] \subseteq 1..step'[j]
    BY <1>A, AdvanceLemma, <1>T
  <2> QED BY <2>1, <1>A, <1>S DEF Owed, Running
<1>10. CASE Read(j)
  <2>1. pc[j] = "read" /\ Advance(j) /\ UNCHANGED toml
    BY <1>10 DEF Read, shared
  <2> QED BY <2>1, <1>A, <1>N DEF Running
<1>11. CASE Unlink(j)
  <2>1. pc[j] = "unlink" /\ toml' = Unlinked(j)
    BY <1>11 DEF Unlink
  <2>2. Builder(j)
    <3>1. ASSUME ~Builder(j) PROVE c = Circuit(j)
      BY <2>1, <3>1 DEF Owed, Running, Circuit
    <3>2. c # Circuit(j)
      BY <2>1 DEF Unlinked, WorkTypeOK
    <3> QED BY <3>1, <3>2
  <2>3. CASE IsHelper(j)
    BY <1>11, <2>1, <2>2, <2>3, <1>A DEF Unlink, Running
  <2>4. CASE ~IsHelper(j)
    <3>1. pc'[j] = "read" /\ UNCHANGED step
      BY <1>11, <2>4, <1>T DEF Unlink, Goto
    <3> QED BY <2>1, <2>2, <3>1, <1>1 DEF Running
  <2> QED BY <2>3, <2>4
<1>12. CASE WriteProofs(j)
  <2>1. pc[j] = "files" /\ pc'[j] = "meta" /\ UNCHANGED <<step, toml>>
    BY <1>12, <1>T DEF WriteProofs, Goto, shared
  <2> QED BY <2>1, <1>1, <1>N DEF Running
<1>13. CASE WriteMeta(j)
  BY <1>13, <1>2, <1>T DEF WriteMeta, Running, Goto
<1>14. CASE Fail(j)
  BY <1>14, <1>D DEF Fail
<1>15. CASE Kill(j)
  <2>1. pc'[j] = "dead" /\ UNCHANGED <<step, toml>> /\ j \in killed'
    BY <1>15, <1>T DEF Kill, Goto, shared
  <2> QED BY <2>1, <1>S DEF Owed, Running
<1> QED BY <1>3, <1>4, <1>5, <1>6, <1>7, <1>8, <1>9, <1>10, <1>11, <1>12, <1>13, <1>14,
           <1>15 DEF JobStep

LEMMA WitnessStep ==
  ASSUME WorkTypeOK, WorkTypeOK', WitnessInv, NEW j \in Jobs, JobStep(j), UNCHANGED kind
  PROVE  WitnessInv'
<1> SUFFICES ASSUME NEW c \in Circuits, toml'[c] # None
             PROVE  \E i \in Jobs, k \in Nat : Owed(c, i, k)'
  BY DEF WitnessInv
<1>1. CASE toml'[c] = toml[c]
  <2>1. PICK i \in Jobs, k \in Nat : Owed(c, i, k)
    BY <1>1 DEF WitnessInv
  <2>2. CASE i = j
    BY <1>1, <2>1, <2>2, OwedStep
  <2>3. CASE i # j
    <3>1. pc'[i] = pc[i] /\ step'[i] = step[i] /\ killed \subseteq killed'
      BY <2>3, StepOfOne
    <3>2. Proofs(i)' = Proofs(i) /\ (Builder(i)' <=> Builder(i))
      BY SameTools
    <3> QED BY <1>1, <2>1, <3>1, <3>2 DEF Owed, Running
  <2> QED BY <2>2, <2>3
<1>2. CASE WriteToml(j) /\ c = Circuit(j) /\ toml'[c] = Witness(j)
  <2>1. pc'[j] = "execute" /\ step' = step /\ step[j] \in Nat /\ step[j] \in 1..step[j]
    BY <1>2 DEF WriteToml, Goto, WorkTypeOK, Positioned
  <2>2. Proofs(j)' = Proofs(j)
    BY SameTools
  <2>3. Owed(c, j, step[j])'
    BY <1>2, <2>1, <2>2 DEF Owed, Running, Witness, Circuit
  <2> QED BY <2>1, <2>3
<1> QED BY <1>1, <1>2, TomlStep
--------------------------------------------------------------------------------
WorkInv ==
  /\ WorkTypeOK
  /\ Alone
  /\ Undisturbed
  /\ FixtureInv
  /\ WitnessInv

LEMMA WorkInitLemma == Init => WorkInv
<1> SUFFICES ASSUME Init PROVE WorkInv
  OBVIOUS
<1>1. /\ kind \in Kinds /\ step = [j \in Jobs |-> 1] /\ pc = [j \in Jobs |-> "idle"]
      /\ got = [j \in Jobs |-> <<>>] /\ toml = [c \in Circuits |-> None]
      /\ out = [proofs |-> <<>>, meta |-> None] /\ DOMAIN proofDir = {}
      /\ source = [c \in Circuits |-> 0] /\ target = [c \in Circuits |-> None]
      /\ vk = [c \in Circuits |-> None] /\ overlapped = {} /\ killed = {} /\ torn = FALSE
  BY DEF Init
<1>2. \A j \in Jobs : Positioned(j)
  <2> SUFFICES ASSUME NEW j \in Jobs PROVE Positioned(j)
    OBVIOUS
  <2>1. Len(Proofs(j)) \in Nat \ {0}
    BY <1>1, ProofsLemma
  <2>2. step[j] = 1 /\ pc[j] = "idle"
    BY <1>1
  <2> QED BY <2>1, <2>2 DEF Positioned, HasProof
<1>3. WorkTypeOK
  <2>1. <<>> \in Results
    BY DEF Results
  <2> QED BY <1>1, <1>2, <2>1 DEF WorkTypeOK, Witnesses, Labels
<1>4. Alone
  BY <1>1 DEF Alone, Running
<1>5. Undisturbed
  BY <1>1 DEF Undisturbed, OnItsOwn, Unread, HasProof
<1>6. FixtureInv /\ WitnessInv
  BY <1>1 DEF FixtureInv, WitnessInv
<1> QED BY <1>3, <1>4, <1>5, <1>6 DEF WorkInv

(* An edit changes the source of a circuit, and nothing a process relies   *)
(* on: what is compiled and solved is in target.                           *)
LEMMA EditStep ==
  ASSUME WorkInv, UNCHANGED kind, NEW c \in Edited, EditCircuit(c)
  PROVE  WorkInv'
<1>1. /\ UNCHANGED <<toml, target, vk, proofDir, pc, step, got, out, overlapped, killed, torn>>
      /\ source' = [source EXCEPT ![c] = source[c] + 1]
      /\ c \in Circuits
  BY EditedAssumption DEF EditCircuit, history
<1>2. \A j \in Jobs : /\ Proofs(j)' = Proofs(j) /\ (Builder(j)' <=> Builder(j))
                      /\ Circuit(j)' = Circuit(j) /\ Dir(j)' = Dir(j)
                      /\ (IsHelper(j)' <=> IsHelper(j)) /\ Witness(j)' = Witness(j)
  BY <1>1, SameTools
<1>3. \A j \in Jobs : (HasProof(j)' <=> HasProof(j)) /\ (Running(j)' <=> Running(j))
  BY <1>1, <1>2 DEF HasProof, Running
<1>4. WorkTypeOK'
  <2>1. source' \in [Circuits -> Nat]
    BY <1>1 DEF WorkInv, WorkTypeOK
  <2>2. \A j \in Jobs : Positioned(j)'
    BY <1>1, <1>2, <1>3 DEF WorkInv, WorkTypeOK, Positioned
  <2> QED BY <1>1, <2>1, <2>2 DEF WorkInv, WorkTypeOK
<1>5. Alone'
  BY <1>1, <1>3 DEF WorkInv, Alone
<1>6. Undisturbed'
  <2>1. \A j \in Jobs : Unread(j)' <=> Unread(j)
    BY <1>1, <1>3 DEF Unread
  <2>2. \A j \in Jobs : OnItsOwn(j) => OnItsOwn(j)'
    BY <1>1, <1>2, <1>3, <2>1 DEF OnItsOwn
  <2> QED BY <1>1, <2>2 DEF WorkInv, Undisturbed
<1>7. FixtureInv'
  <2>1. \A j \in Jobs, proofs \in Results : Whole(proofs, j)' <=> Whole(proofs, j)
    BY <1>2 DEF Whole
  <2>2. out.proofs \in Results /\ out.meta \in Jobs \cup {None}
    BY DEF WorkInv, WorkTypeOK
  <2> QED BY <1>1, <2>1, <2>2 DEF WorkInv, FixtureInv
<1>8. WitnessInv'
  <2>1. \A d \in Circuits, j \in Jobs, k \in Nat : Owed(d, j, k) => Owed(d, j, k)'
    BY <1>1, <1>2, <1>3 DEF Owed
  <2> QED BY <1>1, <2>1 DEF WorkInv, WitnessInv
<1> QED BY <1>4, <1>5, <1>6, <1>7, <1>8 DEF WorkInv

LEMMA WorkStepLemma == WorkInv /\ [Next]_vars => WorkInv'
<1> SUFFICES ASSUME WorkInv, [Next]_vars PROVE WorkInv'
  OBVIOUS
<1>1. ASSUME NEW j \in Jobs, JobStep(j), UNCHANGED kind
      PROVE  WorkInv'
  <2>1. WorkTypeOK'
    BY <1>1, JobTypeStep DEF WorkInv
  <2> QED BY <1>1, <2>1, AloneStep, UndisturbedStep, FixtureStep, WitnessStep DEF WorkInv
<1>2. ASSUME NEW c \in Edited, EditCircuit(c), UNCHANGED kind
      PROVE  WorkInv'
  BY <1>2, EditStep
<1>3. ASSUME UNCHANGED vars
      PROVE  WorkInv'
  <2>1. UNCHANGED <<kind, toml, source, target, vk, proofDir, pc, step, got, out,
                    overlapped, killed, torn>>
    BY <1>3 DEF vars, shared, history
  <2>2. \A j \in Jobs : /\ Proofs(j)' = Proofs(j) /\ (Builder(j)' <=> Builder(j))
                        /\ Circuit(j)' = Circuit(j) /\ Dir(j)' = Dir(j)
                        /\ (IsHelper(j)' <=> IsHelper(j)) /\ Witness(j)' = Witness(j)
    BY <2>1, SameTools
  <2>3. \A j \in Jobs : (HasProof(j)' <=> HasProof(j)) /\ (Running(j)' <=> Running(j))
    BY <2>1, <2>2 DEF HasProof, Running
  <2>4. WorkTypeOK'
    <3>1. \A j \in Jobs : Positioned(j)'
      BY <2>1, <2>2, <2>3 DEF WorkInv, WorkTypeOK, Positioned
    <3> QED BY <2>1, <3>1 DEF WorkInv, WorkTypeOK
  <2>5. Alone'
    BY <2>1, <2>3 DEF WorkInv, Alone
  <2>6. Undisturbed'
    <3>1. \A j \in Jobs : OnItsOwn(j) => OnItsOwn(j)'
      BY <2>1, <2>2, <2>3 DEF OnItsOwn, Unread
    <3> QED BY <2>1, <3>1 DEF WorkInv, Undisturbed
  <2>7. FixtureInv'
    <3>1. \A j \in Jobs, proofs \in Results : Whole(proofs, j)' <=> Whole(proofs, j)
      BY <2>2 DEF Whole
    <3> QED BY <2>1, <3>1 DEF WorkInv, WorkTypeOK, FixtureInv
  <2>8. WitnessInv'
    <3>1. \A d \in Circuits, j \in Jobs, k \in Nat : Owed(d, j, k) => Owed(d, j, k)'
      BY <2>1, <2>2, <2>3 DEF Owed
    <3> QED BY <2>1, <3>1 DEF WorkInv, WitnessInv
  <2> QED BY <2>4, <2>5, <2>6, <2>7, <2>8 DEF WorkInv
<1> QED BY <1>1, <1>2, <1>3 DEF Next, JobStep

THEOREM WorkInductive == Spec => []WorkInv
BY WorkInitLemma, WorkStepLemma, PTL DEF Spec

(* Any number of processes, killed or failed at any step, and any edits    *)
(* between them: one that met no other reads back its own results only.    *)
THEOREM UndisturbedReadsItsOwn == Spec => []ReadsItsOwn
<1>1. WorkInv => ReadsItsOwn
  BY DEF WorkInv, Undisturbed, OnItsOwn, ReadsItsOwn
<1> QED BY <1>1, WorkInductive, PTL

(* Processes one after the other, stopped anywhere, leave a fixture that is*)
(* the one its meta describes, unless a stop fell between the two.         *)
THEOREM FixtureOfOneBuilder == Spec => []FixtureIsWhole
<1>1. WorkInv => FixtureIsWhole
  BY DEF WorkInv, FixtureInv, Whole, FixtureIsWhole
<1> QED BY <1>1, WorkInductive, PTL

(* However processes overlap and fail, a witness on disk is of a process   *)
(* that still runs, was killed, or is a batch.                             *)
THEOREM WitnessesAreRemoved == Spec => []WitnessGoesWithItsProcess
<1>1. ASSUME WorkInv, NEW c \in Circuits, toml[c] # None
      PROVE  LET j == toml[c][1]
             IN kind[j] = "batch" \/ Running(j) \/ j \in killed
  <2>1. PICK j \in Jobs, k \in Nat : Owed(c, j, k)
    BY <1>1 DEF WorkInv, WitnessInv
  <2>2. toml[c][1] = j
    BY <2>1 DEF Owed
  <2> QED BY <2>1, <2>2 DEF Owed
<1>2. WorkInv => WitnessGoesWithItsProcess
  BY <1>1 DEF WitnessGoesWithItsProcess
<1> QED BY <1>2, WorkInductive, PTL
================================================================================
