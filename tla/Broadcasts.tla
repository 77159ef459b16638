------------------------------- MODULE Broadcasts -------------------------------
(***************************************************************************)
(* The broadcast scripts (contracts/script/*OnSepolia.s.sol): an operator  *)
(* takes one shadow through a campaign, one fixture per step, and runs a   *)
(* step's script again until it exits with 0.                              *)
(*                                                                         *)
(* forge executes a script's run() against the chain of that moment, all   *)
(* of it, the lines after stopBroadcast too; nothing is sent if it reverts.*)
(* The calls it recorded then go out as transactions with the account's    *)
(* next nonces.  Each may land, revert, run out of gas or be dropped, and  *)
(* the script may be killed anywhere: its transactions stay in the pool.   *)
(*                                                                         *)
(* A live state stands for its hash.  The owner's key follows the owner    *)
(* (KeyFollowsOwner in ShadowToken) and is left out.                       *)
(***************************************************************************)
EXTENDS Naturals, Sequences

CONSTANTS
  Accounts,   \* the accounts that sign, each with a key of its own
  Bridge,     \* the address of ShadowBridgeL2, its mirror set
  Slots,      \* the slots of a manifest
  Carriers,   \* the ids of the carriers
  States,     \* live states
  Empty,      \* live state of an empty slot, hash zero
  Perms,      \* z-index commitments
  NoPerm,     \* the commitment before the first
  None,       \* no account, no carrier
  Campaign,   \* the fixtures, in the order of their steps
  Pictures,   \* the shadow before the first step and after each
  Again,      \* the steps whose scripts are also run later by mistake
  MaxFaults   \* model bound: kills, drops and transactions out of gas

ASSUME NamesAssumption ==
  Bridge \notin Accounts /\ None \notin Accounts \cup {Bridge} \cup Carriers
ASSUME KeysAssumption == None \notin {"own", "other"}
ASSUME FaultsAssumption == MaxFaults \in Nat

Scripts == {"mint", "mutate", "mutateBatch", "extract", "insert", "setZIndex",
            "transfer", "transferFeature", "solve", "bridge"}
Calls == Scripts \cup {"register", "registerImage", "approve"}

Steps == 1..Len(Campaign)

(* What the files of a fixture bind: the slots its proofs are about and the*)
(* carriers in them, the live states they replace, and the manifest and    *)
(* permutation of its T10 proof; a carrier outside the shadow, with its    *)
(* checkpoint and, if it is sold, its next one.                            *)
Fixture ==
  [script : Scripts, by : Accounts, to : Accounts \cup {None}, slots : SUBSET Slots,
   feature : [Slots -> Carriers \cup {None}], held : Carriers \cup {None},
   old : [Slots -> States \cup {Empty}], new : [Slots -> States \cup {Empty}],
   checkpoint : States \cup {Empty}, rekeyed : States \cup {Empty},
   z : Perms \cup {NoPerm}]

Token ==
  [owner : Accounts \cup {Bridge, None}, solved : BOOLEAN,
   zIndexCommit : Perms \cup {NoPerm},
   slot : [Slots -> [feature : Carriers \cup {None}, live : States \cup {Empty}]],
   feature : [Carriers -> [owner : Accounts \cup {None}, isInserted : BOOLEAN,
                           checkpoint : States \cup {Empty}]]]

VARIABLES
  token,    \* on chain: the shadow, its manifest and its carriers
  image,    \* on chain: registeredImages of the campaign's face
  key,      \* on chain: each account's entry in KeyRegistry
  approved, \* on chain: the bridge is approved for the shadow
  nonce,    \* on chain: transactions of each account that were mined
  pool,     \* transactions sent and not mined
  run,      \* the script that runs
  done,     \* steps whose script has exited with 0
  faults    \* kills, drops and transactions out of gas so far

chain == <<token, image, key, approved>>
vars == <<chain, nonce, pool, run, done, faults>>

Account(tx) == Campaign[tx.step].by
--------------------------------------------------------------------------------
(* The contracts' entry points: what each demands of the shadow t and of   *)
(* the fixture f, and what it leaves.  OCCUPIED is having a carrier.       *)
Vacant == [feature |-> None, live |-> Empty]
Occupied(t) == {s \in Slots : t.slot[s].feature # None}

Owns(t, f) == t.owner = f.by /\ ~t.solved

(* _refreshT10Atomically: the proof is over what the call leaves.          *)
ProvesT10(t, f) ==
  /\ f.z = t.zIndexCommit
  /\ \A s \in Slots : f.new[s] = t.slot[s].live

(* _sponge16Manifest                                                       *)
BindsManifest(t, f) == \A s \in Slots : f.old[s] = t.slot[s].live

(* mintShadow, of a registered image by the holder of a registered key     *)
Minted(t, f) ==
  [t EXCEPT
    !.owner = f.by,
    !.slot = [s \in Slots |->
      IF s \in f.slots THEN [feature |-> f.feature[s], live |-> f.new[s]] ELSE @[s]],
    !.feature = [c \in Carriers |->
      IF \E s \in f.slots : f.feature[s] = c
      THEN [owner |-> f.by, isInserted |-> TRUE,
            checkpoint |-> f.new[CHOOSE s \in f.slots : f.feature[s] = c]]
      ELSE @[c]]]
MayMint(t, f) == t.owner = None /\ ProvesT10(Minted(t, f), f)

(* mutateSlot, mutateBatch                                                 *)
Mutated(t, f) ==
  [t EXCEPT !.slot = [s \in Slots |->
     IF s \in f.slots THEN [feature |-> @[s].feature, live |-> f.new[s]] ELSE @[s]]]
MayMutate(t, f) ==
  /\ Owns(t, f)
  /\ \A s \in f.slots :
       /\ s \in Occupied(t)
       /\ t.slot[s].feature = f.feature[s]
       /\ t.slot[s].live = f.old[s]
  /\ ProvesT10(Mutated(t, f), f)

(* The checkpoints of carriers taken out of the slots in S.                *)
Released(t, S) ==
  [c \in Carriers |->
     IF \E s \in S : t.slot[s].feature = c
     THEN [owner |-> t.feature[c].owner, isInserted |-> FALSE,
           checkpoint |-> t.slot[CHOOSE s \in S : t.slot[s].feature = c].live]
     ELSE t.feature[c]]

(* extractSlot takes no proof about the slot: the T10 proof is all it binds*)
Extracted(t, f) ==
  [t EXCEPT !.slot = [s \in Slots |-> IF s \in f.slots THEN Vacant ELSE @[s]],
            !.feature = Released(t, f.slots)]
MayExtract(t, f) ==
  /\ Owns(t, f)
  /\ f.slots \subseteq Occupied(t)
  /\ ProvesT10(Extracted(t, f), f)

(* insertFeature                                                           *)
Inserted(t, f) ==
  [t EXCEPT
    !.slot = [s \in Slots |->
      IF s \in f.slots THEN [feature |-> f.held, live |-> f.new[s]] ELSE @[s]],
    !.feature[f.held].isInserted = TRUE]
MayInsert(t, f) ==
  /\ Owns(t, f)
  /\ f.held \in Carriers
  /\ t.feature[f.held].owner = f.by
  /\ ~t.feature[f.held].isInserted
  /\ f.slots \cap Occupied(t) = {}
  /\ t.feature[f.held].checkpoint = f.checkpoint
  /\ ProvesT10(Inserted(t, f), f)

(* setZIndexCommit: its own proof binds the commitment and nothing else.   *)
ZIndexSet(t, f) == [t EXCEPT !.zIndexCommit = f.z]
MaySetZIndex(t, f) == Owns(t, f) /\ ProvesT10(ZIndexSet(t, f), f)

(* transferShadow                                                          *)
Transferred(t, f) ==
  [t EXCEPT
    !.owner = f.to,
    !.slot = [s \in Slots |->
      IF s \in Occupied(t) THEN [feature |-> @[s].feature, live |-> f.new[s]]
      ELSE @[s]],
    !.feature = [c \in Carriers |->
      IF \E s \in Slots : t.slot[s].feature = c THEN [@[c] EXCEPT !.owner = f.to]
      ELSE @[c]]]
MayTransfer(t, f) ==
  /\ Owns(t, f)
  /\ BindsManifest(t, f)
  /\ ProvesT10(Transferred(t, f), f)

(* transferFeature, of a carrier in no shadow                              *)
FeatureSold(t, f) ==
  [t EXCEPT !.feature[f.held].owner = f.to, !.feature[f.held].checkpoint = f.rekeyed]
MaySellFeature(t, f) ==
  /\ f.held \in Carriers
  /\ t.feature[f.held].owner = f.by
  /\ ~t.feature[f.held].isInserted
  /\ t.feature[f.held].checkpoint = f.checkpoint

(* solve                                                                   *)
Solved(t, f) ==
  [t EXCEPT !.solved = TRUE, !.slot = [s \in Slots |-> Vacant],
            !.feature = Released(t, Slots)]
MaySolve(t, f) ==
  Owns(t, f) /\ BindsManifest(t, f) /\ f.z = t.zIndexCommit /\ f.z # NoPerm

(* bridgeShadow, once the bridge is approved                               *)
Bridged(t, f) == [t EXCEPT !.owner = Bridge]
MayBridge(t, f) == t.owner = f.by /\ t.solved

Accepts(t, f) ==
  \/ f.script = "mint" /\ MayMint(t, f)
  \/ f.script \in {"mutate", "mutateBatch"} /\ MayMutate(t, f)
  \/ f.script = "extract" /\ MayExtract(t, f)
  \/ f.script = "insert" /\ MayInsert(t, f)
  \/ f.script = "setZIndex" /\ MaySetZIndex(t, f)
  \/ f.script = "transfer" /\ MayTransfer(t, f)
  \/ f.script = "transferFeature" /\ MaySellFeature(t, f)
  \/ f.script = "solve" /\ MaySolve(t, f)
  \/ f.script = "bridge" /\ MayBridge(t, f)

After(t, f) ==
  CASE f.script = "mint" -> Minted(t, f)
    [] f.script \in {"mutate", "mutateBatch"} -> Mutated(t, f)
    [] f.script = "extract" -> Extracted(t, f)
    [] f.script = "insert" -> Inserted(t, f)
    [] f.script = "setZIndex" -> ZIndexSet(t, f)
    [] f.script = "transfer" -> Transferred(t, f)
    [] f.script = "transferFeature" -> FeatureSold(t, f)
    [] f.script = "solve" -> Solved(t, f)
    [] f.script = "bridge" -> Bridged(t, f)
--------------------------------------------------------------------------------
(* The campaign is one the contracts accept step by step, built as the     *)
(* builders build it: against the shadow that the steps before leave.      *)
Blank ==
  [owner |-> None, solved |-> FALSE, zIndexCommit |-> NoPerm,
   slot |-> [s \in Slots |-> Vacant],
   feature |-> [c \in Carriers |->
     [owner |-> None, isInserted |-> FALSE, checkpoint |-> Empty]]]

ASSUME CampaignAssumption ==
  /\ Len(Campaign) \in Nat \ {0}
  /\ Len(Pictures) = Len(Campaign) + 1
  /\ Pictures[1] = Blank
  /\ \A i \in Steps :
       /\ Campaign[i] \in Fixture
       /\ Pictures[i] \in Token
       /\ Pictures[i + 1] \in Token
       /\ Campaign[i].script = "mint" <=> i = 1
       /\ Accepts(Pictures[i], Campaign[i])
       /\ Pictures[i + 1] = After(Pictures[i], Campaign[i])

(* Every step changes the shadow: a mutation or a sale writes a new hash,  *)
(* a recipient is somebody else.                                           *)
Changes(t, f) ==
  /\ f.script \in {"mutate", "extract", "insert"} => \E s \in Slots : f.slots = {s}
  /\ f.script = "mutateBatch" => f.slots # {}
  /\ f.script \in {"mutate", "mutateBatch"} => \A s \in f.slots : f.new[s] # f.old[s]
  /\ f.script = "setZIndex" => f.z # t.zIndexCommit
  /\ f.script \in {"transfer", "transferFeature"} => f.to \in Accounts \ {f.by}

ASSUME ChangeAssumption == \A i \in Steps : Changes(Pictures[i], Campaign[i])

(* A live state hashes its count and its tip, so it never comes back; a    *)
(* mint, a solve and the bridge are for good.                              *)
Past(t, f) ==
  \/ f.script = "mint" /\ t.owner # None
  \/ f.script \in {"mutate", "mutateBatch"} /\ \E s \in f.slots : t.slot[s].live # f.old[s]
  \/ f.script = "insert" /\ \/ t.feature[f.held].isInserted
                            \/ t.feature[f.held].checkpoint # f.checkpoint
  \/ f.script = "transfer" /\ \E s \in Slots : t.slot[s].live # f.old[s]
  \/ f.script = "transferFeature" /\ t.feature[f.held].checkpoint # f.checkpoint
  \/ f.script = "solve" /\ t.solved
  \/ f.script = "bridge" /\ t.owner = Bridge

NeverBack(i) == \A k \in (i + 1)..Len(Pictures) : Past(Pictures[k], Campaign[i])

ASSUME PastAssumption ==
  \A i \in Steps : Campaign[i].script \notin {"extract", "setZIndex"} => NeverBack(i)
--------------------------------------------------------------------------------
(* The scripts, on the chain as they find it.                              *)

(* MutateOnSepolia's guard.  Faulty variant: what the script's header says,*)
(* a slot that was mutated since the mint.                                 *)
MutateSkips_SinceMint(f) ==
  \E s \in f.slots \cap Occupied(token) : token.slot[s].live # Pictures[2].slot[s].live

MutateSkips(f) ==
  /\ f.slots \subseteq Occupied(token)
  /\ \E s \in f.slots : token.slot[s].live # f.old[s]

(* What a script takes for done already: it exits with 0 and sends nothing.*)
Skips(f) ==
  \/ f.script = "mint" /\ key[f.by] = "own" /\ image /\ token.owner # None
  \/ f.script = "mutate" /\ MutateSkips(f)
  \/ /\ f.script = "mutateBatch"
     /\ \E s \in f.slots : s \notin Occupied(token) \/ token.slot[s].live # f.old[s]
  \/ f.script = "extract" /\ f.slots \cap Occupied(token) = {}
  \/ /\ f.script = "insert"
     /\ token.feature[f.held].isInserted \/ f.slots \subseteq Occupied(token)
  \/ f.script = "setZIndex" /\ token.zIndexCommit = f.z
  \/ f.script = "transfer" /\ token.owner = f.to
  \/ f.script = "transferFeature" /\ token.feature[f.held].owner = f.to
  \/ f.script = "solve" /\ token.solved

(* What it demands before it sends anything.                               *)
Requires(f) ==
  /\ f.script = "mint" => key[f.by] \in {None, "own"}
  /\ f.script = "mutate" => f.slots \subseteq Occupied(token)
  /\ f.script \in {"insert", "transferFeature"} =>
       token.feature[f.held].checkpoint = f.checkpoint
  /\ f.script = "transfer" => key[f.to] # None
  /\ f.script = "bridge" => token.solved

(* The calls it records, of those it could need the ones it finds undone.  *)
(* Faulty variant: registerImage whether the image is registered or not.   *)
MintPlan_ImageAgain(f) ==
  {call \in {"register", "registerImage", "mint"} :
     /\ call = "register" => key[f.by] = None
     /\ call = "mint" => token.owner = None}

MintPlan(f) ==
  {call \in {"register", "registerImage", "mint"} :
     /\ call = "register" => key[f.by] = None
     /\ call = "registerImage" => ~image
     /\ call = "mint" => token.owner = None}

BridgePlan == {call \in {"approve", "bridge"} : call = "approve" => ~approved}

Plan(f) ==
  IF f.script = "mint" THEN MintPlan(f)
  ELSE IF f.script = "bridge" THEN BridgePlan
  ELSE {f.script}

(* Their order in the script.                                              *)
Place(call) ==
  CASE call = "register" -> 1 [] call \in {"registerImage", "approve"} -> 2 [] OTHER -> 3

(* A call that the contracts accept, and what it leaves.                   *)
Possible(call, f) ==
  \/ call = "register" /\ key[f.by] = None
  \/ call = "registerImage" /\ ~image
  \/ call = "approve" /\ token.owner = f.by
  \/ /\ call = f.script /\ Accepts(token, f)
     /\ f.script = "mint" => image /\ key[f.by] = "own"
     /\ f.script \in {"transfer", "transferFeature"} => key[f.to] = "own"
     /\ f.script = "bridge" => approved

Perform(call, f) ==
  /\ key' = IF call = "register" THEN [key EXCEPT ![f.by] = "own"] ELSE key
  /\ image' = (image \/ call = "registerImage")
  /\ token' = IF call = f.script THEN After(token, f) ELSE token
  /\ approved' = (call = "approve" \/ (approved /\ token'.owner = token.owner))

(* All of run() goes through, each call after those before it.             *)
Simulates(f) ==
  /\ Requires(f)
  /\ \A call \in Plan(f) :
       IF call = f.script
       THEN Accepts(token, f) /\ (f.to # None => key[f.to] = "own")
       ELSE Possible(call, f)
--------------------------------------------------------------------------------
NoRun == [step |-> 0, todo |-> {}, next |-> 0, wait |-> {}, ok |-> TRUE]

Init ==
  /\ token = Blank /\ image = FALSE /\ approved = FALSE
  /\ key = [u \in Accounts |-> None]
  /\ nonce = [u \in Accounts |-> 0]
  /\ pool = {} /\ run = NoRun /\ done = 0 /\ faults = 0

(* The operator runs the next script, or one of Again.                     *)
Script(i) ==
  /\ run = NoRun
  /\ i \in Steps
  /\ i = done + 1 \/ (i \in Again /\ i <= done)

Exit(i) == done' = IF i = done + 1 THEN i ELSE done

Skip(i) ==
  /\ Script(i)
  /\ Skips(Campaign[i])
  /\ Exit(i)
  /\ UNCHANGED <<chain, nonce, pool, run, faults>>

Simulate(i) ==
  /\ Script(i)
  /\ ~Skips(Campaign[i])
  /\ Simulates(Campaign[i])
  /\ run' = [step |-> i, todo |-> Plan(Campaign[i]), next |-> nonce[Campaign[i].by],
             wait |-> {}, ok |-> TRUE]
  /\ UNCHANGED <<chain, nonce, pool, done, faults>>

Running == run # NoRun
Runner == Campaign[run.step].by

(* A transaction replaces the one of the same account and nonce.           *)
At(u, n) == {tx \in pool : Account(tx) = u /\ tx.nonce = n}

Send ==
  /\ Running /\ run.next >= nonce[Runner]
  /\ \E call \in run.todo :
       /\ \A other \in run.todo : Place(call) <= Place(other)
       /\ pool' = (pool \ At(Runner, run.next))
                    \cup {[step |-> run.step, call |-> call, nonce |-> run.next]}
       /\ run' = [run EXCEPT !.todo = @ \ {call}, !.next = @ + 1,
                             !.wait = @ \cup {run.next}]
  /\ UNCHANGED <<chain, nonce, done, faults>>

Finish ==
  /\ Running /\ run.todo = {} /\ run.wait = {} /\ run.ok
  /\ Exit(run.step)
  /\ run' = NoRun
  /\ UNCHANGED <<chain, nonce, pool, faults>>

(* A receipt says that a transaction failed, one never comes, or the nonce *)
(* is refused.  Faulty variant: without forge's timeout, the script waits. *)
Fail_NoTimeout ==
  /\ Running
  /\ \/ ~run.ok
     \/ run.todo # {} /\ run.next < nonce[Runner]
  /\ run' = NoRun
  /\ UNCHANGED <<chain, nonce, pool, done, faults>>

Fail ==
  /\ Running
  /\ \/ ~run.ok
     \/ \E n \in run.wait : At(Runner, n) = {}
     \/ run.todo # {} /\ run.next < nonce[Runner]
  /\ run' = NoRun
  /\ UNCHANGED <<chain, nonce, pool, done, faults>>

(* A transaction is mined.  The script, if it still waits, gets a receipt. *)
Mined(tx, ok) ==
  /\ tx \in pool /\ tx.nonce = nonce[Account(tx)]
  /\ pool' = pool \ {tx}
  /\ nonce' = [nonce EXCEPT ![Account(tx)] = @ + 1]
  /\ run' = IF Running /\ Runner = Account(tx) /\ tx.nonce \in run.wait
            THEN [run EXCEPT !.wait = @ \ {tx.nonce}, !.ok = @ /\ ok]
            ELSE run
  /\ UNCHANGED done

Lands(tx) ==
  /\ Mined(tx, TRUE)
  /\ Possible(tx.call, Campaign[tx.step])
  /\ Perform(tx.call, Campaign[tx.step])
  /\ UNCHANGED faults

Reverts(tx) ==
  /\ Mined(tx, FALSE)
  /\ ~Possible(tx.call, Campaign[tx.step])
  /\ UNCHANGED <<chain, faults>>

Fault == faults < MaxFaults /\ faults' = faults + 1

OutOfGas(tx) == Fault /\ Mined(tx, FALSE) /\ UNCHANGED chain

Drop(tx) ==
  /\ Fault /\ tx \in pool
  /\ pool' = pool \ {tx}
  /\ UNCHANGED <<chain, nonce, run, done>>

Kill ==
  /\ Fault /\ Running
  /\ run' = NoRun
  /\ UNCHANGED <<chain, nonce, pool, done>>

(* Somebody registers a key from a wallet, the one the fixtures name or    *)
(* another; the transaction takes the place of any with its nonce.         *)
(* Faulty variant: which stays in the pool.                                *)
RegisterKey_Beside(u, k) ==
  /\ key[u] = None
  /\ key' = [key EXCEPT ![u] = k]
  /\ nonce' = [nonce EXCEPT ![u] = @ + 1]
  /\ UNCHANGED <<token, image, approved, pool, run, done, faults>>

RegisterKey(u, k) ==
  /\ key[u] = None
  /\ key' = [key EXCEPT ![u] = k]
  /\ nonce' = [nonce EXCEPT ![u] = @ + 1]
  /\ pool' = pool \ At(u, nonce[u])
  /\ UNCHANGED <<token, image, approved, run, done, faults>>

(* Anybody may register the image, with the proof of the fixture.          *)
RegisterImage ==
  /\ ~image
  /\ image' = TRUE
  /\ UNCHANGED <<token, key, approved, nonce, pool, run, done, faults>>

Operate == Send \/ Finish \/ Fail \/ \E i \in Steps : Skip(i) \/ Simulate(i)
Mine == \E tx \in pool : Lands(tx) \/ Reverts(tx)
Accidents == Kill \/ \E tx \in pool : OutOfGas(tx) \/ Drop(tx)
Others == RegisterImage \/ \E u \in Accounts, k \in {"own", "other"} : RegisterKey(u, k)

Next == Operate \/ Mine \/ Accidents \/ Others

(* The operator goes on until the last step, blocks are built, and each    *)
(* recipient registers.                                                    *)
Fairness ==
  /\ WF_vars(Operate) /\ WF_vars(Mine)
  /\ \A u \in Accounts : WF_vars(RegisterKey(u, "own"))

Spec == Init /\ [][Next]_vars /\ Fairness
--------------------------------------------------------------------------------
Transactions == [step : Steps, call : Calls, nonce : Nat]

(* Types; and no transaction waits for a nonce that was used.              *)
TypeOK ==
  /\ token \in Token /\ image \in BOOLEAN /\ approved \in BOOLEAN
  /\ key \in [Accounts -> {None, "own", "other"}]
  /\ nonce \in [Accounts -> Nat]
  /\ pool \subseteq Transactions
  /\ \A tx \in pool : tx.nonce >= nonce[Account(tx)]
  /\ run \in [step : Steps \cup {0}, todo : SUBSET Calls, next : Nat,
              wait : SUBSET Nat, ok : BOOLEAN]
  /\ done \in 0..Len(Campaign) /\ faults \in 0..MaxFaults

(* However often the scripts are killed and run again, and whatever they   *)
(* left in the pool, the shadow is where the steps done lead, or one step  *)
(* further: no script exits with 0 for a step that did not happen, none    *)
(* happens twice, and none out of its turn.                                *)
CampaignInOrder ==
  \E k \in {done + 1, done + 2} \cap 1..Len(Pictures) : token = Pictures[k]

(* "Re-running this script after a partial failure must not revert at any  *)
(* pre-checked step" (MintOnSepolia.s.sol:22), and the same of the others: *)
(* at any moment the script of the next step skips or goes through, if the *)
(* keys registered are the ones its fixture names.  The exception is the   *)
(* bridge's, once its shadow has crossed.                                  *)
RerunGoesThrough ==
  done < Len(Campaign) =>
    LET f == Campaign[done + 1]
    IN \/ key[f.by] = "other" \/ (f.to # None /\ key[f.to] # "own")
       \/ f.script = "bridge" /\ token.owner = Bridge
       \/ Skips(f) \/ Simulates(f)

(* The campaign is completed, unless somebody registers another key than   *)
(* the fixtures were built for.                                            *)
Completes ==
  [](\A u \in Accounts : key[u] # "other") => <>(token = Pictures[Len(Pictures)])

(* "Post-broadcast verification" (InsertOnSepolia.s.sol:100): once the     *)
(* script's transactions are mined, what it has verified is so.            *)
PostStateOk ==
  Running /\ run.todo = {} /\ run.wait = {} /\ Campaign[run.step].script = "insert" =>
    token.feature[Campaign[run.step].held].isInserted

(* "Each state-change op is replay-resistant", extractSlot because "storage*)
(* advances, replayed proof's PI mismatches" (docs/V2_FLOW.md:259): the    *)
(* proof of an extraction is not accepted when its step is past.           *)
ReplayResistant ==
  \A i \in 1..done : Campaign[i].script = "extract" => ~Possible("extract", Campaign[i])
================================================================================
