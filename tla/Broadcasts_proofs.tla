---------------------------- MODULE Broadcasts_proofs ----------------------------
(***************************************************************************)
(* Theorems about Broadcasts, for every campaign and any number of faults. *)
(***************************************************************************)
EXTENDS Broadcasts, TLAPS

(* Steps whose scripts are run again by mistake are those past repeating.  *)
AgainIsPast == \A i \in Again \cap Steps : NeverBack(i)

--------------------------------------------------------------------------------
LEMMA StepFacts ==
  ASSUME NEW i \in Steps
  PROVE  /\ Campaign[i] \in Fixture /\ Campaign[i].by \in Accounts
         /\ Campaign[i].script \in Scripts
         /\ Pictures[i] \in Token /\ Pictures[i + 1] \in Token
         /\ Campaign[i].script = "mint" <=> i = 1
         /\ Accepts(Pictures[i], Campaign[i]) /\ Changes(Pictures[i], Campaign[i])
         /\ Pictures[i + 1] = After(Pictures[i], Campaign[i])
         /\ i \in Nat \ {0} /\ i <= Len(Campaign) /\ i + 1 <= Len(Pictures)
         /\ Len(Campaign) \in Nat \ {0} /\ Len(Pictures) = Len(Campaign) + 1
         /\ Campaign[i].script \notin {"extract", "setZIndex"} => NeverBack(i)
<1>1. Len(Campaign) \in Nat \ {0} /\ Len(Pictures) = Len(Campaign) + 1
  BY CampaignAssumption
<1>2. /\ Campaign[i] \in Fixture
      /\ Pictures[i] \in Token /\ Pictures[i + 1] \in Token
      /\ Campaign[i].script = "mint" <=> i = 1
      /\ Accepts(Pictures[i], Campaign[i])
      /\ Pictures[i + 1] = After(Pictures[i], Campaign[i])
  BY CampaignAssumption
<1>3. Campaign[i].by \in Accounts /\ Campaign[i].script \in Scripts
  BY <1>2 DEF Fixture
<1>4. i \in Nat \ {0} /\ i <= Len(Campaign)
  BY <1>1 DEF Steps
<1> QED BY <1>1, <1>2, <1>3, <1>4, ChangeAssumption, PastAssumption

LEMMA AfterIs ==
  ASSUME NEW t, NEW f
  PROVE  /\ f.script = "mint" => After(t, f) = Minted(t, f)
         /\ f.script \in {"mutate", "mutateBatch"} => After(t, f) = Mutated(t, f)
         /\ f.script = "extract" => After(t, f) = Extracted(t, f)
         /\ f.script = "insert" => After(t, f) = Inserted(t, f)
         /\ f.script = "setZIndex" => After(t, f) = ZIndexSet(t, f)
         /\ f.script = "transfer" => After(t, f) = Transferred(t, f)
         /\ f.script = "transferFeature" => After(t, f) = FeatureSold(t, f)
         /\ f.script = "solve" => After(t, f) = Solved(t, f)
         /\ f.script = "bridge" => After(t, f) = Bridged(t, f)
BY DEF After

(* What a step is past, the contracts refuse.                              *)
LEMMA PastIsRefused ==
  ASSUME NEW t, NEW f \in Fixture, Past(t, f)
  PROVE  ~Accepts(t, f)
<1>1. f.by \in Accounts /\ Bridge # f.by
  BY NamesAssumption DEF Fixture
<1> QED
  BY <1>1 DEF Past, Accepts, MayMint, MayMutate, MayInsert, MayTransfer, MaySellFeature,
              MaySolve, MayBridge, Owns, BindsManifest

LEMMA NeverAgain ==
  ASSUME NEW i \in Steps, NeverBack(i), NEW k \in 1..Len(Pictures), k > i
  PROVE  ~Accepts(Pictures[k], Campaign[i])
<1>1. k \in (i + 1)..Len(Pictures)
  BY StepFacts
<1>2. Past(Pictures[k], Campaign[i])
  BY <1>1 DEF NeverBack
<1> QED BY <1>2, StepFacts, PastIsRefused

(* A script skips when its step has been taken, and not before.            *)
LEMMA NotYetSkipped ==
  ASSUME NEW f \in Fixture, token \in Token, Accepts(token, f), Changes(token, f)
  PROVE  ~Skips(f)
<1>1. f.by \in Accounts /\ None # f.by /\ f.by # Bridge
  BY NamesAssumption DEF Fixture
<1>2. CASE f.script = "mint"
  BY <1>1, <1>2 DEF Accepts, MayMint, Skips
<1>3. CASE f.script \in {"mutate", "mutateBatch"}
  BY <1>3 DEF Accepts, MayMutate, Skips, MutateSkips, Changes
<1>4. CASE f.script = "extract"
  BY <1>4 DEF Accepts, MayExtract, Skips, Changes
<1>5. CASE f.script = "insert"
  BY <1>5 DEF Accepts, MayInsert, Skips, Changes
<1>6. CASE f.script = "setZIndex"
  BY <1>6 DEF Skips, Changes
<1>7. CASE f.script = "transfer"
  BY <1>7 DEF Accepts, MayTransfer, Owns, Skips, Changes
<1>8. CASE f.script = "transferFeature"
  BY <1>8 DEF Accepts, MaySellFeature, Skips, Changes
<1>9. CASE f.script = "solve"
  BY <1>9 DEF Accepts, MaySolve, Owns, Skips
<1>10. CASE f.script = "bridge"
  BY <1>10 DEF Skips
<1> QED BY <1>2, <1>3, <1>4, <1>5, <1>6, <1>7, <1>8, <1>9, <1>10 DEF Fixture, Scripts

LEMMA ThenSkipped ==
  ASSUME NEW f \in Fixture, NEW t \in Token, Accepts(t, f), Changes(t, f),
         f.script \notin {"mint", "bridge"}, token = After(t, f)
  PROVE  Skips(f)
<1>3. CASE f.script \in {"mutate", "mutateBatch"}
  <2>1. token = Mutated(t, f)
    BY <1>3, AfterIs
  <2>2. \A s \in f.slots : s \in Slots /\ t.slot[s].feature # None /\ f.new[s] # f.old[s]
    BY <1>3 DEF Accepts, MayMutate, Changes, Fixture, Occupied
  <2>3. \A s \in f.slots : token.slot[s] = [feature |-> t.slot[s].feature, live |-> f.new[s]]
    BY <2>1, <2>2 DEF Mutated, Token
  <2>4. /\ \A s \in f.slots : s \in Occupied(token)
        /\ \A s \in f.slots : token.slot[s].live # f.old[s]
    <3> SUFFICES ASSUME NEW s \in f.slots
                 PROVE  s \in Occupied(token) /\ token.slot[s].live # f.old[s]
      OBVIOUS
    <3>0. token.slot[s] = [feature |-> t.slot[s].feature, live |-> f.new[s]]
      BY <2>3
    <3>1. /\ token.slot[s].feature = t.slot[s].feature
          /\ token.slot[s].live = f.new[s]
      BY <3>0
    <3>2. s \in Slots /\ t.slot[s].feature # None /\ f.new[s] # f.old[s]
      BY <2>2
    <3>3. token.slot[s].feature # None
      BY <3>1, <3>2
    <3>4. s \in Occupied(token)
      BY <3>2, <3>3 DEF Occupied
    <3> QED BY <3>1, <3>2, <3>4
  <2>5. \E s \in Slots : s \in f.slots
    BY <1>3 DEF Changes, Fixture
  <2> QED BY <1>3, <2>4, <2>5 DEF Skips, MutateSkips
<1>4. CASE f.script = "extract"
  <2>1. token = Extracted(t, f)
    BY <1>4, AfterIs
  <2>2. \A s \in Slots \cap f.slots : token.slot[s] = Vacant
    BY <2>1 DEF Extracted, Token
  <2> QED BY <1>4, <2>2 DEF Skips, Occupied, Vacant
<1>5. CASE f.script = "insert"
  <2>1. token = Inserted(t, f) /\ f.held \in Carriers
    BY <1>5, AfterIs DEF Accepts, MayInsert
  <2>2. token.feature[f.held].isInserted
    BY <2>1 DEF Inserted, Token
  <2> QED BY <1>5, <2>2 DEF Skips
<1>6. CASE f.script = "setZIndex"
  <2>1. token = ZIndexSet(t, f)
    BY <1>6, AfterIs
  <2>2. token.zIndexCommit = f.z
    BY <2>1 DEF ZIndexSet, Token
  <2> QED BY <1>6, <2>2 DEF Skips
<1>7. CASE f.script = "transfer"
  <2>1. token = Transferred(t, f)
    BY <1>7, AfterIs
  <2>2. token.owner = f.to
    BY <2>1 DEF Transferred, Token
  <2> QED BY <1>7, <2>2 DEF Skips
<1>8. CASE f.script = "transferFeature"
  <2>1. token = FeatureSold(t, f) /\ f.held \in Carriers
    BY <1>8, AfterIs DEF Accepts, MaySellFeature
  <2>2. token.feature[f.held].owner = f.to
    BY <2>1 DEF FeatureSold, Token
  <2> QED BY <1>8, <2>2 DEF Skips
<1>9. CASE f.script = "solve"
  <2>1. token = Solved(t, f)
    BY <1>9, AfterIs
  <2>2. token.solved
    BY <2>1 DEF Solved, Token
  <2> QED BY <1>9, <2>2 DEF Skips
<1> QED BY <1>3, <1>4, <1>5, <1>6, <1>7, <1>8, <1>9 DEF Fixture, Scripts

LEMMA StepsApart ==
  ASSUME NEW i \in Steps, token = Pictures[i]
  PROVE  token # Pictures[i + 1] /\ ~Skips(Campaign[i])
<1> DEFINE f == Campaign[i]
<1>1. /\ f \in Fixture /\ token \in Token /\ Accepts(token, f) /\ Changes(token, f)
      /\ Pictures[i + 1] = After(token, f)
  BY StepFacts
<1> HIDE DEF f
<1>2. ~Skips(f)
  BY <1>1, NotYetSkipped
<1>3. f.by \in Accounts /\ f.by # None /\ f.by # Bridge
  BY <1>1, NamesAssumption DEF Fixture
<1>4. CASE f.script = "mint"
  <2>1. After(token, f) = Minted(token, f) /\ token.owner = None
    BY <1>1, <1>4, AfterIs DEF Accepts, MayMint
  <2>2. Minted(token, f).owner = f.by
    BY <1>1 DEF Minted, Token
  <2> QED BY <1>1, <1>2, <1>3, <2>1, <2>2 DEF f
<1>5. CASE f.script = "bridge"
  <2>1. After(token, f) = Bridged(token, f) /\ token.owner = f.by
    BY <1>1, <1>5, AfterIs DEF Accepts, MayBridge
  <2>2. Bridged(token, f).owner = Bridge
    BY <1>1 DEF Bridged, Token
  <2> QED BY <1>1, <1>2, <1>3, <2>1, <2>2 DEF f
<1>6. CASE f.script \notin {"mint", "bridge"}
  <2>1. ASSUME token = Pictures[i + 1] PROVE Skips(f)
    BY <1>1, <1>6, <2>1, ThenSkipped
  <2> QED BY <1>2, <2>1 DEF f
<1> QED BY <1>4, <1>5, <1>6

LEMMA SkippedAfterwards ==
  ASSUME NEW i \in Steps, token = Pictures[i + 1], Campaign[i].script \notin {"mint", "bridge"}
  PROVE  Skips(Campaign[i])
BY StepFacts, ThenSkipped

--------------------------------------------------------------------------------
CallsOf(i) ==
  IF Campaign[i].script = "mint" THEN {"register", "registerImage", "mint"}
  ELSE IF Campaign[i].script = "bridge" THEN {"approve", "bridge"}
  ELSE {Campaign[i].script}

(* The next step, not taken yet.                                           *)
Due(i) == i = done + 1 /\ token = Pictures[i]

MintedInv == token.owner # None => image /\ key[Campaign[1].by] = "own"

(* A transaction of a step that could be taken again later is there only as*)
(* long as its step is due, and is the next of its account.                *)
PoolInv ==
  /\ \A a, b \in pool : Account(a) = Account(b) /\ a.nonce = b.nonce => a = b
  /\ \A tx \in pool :
       /\ tx.step <= done + 1
       /\ ~NeverBack(tx.step) =>
            /\ tx.call = Campaign[tx.step].script
            /\ Due(tx.step)
            /\ tx.nonce = nonce[Account(tx)]

(* What a script waits for is its own; it still has its main call to send, *)
(* or waits for it, or the shadow has taken the step.                      *)
RunInv ==
  Running =>
    /\ run.step \in Steps /\ run.step <= done + 1
    /\ run.todo \subseteq CallsOf(run.step)
    /\ run.todo # {} => Campaign[run.step].script \in run.todo
    /\ \A n \in run.wait :
         /\ n < run.next
         /\ \A tx \in At(Runner, n) :
              /\ tx.step = run.step
              /\ run.todo = {} /\ n + 1 = run.next => tx.call = Campaign[run.step].script
    /\ ~NeverBack(run.step) =>
         /\ run.step = done + 1
         /\ run.todo # {} /\ run.next >= nonce[Runner] =>
              Due(run.step) /\ run.next = nonce[Runner]
    /\ run.todo = {} /\ run.ok /\ run.step = done + 1 /\ token # Pictures[done + 2] =>
         \E n \in run.wait : n + 1 = run.next

BroadcastsInv == TypeOK /\ CampaignInOrder /\ MintedInv /\ PoolInv /\ RunInv

LEMMA OrderFacts ==
  ASSUME TypeOK, CampaignInOrder
  PROVE  /\ done \in 0..Len(Campaign) /\ done \in Nat
         /\ token = Pictures[done + 1] \/ (done + 1 \in Steps /\ token = Pictures[done + 2])
<1>1. Len(Campaign) \in Nat \ {0} /\ Len(Pictures) = Len(Campaign) + 1
  BY CampaignAssumption
<1> QED BY <1>1 DEF TypeOK, CampaignInOrder, Steps

LEMMA OrderKept ==
  ASSUME done \in 0..Len(Campaign),
         token = Pictures[done + 1] \/ (done + 1 \in Steps /\ token = Pictures[done + 2])
  PROVE  CampaignInOrder /\ token \in Token
<1>1. Len(Campaign) \in Nat \ {0} /\ Len(Pictures) = Len(Campaign) + 1
  BY CampaignAssumption
<1>2. CampaignInOrder
  BY <1>1 DEF CampaignInOrder, Steps
<1>3. \A k \in 1..Len(Pictures) : Pictures[k] \in Token
  <2> SUFFICES ASSUME NEW k \in 1..Len(Pictures) PROVE Pictures[k] \in Token
    OBVIOUS
  <2>1. CASE k \in Steps
    BY <2>1, StepFacts
  <2>2. CASE k - 1 \in Steps
    BY <2>2, StepFacts
  <2> QED BY <1>1, <2>1, <2>2 DEF Steps
<1> QED BY <1>2, <1>3 DEF CampaignInOrder

(* The main call of a step lands only when its step is due.                *)
LEMMA LandsWhenDue ==
  ASSUME BroadcastsInv, NEW tx \in pool, tx.call = Campaign[tx.step].script,
         Possible(tx.call, Campaign[tx.step])
  PROVE  tx.step \in Steps /\ Due(tx.step) /\ Accepts(token, Campaign[tx.step])
<1>1. tx.step \in Steps /\ tx.step <= done + 1
  BY DEF BroadcastsInv, TypeOK, Transactions, PoolInv
<1>2. Accepts(token, Campaign[tx.step])
  BY <1>1, StepFacts DEF Possible, Scripts
<1>3. CASE ~NeverBack(tx.step)
  BY <1>1, <1>2, <1>3 DEF BroadcastsInv, PoolInv
<1>4. CASE NeverBack(tx.step)
  <2>1. PICK k \in {done + 1, done + 2} \cap 1..Len(Pictures) : token = Pictures[k]
    BY DEF BroadcastsInv, CampaignInOrder
  <2>2. ~(k > tx.step)
    BY <1>1, <1>2, <1>4, <2>1, NeverAgain
  <2>3. done \in Nat /\ tx.step \in Nat
    BY <1>1, StepFacts, OrderFacts DEF BroadcastsInv
  <2>4. k = tx.step /\ tx.step = done + 1
    BY <1>1, <2>1, <2>2, <2>3
  <2> QED BY <1>1, <1>2, <2>1, <2>4 DEF Due
<1> QED BY <1>3, <1>4

LEMMA InvFacts ==
  ASSUME BroadcastsInv
  PROVE  /\ \A tx \in pool :
              /\ tx \in Transactions /\ tx.step \in Steps /\ tx.nonce \in Nat
              /\ Account(tx) \in Accounts /\ tx.nonce >= nonce[Account(tx)]
         /\ nonce \in [Accounts -> Nat]
         /\ done \in 0..Len(Campaign) /\ done \in Nat
         /\ token = Pictures[done + 1] \/ (done + 1 \in Steps /\ token = Pictures[done + 2])
         /\ Running => run.step \in Steps /\ Runner \in Accounts
         /\ run.next \in Nat /\ run.wait \subseteq Nat
<1>1. \A tx \in pool : tx \in Transactions /\ tx.step \in Steps /\ tx.nonce \in Nat
  BY DEF BroadcastsInv, TypeOK, Transactions
<1>2. \A tx \in pool : Account(tx) \in Accounts
  BY <1>1, StepFacts DEF Account
<1>3. Running => run.step \in Steps /\ Runner \in Accounts
  BY StepFacts DEF BroadcastsInv, RunInv, Runner
<1>4. run.next \in Nat /\ run.wait \subseteq Nat
  BY DEF BroadcastsInv, TypeOK
<1> QED BY <1>1, <1>2, <1>3, <1>4, OrderFacts DEF BroadcastsInv, TypeOK

LEMMA CallsOfStep ==
  ASSUME NEW i \in Steps
  PROVE  /\ CallsOf(i) \subseteq Calls
         /\ ~NeverBack(i) => CallsOf(i) = {Campaign[i].script}
         /\ Plan(Campaign[i]) \subseteq CallsOf(i)
<1>1. Campaign[i].script \in Scripts
  BY StepFacts
<1>2. CallsOf(i) \subseteq Calls
  BY <1>1 DEF CallsOf, Calls, Scripts
<1>3. ~NeverBack(i) => CallsOf(i) = {Campaign[i].script}
  BY StepFacts DEF CallsOf
<1>4. Plan(Campaign[i]) \subseteq CallsOf(i)
  BY DEF Plan, CallsOf, MintPlan, BridgePlan
<1> QED BY <1>2, <1>3, <1>4

LEMMA InRange ==
  ASSUME NEW d \in 0..Len(Campaign)
  PROVE  /\ d + 1 \in 1..Len(Pictures)
         /\ d + 1 \in Steps => d + 2 \in 1..Len(Pictures)
<1>1. Len(Campaign) \in Nat \ {0} /\ Len(Pictures) = Len(Campaign) + 1
  BY CampaignAssumption
<1> QED BY <1>1 DEF Steps

LEMMA InitInv == Init => BroadcastsInv
<1> SUFFICES ASSUME Init PROVE BroadcastsInv
  OBVIOUS
<1>1. Len(Campaign) \in Nat \ {0} /\ Len(Pictures) = Len(Campaign) + 1 /\ Pictures[1] = Blank
  BY CampaignAssumption
<1>2. done = 0 /\ token = Pictures[done + 1]
  BY <1>1 DEF Init
<1>3. CampaignInOrder /\ token \in Token
  BY <1>1, <1>2, OrderKept
<1>4. TypeOK
  <2>1. /\ image \in BOOLEAN /\ approved \in BOOLEAN
        /\ key \in [Accounts -> {None, "own", "other"}]
        /\ nonce \in [Accounts -> Nat] /\ pool = {}
    BY DEF Init
  <2>2. run \in [step : Steps \cup {0}, todo : SUBSET Calls, next : Nat,
                 wait : SUBSET Nat, ok : BOOLEAN]
    BY DEF Init, NoRun
  <2>3. done \in 0..Len(Campaign) /\ faults \in 0..MaxFaults
    BY <1>1, FaultsAssumption DEF Init
  <2> QED BY <1>3, <2>1, <2>2, <2>3 DEF TypeOK
<1>5. token.owner = None
  BY DEF Init, Blank
<1>6. ~Running
  BY DEF Init, Running
<1>7. pool = {}
  BY DEF Init
<1> QED BY <1>3, <1>4, <1>5, <1>6, <1>7 DEF BroadcastsInv, MintedInv, PoolInv, RunInv

(* When its step has been taken, the operator goes on to the next.         *)
LEMMA ExitInv ==
  ASSUME BroadcastsInv, NEW i \in Steps, i <= done + 1, Exit(i),
         i = done + 1 => token = Pictures[i + 1],
         run' = NoRun, UNCHANGED <<chain, nonce, pool, faults>>
  PROVE  BroadcastsInv'
<1> USE DEF chain
<1>1. i \in Nat /\ i <= Len(Campaign) /\ done \in Nat /\ done \in 0..Len(Campaign)
  BY StepFacts, InvFacts
<1>2. done' \in 0..Len(Campaign) /\ done <= done'
  BY <1>1 DEF Exit
<1>3. token = Pictures[done' + 1] \/ (done' + 1 \in Steps /\ token = Pictures[done' + 2])
  BY <1>1, InvFacts DEF Exit
<1>4. CampaignInOrder' /\ token' \in Token
  <2>1. /\ done' + 1 \in 1..Len(Pictures)
        /\ done' + 1 \in Steps => done' + 2 \in 1..Len(Pictures)
    BY <1>2, InRange
  <2>2. CampaignInOrder'
    BY <1>3, <2>1 DEF CampaignInOrder
  <2> QED BY <2>2 DEF BroadcastsInv, TypeOK
<1>5. TypeOK'
  BY <1>2, <1>4 DEF BroadcastsInv, TypeOK, NoRun
<1>6. MintedInv'
  BY DEF BroadcastsInv, MintedInv
<1>7. PoolInv'
  <2>1. \A a, b \in pool' : Account(a) = Account(b) /\ a.nonce = b.nonce => a = b
    BY DEF BroadcastsInv, PoolInv
  <2>2. ASSUME NEW tx \in pool', ~NeverBack(tx.step) PROVE done' = done
    <3>1. tx.step = done + 1 /\ token = Pictures[tx.step]
      BY <2>2 DEF BroadcastsInv, PoolInv, Due
    <3>2. i # done + 1
      BY <3>1, StepsApart
    <3> QED BY <3>2 DEF Exit
  <2>3. ASSUME NEW tx \in pool'
        PROVE  /\ tx.step <= done' + 1
               /\ ~NeverBack(tx.step) =>
                    /\ tx.call = Campaign[tx.step].script
                    /\ Due(tx.step)'
                    /\ tx.nonce = nonce'[Account(tx)]
    <3>1. tx.step \in Nat /\ tx.step <= done + 1
      BY InvFacts, StepFacts DEF BroadcastsInv, PoolInv
    <3>2. tx.step <= done' + 1
      BY <3>1, <1>1, <1>2
    <3> QED BY <2>2, <3>2 DEF BroadcastsInv, PoolInv, Due
  <2> QED BY <2>1, <2>3 DEF PoolInv
<1>8. RunInv'
  BY DEF RunInv, Running
<1> QED BY <1>4, <1>5, <1>6, <1>7, <1>8 DEF BroadcastsInv

LEMMA SkipInv ==
  ASSUME BroadcastsInv, NEW i \in Steps, Skip(i)
  PROVE  BroadcastsInv'
<1>1. i <= done + 1 /\ Exit(i) /\ run' = NoRun /\ UNCHANGED <<chain, nonce, pool, faults>>
  BY StepFacts, InvFacts DEF Skip, Script
<1>2. i = done + 1 => token = Pictures[i + 1]
  <2> SUFFICES ASSUME i = done + 1 PROVE token = Pictures[i + 1]
    OBVIOUS
  <2>1. token # Pictures[i]
    BY StepsApart DEF Skip
  <2> QED BY <2>1, InvFacts
<1> QED BY <1>1, <1>2, ExitInv

LEMMA FinishInv ==
  ASSUME BroadcastsInv, Finish
  PROVE  BroadcastsInv'
<1>1. /\ run.step \in Steps /\ run.step <= done + 1
      /\ Exit(run.step) /\ run' = NoRun /\ UNCHANGED <<chain, nonce, pool, faults>>
  BY DEF Finish, BroadcastsInv, RunInv
<1>2. run.step = done + 1 => token = Pictures[run.step + 1]
  BY InvFacts DEF Finish, BroadcastsInv, RunInv
<1> QED BY <1>1, <1>2, ExitInv

(* A script that starts finds its step due, or past repeating.             *)
LEMMA SimulateInv ==
  ASSUME BroadcastsInv, AgainIsPast, NEW i \in Steps, Simulate(i)
  PROVE  BroadcastsInv'
<1> DEFINE f == Campaign[i]
<1>1. /\ run = NoRun /\ i <= done + 1 /\ ~Skips(f)
      /\ run' = [step |-> i, todo |-> Plan(f), next |-> nonce[f.by],
                 wait |-> {}, ok |-> TRUE]
      /\ UNCHANGED <<token, image, key, approved, nonce, pool, done, faults>>
  BY StepFacts, InvFacts DEF Simulate, Script, chain
<1>2. nonce[f.by] \in Nat /\ Plan(f) \subseteq CallsOf(i) /\ Plan(f) \subseteq Calls
  BY StepFacts, InvFacts, CallsOfStep
<1>3. TypeOK' /\ CampaignInOrder' /\ MintedInv' /\ PoolInv'
  <2>1. TypeOK'
    BY <1>1, <1>2 DEF BroadcastsInv, TypeOK
  <2>2. CampaignInOrder' /\ MintedInv'
    BY <1>1 DEF BroadcastsInv, CampaignInOrder, MintedInv
  <2>3. PoolInv'
    BY <1>1 DEF BroadcastsInv, PoolInv, Due
  <2> QED BY <2>1, <2>2, <2>3
<1>4. f.script \in Plan(f)
  <2>1. CASE f.script = "mint"
    <3>1. i = 1
      BY <2>1, StepFacts
    <3>2. token.owner = None
      BY <1>1, <2>1, <3>1 DEF BroadcastsInv, MintedInv, Skips
    <3> QED BY <2>1, <3>2 DEF Plan, MintPlan
  <2>2. CASE f.script = "bridge"
    BY <2>2 DEF Plan, BridgePlan
  <2>3. CASE f.script \notin {"mint", "bridge"}
    BY <2>3 DEF Plan
  <2> QED BY <2>1, <2>2, <2>3
<1>5. ~NeverBack(i) => i = done + 1 /\ Due(i)
  <2> SUFFICES ASSUME ~NeverBack(i) PROVE i = done + 1 /\ Due(i)
    OBVIOUS
  <2>1. f.script \in {"extract", "setZIndex"}
    BY StepFacts
  <2>2. i = done + 1
    BY <1>1 DEF Simulate, Script, AgainIsPast
  <2>3. token # Pictures[i + 1]
    BY <1>1, <2>1, SkippedAfterwards
  <2>4. token = Pictures[done + 1] \/ token = Pictures[done + 2]
    BY InvFacts
  <2>5. i + 1 = done + 2
    BY <2>2, InvFacts
  <2> QED BY <2>2, <2>3, <2>4, <2>5 DEF Due
<1>6. RunInv'
  <2>1. /\ run'.step = i /\ run'.todo = Plan(f) /\ run'.next = nonce[f.by]
        /\ run'.wait = {} /\ Runner' = f.by
    BY <1>1 DEF Runner
  <2>2. ~NeverBack(i) =>
          /\ run'.step = done' + 1
          /\ Due(run.step)' /\ run'.next = nonce'[Runner']
    BY <1>1, <1>5, <2>1 DEF Due
  <2>3. run'.step <= done' + 1 /\ run'.todo \subseteq CallsOf(i) /\ f.script \in run'.todo
    BY <1>1, <1>2, <1>4, <2>1
  <2> QED BY <2>1, <2>2, <2>3 DEF RunInv, Due
<1> QED BY <1>3, <1>6 DEF BroadcastsInv

(* The main call is the last.                                              *)
LEMMA MainIsLast ==
  ASSUME NEW i \in Steps, NEW S, S \subseteq CallsOf(i), Campaign[i].script \in S,
         NEW call \in S, \A other \in S : Place(call) <= Place(other)
  PROVE  call = Campaign[i].script => S = {call}
<1> DEFINE m == Campaign[i].script
<1> SUFFICES ASSUME call = m, NEW other \in S PROVE other = m
  OBVIOUS
<1>1. Place(m) <= Place(other)
  OBVIOUS
<1>2. CASE m = "mint"
  BY <1>1, <1>2 DEF CallsOf, Place
<1>3. CASE m = "bridge"
  BY <1>1, <1>3 DEF CallsOf, Place
<1>4. CASE m \notin {"mint", "bridge"}
  BY <1>4 DEF CallsOf
<1> QED BY <1>2, <1>3, <1>4

LEMMA SendInv ==
  ASSUME BroadcastsInv, Send
  PROVE  BroadcastsInv'
<1>1. PICK call \in run.todo :
        /\ \A other \in run.todo : Place(call) <= Place(other)
        /\ pool' = (pool \ At(Runner, run.next))
                     \cup {[step |-> run.step, call |-> call, nonce |-> run.next]}
        /\ run' = [run EXCEPT !.todo = @ \ {call}, !.next = @ + 1,
                              !.wait = @ \cup {run.next}]
  BY DEF Send
<1> DEFINE i == run.step
           m == Campaign[i].script
           new == [step |-> i, call |-> call, nonce |-> run.next]
<1>2. /\ Running /\ run.next >= nonce[Runner]
      /\ UNCHANGED <<token, image, key, approved, nonce, done, faults>>
  BY DEF Send, chain
<1>3. /\ i \in Steps /\ Runner \in Accounts /\ run.next \in Nat /\ run.wait \subseteq Nat
      /\ i <= done + 1 /\ run.todo \subseteq CallsOf(i) /\ m \in run.todo
  BY <1>1, <1>2, InvFacts DEF BroadcastsInv, RunInv
<1>4. call \in Calls /\ call \in CallsOf(i) /\ (call = m => run.todo = {call})
  BY <1>1, <1>3, CallsOfStep, MainIsLast
<1>5. /\ run'.step = i /\ run'.todo = run.todo \ {call} /\ run'.next = run.next + 1
      /\ run'.wait = run.wait \cup {run.next} /\ run'.ok = run.ok /\ Runner' = Runner
  BY <1>1 DEF BroadcastsInv, TypeOK, Runner
<1>6. new.step = i /\ new.call = call /\ new.nonce = run.next /\ Account(new) = Runner
  BY DEF Account, Runner
<1>7. ~NeverBack(i) => call = m /\ Due(i) /\ run.next = nonce[Runner]
  BY <1>1, <1>2, <1>3, <1>4, CallsOfStep DEF BroadcastsInv, RunInv
<1>8. \A tx \in pool' : tx = new \/ tx \in pool \ At(Runner, run.next)
  BY <1>1
<1> HIDE DEF new, i, m
<1>9. TypeOK' /\ CampaignInOrder' /\ MintedInv'
  <2>1. new \in Transactions
    BY <1>3, <1>4 DEF Transactions, new
  <2>2. pool' \subseteq Transactions
    BY <1>8, <2>1 DEF BroadcastsInv, TypeOK
  <2>3. \A tx \in pool' : tx.nonce >= nonce'[Account(tx)]
    BY <1>2, <1>6, <1>8 DEF BroadcastsInv, TypeOK
  <2>4. run' \in [step : Steps \cup {0}, todo : SUBSET Calls, next : Nat,
                  wait : SUBSET Nat, ok : BOOLEAN]
    <3>1. /\ run.todo \ {call} \in SUBSET Calls /\ run.next + 1 \in Nat
          /\ run.wait \cup {run.next} \in SUBSET Nat
      BY <1>3 DEF BroadcastsInv, TypeOK
    <3> QED BY <1>1, <3>1 DEF BroadcastsInv, TypeOK
  <2>5. TypeOK'
    BY <1>2, <2>2, <2>3, <2>4 DEF BroadcastsInv, TypeOK
  <2> QED BY <1>2, <2>5 DEF BroadcastsInv, CampaignInOrder, MintedInv
<1>10. PoolInv'
  <2>1. \A a, b \in pool' : Account(a) = Account(b) /\ a.nonce = b.nonce => a = b
    BY <1>6, <1>8 DEF BroadcastsInv, PoolInv, At
  <2>2. \A tx \in pool' :
          /\ tx.step <= done' + 1
          /\ ~NeverBack(tx.step) =>
               /\ tx.call = Campaign[tx.step].script
               /\ tx.step = done' + 1 /\ token' = Pictures[tx.step]
               /\ tx.nonce = nonce'[Account(tx)]
    <3>1. \A tx \in pool :
            /\ tx.step <= done' + 1
            /\ ~NeverBack(tx.step) =>
                 /\ tx.call = Campaign[tx.step].script
                 /\ tx.step = done' + 1 /\ token' = Pictures[tx.step]
                 /\ tx.nonce = nonce'[Account(tx)]
      BY <1>2 DEF BroadcastsInv, PoolInv, Due
    <3>2. /\ new.step <= done' + 1
          /\ ~NeverBack(new.step) =>
               /\ new.call = Campaign[new.step].script
               /\ new.step = done' + 1 /\ token' = Pictures[new.step]
               /\ new.nonce = nonce'[Account(new)]
      BY <1>2, <1>3, <1>6, <1>7 DEF Due, m
    <3> QED BY <1>8, <3>1, <3>2
  <2> QED BY <2>1, <2>2 DEF PoolInv, Due
<1>11. RunInv'
  <2>1. run'.todo # {} => m \in run'.todo
    BY <1>3, <1>4, <1>5
  <2>2. ASSUME NEW n \in run'.wait
        PROVE  /\ n < run'.next
               /\ \A tx \in At(Runner, n)' :
                    /\ tx.step = i
                    /\ run'.todo = {} /\ n + 1 = run'.next => tx.call = m
    <3>1. CASE n \in run.wait
      <4>1. n < run.next /\ n \in Nat
        BY <1>2, <1>3, <3>1 DEF BroadcastsInv, RunInv
      <4>2. n < run'.next /\ n + 1 # run'.next
        BY <1>3, <1>5, <4>1
      <4>3. \A tx \in pool' : Account(tx) = Runner /\ tx.nonce = n => tx \in At(Runner, n)
        BY <1>3, <1>6, <1>8, <4>1 DEF At
      <4>4. \A tx \in At(Runner, n) : tx.step = i
        BY <1>2, <3>1 DEF BroadcastsInv, RunInv, i
      <4> QED BY <1>5, <4>2, <4>3, <4>4 DEF At
    <3>2. CASE n = run.next
      <4>1. \A tx \in pool' : Account(tx) = Runner /\ tx.nonce = n => tx = new
        BY <1>8, <3>2 DEF At
      <4>2. run'.todo = {} => call = m
        BY <1>3, <1>5
      <4> QED BY <1>3, <1>5, <1>6, <3>2, <4>1, <4>2 DEF At
    <3> QED BY <1>5, <3>1, <3>2
  <2>3. ~NeverBack(i) => i = done' + 1 /\ run'.todo = {}
    BY <1>2, <1>4, <1>5, <1>7 DEF Due
  <2>4. \E n \in run'.wait : n + 1 = run'.next
    BY <1>5
  <2>5. i \in Steps /\ i <= done' + 1 /\ run'.todo \subseteq CallsOf(i)
    BY <1>2, <1>3, <1>5
  <2> QED BY <1>5, <2>1, <2>2, <2>3, <2>4, <2>5 DEF RunInv, At, m
<1> QED BY <1>9, <1>10, <1>11 DEF BroadcastsInv

(* Transactions may vanish, and a script may end without a step done.      *)
LEMMA ShrinkInv ==
  ASSUME BroadcastsInv, pool' \subseteq pool, run' \in {run, NoRun},
         faults' \in 0..MaxFaults, UNCHANGED <<chain, nonce, done>>
  PROVE  BroadcastsInv'
<1> USE DEF chain
<1>1. run' \in [step : Steps \cup {0}, todo : SUBSET Calls, next : Nat,
                wait : SUBSET Nat, ok : BOOLEAN]
  <2>1. NoRun \in [step : Steps \cup {0}, todo : SUBSET Calls, next : Nat,
                   wait : SUBSET Nat, ok : BOOLEAN]
    BY DEF NoRun
  <2> QED BY <2>1 DEF BroadcastsInv, TypeOK
<1>2. TypeOK'
  BY <1>1 DEF BroadcastsInv, TypeOK
<1>3. CampaignInOrder' /\ MintedInv'
  BY DEF BroadcastsInv, CampaignInOrder, MintedInv
<1>4. PoolInv'
  BY DEF BroadcastsInv, PoolInv, Due
<1>5. RunInv'
  <2>1. CASE run' = NoRun
    BY <2>1 DEF RunInv, Running
  <2>2. CASE run' = run
    <3>1. Runner' = Runner /\ Running' = Running
      BY <2>2 DEF Runner, Running
    <3>2. \A n \in run.wait : At(Runner, n)' \subseteq At(Runner, n)
      BY <3>1 DEF At
    <3> QED BY <2>2, <3>1, <3>2 DEF BroadcastsInv, RunInv, Due
  <2> QED BY <2>1, <2>2
<1> QED BY <1>2, <1>3, <1>4, <1>5 DEF BroadcastsInv

LEMMA AccidentInv ==
  ASSUME BroadcastsInv,
         Fail \/ Kill \/ \E tx \in pool : Drop(tx)
  PROVE  BroadcastsInv'
<1>1. faults' \in 0..MaxFaults
  BY FaultsAssumption DEF BroadcastsInv, TypeOK, Fail, Kill, Drop, Fault
<1>2. pool' \subseteq pool /\ run' \in {run, NoRun} /\ UNCHANGED <<chain, nonce, done>>
  BY DEF Fail, Kill, Drop
<1> QED BY <1>1, <1>2, ShrinkInv

LEMMA RegisterImageInv ==
  ASSUME BroadcastsInv, RegisterImage
  PROVE  BroadcastsInv'
<1> USE DEF RegisterImage
<1>1. TypeOK' /\ CampaignInOrder' /\ MintedInv'
  BY DEF BroadcastsInv, TypeOK, CampaignInOrder, MintedInv
<1>2. PoolInv'
  BY DEF BroadcastsInv, PoolInv, Due
<1>3. RunInv'
  <2>1. Runner' = Runner /\ Running' = Running
    BY DEF Runner, Running
  <2> QED BY <2>1 DEF BroadcastsInv, RunInv, Due, At
<1> QED BY <1>1, <1>2, <1>3 DEF BroadcastsInv

(* The next nonce of an account is used: by a transaction tx that is mined *)
(* or by one from a wallet.                                                *)
LEMMA NonceUsed ==
  ASSUME BroadcastsInv, NEW u \in Accounts,
         pool' = pool \ At(u, nonce[u]),
         nonce' = [nonce EXCEPT ![u] = @ + 1],
         UNCHANGED <<token, done>>
  PROVE  /\ pool' \subseteq Transactions
         /\ \A tx \in pool' : tx.nonce >= nonce'[Account(tx)]
         /\ nonce' \in [Accounts -> Nat]
         /\ PoolInv'
         /\ Running /\ ~NeverBack(run.step) /\ run.todo # {} /\ run.next >= nonce'[Runner] =>
              Due(run.step) /\ run.next = nonce'[Runner]
<1>1. /\ nonce' \in [Accounts -> Nat] /\ nonce'[u] = nonce[u] + 1 /\ nonce[u] \in Nat
      /\ \A v \in Accounts : v # u => nonce'[v] = nonce[v]
  BY InvFacts
<1>2. pool' \subseteq Transactions
  BY DEF BroadcastsInv, TypeOK
<1>3. \A tx \in pool' : tx \in pool /\ ~(Account(tx) = u /\ tx.nonce = nonce[u])
  BY DEF At
<1>4. \A tx \in pool' : tx.nonce >= nonce'[Account(tx)]
  <2> SUFFICES ASSUME NEW tx \in pool' PROVE tx.nonce >= nonce'[Account(tx)]
    OBVIOUS
  <2>1. tx.nonce \in Nat /\ Account(tx) \in Accounts /\ tx.nonce >= nonce[Account(tx)]
    BY <1>3, InvFacts
  <2> QED BY <1>1, <1>3, <2>1
<1>5. PoolInv'
  <2>1. \A a, b \in pool' : Account(a) = Account(b) /\ a.nonce = b.nonce => a = b
    BY <1>3 DEF BroadcastsInv, PoolInv
  <2>2. ASSUME NEW tx \in pool', ~NeverBack(tx.step)
        PROVE  tx.nonce = nonce'[Account(tx)]
    <3>1. tx.nonce = nonce[Account(tx)] /\ Account(tx) \in Accounts
      BY <1>3, <2>2, InvFacts DEF BroadcastsInv, PoolInv
    <3>2. Account(tx) # u
      BY <1>3, <3>1
    <3> QED BY <1>1, <3>1, <3>2
  <2> QED BY <1>3, <2>1, <2>2 DEF BroadcastsInv, PoolInv, Due
<1>6. ASSUME Running, ~NeverBack(run.step), run.todo # {}, run.next >= nonce'[Runner]
      PROVE  Due(run.step) /\ run.next = nonce'[Runner]
  <2>1. Runner \in Accounts /\ run.next \in Nat
    BY <1>6, InvFacts
  <2>2. run.next >= nonce[Runner]
    BY <1>1, <1>6, <2>1, InvFacts
  <2>3. Due(run.step) /\ run.next = nonce[Runner]
    BY <1>6, <2>2 DEF BroadcastsInv, RunInv
  <2>4. Runner # u
    BY <1>1, <1>6, <2>1, <2>3
  <2> QED BY <1>1, <2>1, <2>3, <2>4
<1> QED BY <1>1, <1>2, <1>4, <1>5, <1>6

LEMMA RegisterKeyInv ==
  ASSUME BroadcastsInv, NEW u \in Accounts, NEW k \in {"own", "other"}, RegisterKey(u, k)
  PROVE  BroadcastsInv'
<1>1. /\ key[u] = None /\ key' = [key EXCEPT ![u] = k]
      /\ nonce' = [nonce EXCEPT ![u] = @ + 1] /\ pool' = pool \ At(u, nonce[u])
      /\ UNCHANGED <<token, image, approved, run, done, faults>>
  BY DEF RegisterKey
<1>2. /\ pool' \subseteq Transactions
      /\ \A tx \in pool' : tx.nonce >= nonce'[Account(tx)]
      /\ nonce' \in [Accounts -> Nat] /\ PoolInv'
      /\ Running /\ ~NeverBack(run.step) /\ run.todo # {} /\ run.next >= nonce'[Runner] =>
           Due(run.step) /\ run.next = nonce'[Runner]
  BY <1>1, NonceUsed
<1>3. key' \in [Accounts -> {None, "own", "other"}]
  BY <1>1 DEF BroadcastsInv, TypeOK
<1>4. TypeOK' /\ CampaignInOrder'
  BY <1>1, <1>2, <1>3 DEF BroadcastsInv, TypeOK, CampaignInOrder
<1>5. MintedInv'
  BY <1>1, KeysAssumption DEF BroadcastsInv, TypeOK, MintedInv
<1>6. RunInv'
  <2>1. Runner' = Runner /\ Running' = Running
    BY <1>1 DEF Runner, Running
  <2>2. \A n \in run.wait : At(Runner, n)' \subseteq At(Runner, n)
    BY <1>1, <2>1 DEF At
  <2> QED BY <1>1, <1>2, <2>1, <2>2 DEF BroadcastsInv, RunInv, Due
<1> QED BY <1>2, <1>4, <1>5, <1>6 DEF BroadcastsInv

(* A transaction tx is mined.  It changes the shadow only if it is the main*)
(* call of the step that is due, and then the step has been taken.         *)
LEMMA MinedInv ==
  ASSUME BroadcastsInv, NEW tx \in pool, NEW ok \in BOOLEAN, Mined(tx, ok),
         \/ token' = token
         \/ Due(tx.step) /\ token' = Pictures[done + 2],
         ok /\ tx.call = Campaign[tx.step].script =>
           Due(tx.step) /\ token' = Pictures[done + 2],
         image' \in BOOLEAN, approved' \in BOOLEAN,
         key' \in [Accounts -> {None, "own", "other"}], faults' \in 0..MaxFaults,
         MintedInv'
  PROVE  BroadcastsInv'
<1> DEFINE u == Account(tx)
<1>1. /\ tx.nonce = nonce[u] /\ pool' = pool \ {tx}
      /\ nonce' = [nonce EXCEPT ![u] = @ + 1] /\ done' = done
      /\ run' = IF Running /\ Runner = u /\ tx.nonce \in run.wait
                THEN [run EXCEPT !.wait = @ \ {tx.nonce}, !.ok = @ /\ ok]
                ELSE run
  BY DEF Mined
<1>2. u \in Accounts /\ tx.step \in Steps /\ tx.nonce \in Nat /\ nonce \in [Accounts -> Nat]
  BY InvFacts
<1>3. At(u, nonce[u]) = {tx}
  BY <1>1 DEF At, BroadcastsInv, PoolInv
<1>4. /\ nonce'[u] = nonce[u] + 1 /\ nonce' \in [Accounts -> Nat]
      /\ \A v \in Accounts : v # u => nonce'[v] = nonce[v]
  BY <1>1, <1>2
<1>5. /\ run'.step = run.step /\ run'.todo = run.todo /\ run'.next = run.next
      /\ run'.wait \subseteq run.wait /\ Runner' = Runner /\ (Running' => Running)
  <2>1. CASE Running /\ Runner = u /\ tx.nonce \in run.wait
    <3>1. run' = [run EXCEPT !.wait = @ \ {tx.nonce}, !.ok = @ /\ ok]
      BY <1>1, <2>1
    <3> QED BY <2>1, <3>1 DEF BroadcastsInv, TypeOK, Runner
  <2>2. CASE ~(Running /\ Runner = u /\ tx.nonce \in run.wait)
    BY <1>1, <2>2 DEF Runner, Running
  <2> QED BY <2>1, <2>2
<1>6. run' \in [step : Steps \cup {0}, todo : SUBSET Calls, next : Nat,
                wait : SUBSET Nat, ok : BOOLEAN]
  <2>1. run.wait \ {tx.nonce} \in SUBSET Nat /\ (run.ok /\ ok) \in BOOLEAN
    BY DEF BroadcastsInv, TypeOK
  <2> QED BY <1>1, <2>1 DEF BroadcastsInv, TypeOK
(* While a step is due there is one transaction of the kind that is not    *)
(* past repeating, tx itself.                                              *)
<1>7. \A other \in pool' :
        other \in pool /\ (~NeverBack(other.step) => token' = token)
  <2> SUFFICES ASSUME NEW other \in pool', ~NeverBack(other.step), token' # token
               PROVE  FALSE
    BY <1>1
  <2>1. other \in pool /\ other # tx
    BY <1>1
  <2>2. other.step = tx.step /\ other.nonce = nonce[Account(other)]
    BY <2>1 DEF BroadcastsInv, PoolInv, Due
  <2>3. Account(other) = u
    BY <2>2 DEF Account
  <2> QED BY <1>1, <2>1, <2>2, <2>3 DEF BroadcastsInv, PoolInv
<1>8. TypeOK' /\ CampaignInOrder'
  <2>1. token' = Pictures[done + 1] \/ (done + 1 \in Steps /\ token' = Pictures[done + 2])
    BY <1>2, InvFacts DEF Due
  <2>2. CampaignInOrder'
    <3>1. /\ done + 1 \in 1..Len(Pictures)
          /\ done + 1 \in Steps => done + 2 \in 1..Len(Pictures)
      BY InvFacts, InRange
    <3> QED BY <1>1, <2>1, <3>1 DEF CampaignInOrder
  <2>3. token' \in Token
    <3>1. done + 1 \in Steps /\ token' = Pictures[done + 2] => token' \in Token
      <4>1. (done + 1) + 1 = done + 2
        BY InvFacts
      <4> QED BY <4>1, StepFacts
    <3>2. token' = token => token' \in Token
      BY DEF BroadcastsInv, TypeOK
    <3> QED BY <1>2, <3>1, <3>2 DEF Due
  <2>4. pool' \subseteq Transactions
    BY <1>1 DEF BroadcastsInv, TypeOK
  <2>5. \A other \in pool' : other.nonce >= nonce'[Account(other)]
    <3> SUFFICES ASSUME NEW other \in pool' PROVE other.nonce >= nonce'[Account(other)]
      OBVIOUS
    <3>1. other \in pool /\ other # tx
      BY <1>1
    <3>2. /\ other.nonce \in Nat /\ Account(other) \in Accounts
          /\ other.nonce >= nonce[Account(other)]
      BY <3>1, InvFacts
    <3>3. Account(other) = u => other.nonce # nonce[u]
      BY <1>1, <3>1 DEF BroadcastsInv, PoolInv
    <3> QED BY <1>2, <1>4, <3>2, <3>3
  <2>6. done' \in 0..Len(Campaign)
    BY <1>1, InvFacts
  <2> QED BY <1>4, <1>6, <2>2, <2>3, <2>4, <2>5, <2>6 DEF TypeOK
<1>9. PoolInv'
  <2>1. \A a, b \in pool' : Account(a) = Account(b) /\ a.nonce = b.nonce => a = b
    BY <1>1 DEF BroadcastsInv, PoolInv
  <2>2. ASSUME NEW other \in pool'
        PROVE  /\ other.step <= done' + 1
               /\ ~NeverBack(other.step) =>
                    /\ other.call = Campaign[other.step].script
                    /\ other.step = done' + 1 /\ token' = Pictures[other.step]
                    /\ other.nonce = nonce'[Account(other)]
    <3>1. other \in pool /\ other.step <= done' + 1
      BY <1>1 DEF BroadcastsInv, PoolInv
    <3>2. ASSUME ~NeverBack(other.step)
          PROVE  /\ other.call = Campaign[other.step].script
                 /\ other.step = done' + 1 /\ token' = Pictures[other.step]
                 /\ other.nonce = nonce'[Account(other)]
      <4>1. /\ other.call = Campaign[other.step].script
            /\ other.step = done' + 1 /\ token' = Pictures[other.step]
            /\ other.nonce = nonce[Account(other)]
        BY <1>1, <1>7, <3>1, <3>2 DEF BroadcastsInv, PoolInv, Due
      <4>2. Account(other) \in Accounts
        BY <3>1, InvFacts
      <4>3. Account(other) # u
        BY <1>1, <3>1, <4>1 DEF BroadcastsInv, PoolInv
      <4> QED BY <1>4, <4>1, <4>2, <4>3
    <3> QED BY <3>1, <3>2
  <2> QED BY <2>1, <2>2 DEF PoolInv, Due
<1>10. RunInv'
  <2> SUFFICES ASSUME Running' PROVE RunInv'
    BY DEF RunInv
  <2>1. Running /\ Runner \in Accounts /\ run.next \in Nat /\ run.step \in Steps
    BY <1>5, InvFacts
  <2>2. \A n \in run'.wait : At(Runner, n)' \subseteq At(Runner, n)
    BY <1>1, <1>5 DEF At
  <2>3. \A n \in run'.wait :
          /\ n < run'.next
          /\ \A other \in At(Runner, n)' :
               /\ other.step = run'.step
               /\ run'.todo = {} /\ n + 1 = run'.next =>
                    other.call = Campaign[run'.step].script
    BY <1>5, <2>1, <2>2 DEF BroadcastsInv, RunInv
  <2>4. ASSUME ~NeverBack(run.step), run.todo # {}, run.next >= nonce'[Runner]
        PROVE  /\ run.step = done + 1 /\ token' = Pictures[run.step]
               /\ run.next = nonce'[Runner]
    <3>1. run.next >= nonce[Runner]
      BY <1>2, <1>4, <2>1, <2>4
    <3>2. Due(run.step) /\ run.next = nonce[Runner]
      BY <2>1, <2>4, <3>1 DEF BroadcastsInv, RunInv
    <3>3. Runner # u
      BY <1>2, <1>4, <2>1, <2>4, <3>2
    <3>4. ~Due(tx.step)
      BY <3>2, <3>3 DEF Due, Account, Runner
    <3> QED BY <1>4, <2>1, <3>2, <3>3, <3>4 DEF Due
  <2>5. ASSUME run.todo = {}, run'.ok, run.step = done + 1, token' # Pictures[done + 2]
        PROVE  \E n \in run'.wait : n + 1 = run.next
    <3>1. token' = token
      BY <2>5
    <3>2. CASE Runner = u /\ tx.nonce \in run.wait
      <4>1. run' = [run EXCEPT !.wait = @ \ {tx.nonce}, !.ok = @ /\ ok]
        BY <1>1, <2>1, <3>2
      <4>2. run'.ok = (run.ok /\ ok) /\ run'.wait = run.wait \ {tx.nonce}
        BY <4>1 DEF BroadcastsInv, TypeOK
      <4>3. PICK n \in run.wait : n + 1 = run.next
        BY <2>1, <2>5, <3>1, <4>2 DEF BroadcastsInv, RunInv
      <4>4. n # tx.nonce
        <5> SUFFICES ASSUME n = tx.nonce PROVE FALSE
          OBVIOUS
        <5>1. tx \in At(Runner, n)
          BY <3>2 DEF At
        <5>2. tx.step = run.step /\ tx.call = Campaign[run.step].script
          BY <2>1, <2>5, <4>3, <5>1 DEF BroadcastsInv, RunInv
        <5> QED BY <2>5, <4>2, <5>2
      <4> QED BY <4>2, <4>3, <4>4
    <3>3. CASE ~(Runner = u /\ tx.nonce \in run.wait)
      <4>1. run' = run
        BY <1>1, <3>3
      <4> QED BY <2>1, <2>5, <3>1, <4>1 DEF BroadcastsInv, RunInv
    <3> QED BY <3>2, <3>3
  <2>6. /\ run'.step \in Steps /\ run'.step <= done' + 1
        /\ run'.todo \subseteq CallsOf(run'.step)
        /\ run'.todo # {} => Campaign[run'.step].script \in run'.todo
        /\ ~NeverBack(run'.step) => run'.step = done' + 1
    BY <1>1, <1>5, <2>1 DEF BroadcastsInv, RunInv
  <2> QED BY <1>1, <1>5, <2>3, <2>4, <2>5, <2>6 DEF RunInv, Due
<1> QED BY <1>8, <1>9, <1>10 DEF BroadcastsInv

(* A mint is sent after its image and its key are registered, and no other *)
(* call gives an unminted shadow an owner.                                 *)
LEMMA LandsMinted ==
  ASSUME BroadcastsInv, NEW tx \in pool, Lands(tx)
  PROVE  MintedInv'
<1> DEFINE f == Campaign[tx.step]
<1>1. /\ tx.step \in Steps /\ f \in Fixture /\ f.by \in Accounts
      /\ f.script = "mint" <=> tx.step = 1
  BY InvFacts, StepFacts
<1>2. /\ Possible(tx.call, f) /\ Perform(tx.call, f)
  BY DEF Lands
<1>3. /\ image => image'
      /\ \A v \in Accounts : key[v] = "own" => key'[v] = "own"
  BY <1>1, <1>2 DEF Perform, BroadcastsInv, TypeOK
<1>4. 1 \in Steps /\ Campaign[1].by \in Accounts
  <2>1. 1 \in Steps
    BY CampaignAssumption DEF Steps
  <2> QED BY <2>1, StepFacts
<1>5. CASE token.owner # None
  BY <1>3, <1>4, <1>5 DEF BroadcastsInv, MintedInv
<1>6. CASE token.owner = None
  <2>1. CASE tx.call # f.script
    BY <1>2, <1>6, <2>1 DEF Perform, MintedInv
  <2>2. CASE tx.call = f.script
    <3>1. Accepts(token, f) /\ token' = After(token, f)
      BY <1>2, <2>2, LandsWhenDue DEF Perform
    <3>2. f.by # None
      BY <1>1, NamesAssumption
    <3>3. CASE f.script = "mint"
      <4>1. image /\ key[f.by] = "own"
        BY <1>2, <2>2, <3>3 DEF Possible
      <4> QED BY <1>1, <1>3, <3>3, <4>1 DEF MintedInv
    <3>4. CASE f.script = "transferFeature"
      <4>1. token' = FeatureSold(token, f)
        BY <3>1, <3>4, AfterIs
      <4>2. token'.owner = token.owner
        BY <4>1 DEF FeatureSold, BroadcastsInv, TypeOK, Token
      <4> QED BY <1>6, <4>2 DEF MintedInv
    <3>5. CASE f.script \notin {"mint", "transferFeature"}
      BY <1>6, <3>1, <3>2, <3>5
      DEF Accepts, MayMutate, MayExtract, MayInsert, MaySetZIndex, MayTransfer, MaySolve,
          MayBridge, Owns
    <3> QED BY <3>3, <3>4, <3>5
  <2> QED BY <2>1, <2>2
<1> QED BY <1>5, <1>6

LEMMA LandsInv ==
  ASSUME BroadcastsInv, NEW tx \in pool, Lands(tx)
  PROVE  BroadcastsInv'
<1> DEFINE f == Campaign[tx.step]
<1>1. /\ Mined(tx, TRUE) /\ Possible(tx.call, f) /\ Perform(tx.call, f) /\ faults' = faults
  BY DEF Lands
<1>2. ASSUME tx.call = f.script PROVE Due(tx.step) /\ token' = Pictures[done + 2]
  <2>1. tx.step \in Steps /\ Due(tx.step)
    BY <1>1, <1>2, LandsWhenDue
  <2>2. token' = After(Pictures[tx.step], f)
    BY <1>1, <1>2, <2>1 DEF Perform, Due
  <2>3. tx.step + 1 = done + 2
    BY <2>1, InvFacts DEF Due
  <2> QED BY <2>1, <2>2, <2>3, StepFacts
<1>3. tx.call # f.script => token' = token
  BY <1>1 DEF Perform
<1>4. /\ image' \in BOOLEAN /\ approved' \in BOOLEAN
      /\ key' \in [Accounts -> {None, "own", "other"}] /\ faults' \in 0..MaxFaults
  <2>1. f.by \in Accounts
    BY InvFacts, StepFacts
  <2>2. approved' \in BOOLEAN
    BY <1>1 DEF Perform
  <2> QED BY <1>1, <2>1, <2>2 DEF Perform, BroadcastsInv, TypeOK
<1>5. MintedInv'
  BY LandsMinted
<1> QED BY <1>1, <1>2, <1>3, <1>4, <1>5, MinedInv

(* A transaction that fails changes nothing but its account's nonce.       *)
LEMMA FailsInv ==
  ASSUME BroadcastsInv, NEW tx \in pool, Reverts(tx) \/ OutOfGas(tx)
  PROVE  BroadcastsInv'
<1>1. /\ Mined(tx, FALSE) /\ UNCHANGED <<token, image, key, approved>>
      /\ faults' \in 0..MaxFaults
  <2>1. faults \in 0..MaxFaults
    BY DEF BroadcastsInv, TypeOK
  <2>2. CASE Reverts(tx)
    BY <2>1, <2>2 DEF Reverts, chain
  <2>3. CASE OutOfGas(tx)
    <3>1. Mined(tx, FALSE) /\ UNCHANGED <<token, image, key, approved>>
      BY <2>3 DEF OutOfGas, chain
    <3>2. faults < MaxFaults /\ faults' = faults + 1
      BY <2>3 DEF OutOfGas, Fault
    <3>3. faults' \in 0..MaxFaults
      BY <2>1, <3>2, FaultsAssumption
    <3> QED BY <3>1, <3>3
  <2> QED BY <2>2, <2>3
<1>2. MintedInv'
  BY <1>1 DEF BroadcastsInv, MintedInv
<1>3. /\ image' \in BOOLEAN /\ approved' \in BOOLEAN
      /\ key' \in [Accounts -> {None, "own", "other"}]
  BY <1>1 DEF BroadcastsInv, TypeOK
<1> QED BY <1>1, <1>2, <1>3, MinedInv

LEMMA NextInv ==
  ASSUME AgainIsPast, BroadcastsInv, [Next]_vars
  PROVE  BroadcastsInv'
<1>1. CASE Operate
  <2>1. CASE Send
    BY <2>1, SendInv
  <2>2. CASE Finish
    BY <2>2, FinishInv
  <2>3. CASE Fail
    BY <2>3, AccidentInv
  <2>4. CASE \E i \in Steps : Skip(i) \/ Simulate(i)
    BY <2>4, SkipInv, SimulateInv
  <2> QED BY <1>1, <2>1, <2>2, <2>3, <2>4 DEF Operate
<1>2. CASE Mine
  BY <1>2, LandsInv, FailsInv DEF Mine
<1>3. CASE Accidents
  BY <1>3, FailsInv, AccidentInv DEF Accidents
<1>4. CASE Others
  BY <1>4, RegisterImageInv, RegisterKeyInv DEF Others
<1>5. CASE UNCHANGED vars
  BY <1>5 DEF vars, chain, BroadcastsInv, TypeOK, CampaignInOrder, MintedInv, PoolInv,
              RunInv, Due, At, Running, Runner
<1> QED BY <1>1, <1>2, <1>3, <1>4, <1>5 DEF Next

(* The invariant the three below rest on: a transaction of a step that the *)
(* contracts would take again is in the pool only while its step is due.   *)
THEOREM BroadcastsInductive == ASSUME AgainIsPast PROVE Spec => []BroadcastsInv
<1>1. Init => BroadcastsInv
  BY InitInv
<1>2. BroadcastsInv /\ [Next]_vars => BroadcastsInv'
  BY NextInv
<1> QED BY <1>1, <1>2, PTL DEF Spec

(* Every transaction in the pool is one its account can still send.        *)
THEOREM PoolIsTyped == ASSUME AgainIsPast PROVE Spec => []TypeOK
<1>1. BroadcastsInv => TypeOK
  BY DEF BroadcastsInv
<1> QED BY <1>1, BroadcastsInductive, PTL

(* Whatever is killed, dropped or run again, in any campaign, the shadow is*)
(* where the steps done lead or one step further.                          *)
THEOREM StepsInOrder == ASSUME AgainIsPast PROVE Spec => []CampaignInOrder
<1>1. BroadcastsInv => CampaignInOrder
  BY DEF BroadcastsInv
<1> QED BY <1>1, BroadcastsInductive, PTL

LEMMA DueSimulates ==
  ASSUME BroadcastsInv, NEW i \in Steps, Due(i), key[Campaign[i].by] # "other",
         Campaign[i].to # None => key[Campaign[i].to] = "own"
  PROVE  Simulates(Campaign[i])
<1> DEFINE f == Campaign[i]
<1>1. f \in Fixture /\ Accepts(token, f) /\ Changes(token, f)
  BY StepFacts DEF Due
<1>2. key[f.by] \in {None, "own"}
  BY StepFacts DEF BroadcastsInv, TypeOK
<1>3. Requires(f)
  <2>1. f.script = "mutate" => f.slots \subseteq Occupied(token)
    BY <1>1 DEF Accepts, MayMutate
  <2>2. f.script \in {"insert", "transferFeature"} =>
          token.feature[f.held].checkpoint = f.checkpoint
    BY <1>1 DEF Accepts, MayInsert, MaySellFeature
  <2>3. f.script = "transfer" => key[f.to] # None
    BY <1>1, NamesAssumption, KeysAssumption DEF Changes
  <2>4. f.script = "bridge" => token.solved
    BY <1>1 DEF Accepts, MayBridge
  <2> QED BY <1>2, <2>1, <2>2, <2>3, <2>4 DEF Requires
<1>4. f.script = "bridge" => token.owner = f.by
  BY <1>1 DEF Accepts, MayBridge
<1>5. ASSUME NEW call \in Plan(f), call # f.script PROVE Possible(call, f)
  BY <1>4, <1>5 DEF Plan, MintPlan, BridgePlan, Possible
<1> QED BY <1>1, <1>3, <1>5 DEF Simulates

LEMMA TakenSkips ==
  ASSUME BroadcastsInv, NEW i \in Steps, token = Pictures[i + 1]
  PROVE  Skips(Campaign[i]) \/ (Campaign[i].script = "bridge" /\ token.owner = Bridge)
<1> DEFINE f == Campaign[i]
           t == Pictures[i]
<1>1. /\ f \in Fixture /\ f.by \in Accounts /\ t \in Token /\ token = After(t, f)
      /\ f.script = "mint" <=> i = 1
  BY StepFacts
<1> HIDE DEF t
<1>2. CASE f.script = "mint"
  <2>1. token = Minted(t, f)
    BY <1>1, <1>2, AfterIs
  <2>2. token.owner = f.by
    BY <1>1, <2>1 DEF Minted, Token
  <2>3. token.owner # None
    BY <1>1, <2>2, NamesAssumption
  <2> QED BY <1>1, <1>2, <2>3 DEF BroadcastsInv, MintedInv, Skips
<1>3. CASE f.script = "bridge"
  <2>1. token = Bridged(t, f)
    BY <1>1, <1>3, AfterIs
  <2> QED BY <1>1, <1>3, <2>1 DEF Bridged, Token
<1>4. CASE f.script \notin {"mint", "bridge"}
  BY <1>4, SkippedAfterwards
<1> QED BY <1>2, <1>3, <1>4

(* At any moment the next step's script skips or goes through, whatever was*)
(* left half done before, if the keys are those its fixture names.         *)
THEOREM ScriptsCanBeRunAgain == ASSUME AgainIsPast PROVE Spec => []RerunGoesThrough
<1>1. ASSUME BroadcastsInv PROVE RerunGoesThrough
  <2> SUFFICES ASSUME done < Len(Campaign),
                      key[Campaign[done + 1].by] # "other",
                      Campaign[done + 1].to # None => key[Campaign[done + 1].to] = "own"
               PROVE  LET f == Campaign[done + 1]
                      IN \/ f.script = "bridge" /\ token.owner = Bridge
                         \/ Skips(f) \/ Simulates(f)
    BY DEF RerunGoesThrough
  <2>1. done + 1 \in Steps
    BY <1>1, InvFacts, CampaignAssumption DEF Steps
  <2>2. CASE token = Pictures[done + 1]
    BY <1>1, <2>1, <2>2, DueSimulates DEF Due
  <2>3. CASE token = Pictures[done + 2]
    <3>1. (done + 1) + 1 = done + 2
      BY <1>1, InvFacts
    <3> QED BY <1>1, <2>1, <2>3, <3>1, TakenSkips
  <2> QED BY <1>1, <2>2, <2>3, InvFacts
<1> QED BY <1>1, BroadcastsInductive, PTL

================================================================================
