-------------------------------- MODULE Readers --------------------------------
(***************************************************************************)
(* The tools that only read a chain: render_onchain_shadow.py,             *)
(* verify_onchain_mint.py and verify_onchain_transfer.py.  Each answers a  *)
(* question about one shadow with many calls, every one of them against    *)
(* the head of its own moment, while the owner goes on changing the shadow.*)
(***************************************************************************)
EXTENDS Naturals, FiniteSets, Sequences

CONSTANTS
  Slots,      \* the slots of the shadow, from 1
  MintSlots,  \* those that its mint fills, each with the carrier of its name
  Foreign,    \* carriers of other shadows that may be inserted later
  Tools,      \* the tools that may be started
  MaxChanges  \* model bound: transactions after the mint

Empty == 0
Carriers == MintSlots \cup Foreign
ASSUME SlotsAssumption ==
  IsFiniteSet(Slots) /\ Slots = 1..Cardinality(Slots) /\ MintSlots \subseteq Slots
ASSUME MintAssumption == MintSlots # {} /\ MintSlots = 1..Cardinality(MintSlots)
ASSUME ForeignAssumption == Foreign \subseteq Nat \ (Slots \cup {Empty})
ASSUME ToolsAssumption == Tools \subseteq {"render", "mint", "transfer"}
ASSUME ChangesAssumption == MaxChanges \in Nat

Minter == 1
Recipient == 2

VARIABLES
  chain,    \* what the views of the contracts return now
  log,      \* the events, oldest first: <<kind, slot, carrier, number>>
  changes,  \* transactions since the mint
  drawing,  \* of each carrier: the number of its plaintext
  sent,     \* live states the first transfer to Recipient left, <<>> before
  solution, \* history: what the solve revealed, plaintext and palette by slot
  tool, pc, \* the one tool that reads, and where it is
  atStart,  \* history: the chain when it started
  got,      \* what it read so far
  failed    \* whether its report has a failure

chainVars == <<chain, log, changes, drawing, sent, solution>>
vars == <<chainVars, tool, pc, atStart, got, failed>>

(* Live states, ciphertexts and plaintexts are numbers that are never used *)
(* twice: the number of the event that carried them first.                 *)
Stamp == Len(log) + 1

MintedLsh == [s \in Slots |-> IF s \in MintSlots THEN s ELSE Empty]

Occupied == {s \in Slots : chain.held[s] # Empty}

(* The slots of a transaction, in the order of their events.               *)
Place(S, s) == Cardinality({t \in S : t <= s})
InOrder(S) == [i \in 1..Cardinality(S) |-> CHOOSE s \in S : Place(S, s) = i]
SlotMutated(s, c, n) == <<"mutated", s, c, n>>

Nothing == [c2 |-> <<>>, c1 |-> <<>>, palettes |-> {}, revealed |-> <<>>,
            shown |-> <<>>, slots |-> {}]

(***************************************************************************)
(* The chain: the shadow just minted, and what may happen to it.           *)
(***************************************************************************)
ChainInit ==
  /\ chain = [held |-> MintedLsh, lsh |-> MintedLsh, t10 |-> 0, owner |-> Minter,
              pk |-> Minter, solved |-> FALSE, zindex |-> FALSE, mints |-> 1]
  /\ log = [i \in DOMAIN InOrder(MintSlots) |->
              SlotMutated(InOrder(MintSlots)[i], InOrder(MintSlots)[i],
                          InOrder(MintSlots)[i])]
  /\ changes = 0
  /\ drawing = [c \in Carriers |-> c]
  /\ sent = <<>>
  /\ solution = <<>>

Transaction ==
  /\ changes < MaxChanges
  /\ changes' = changes + 1
  /\ UNCHANGED <<tool, pc, atStart, got, failed>>

(* The thumbnail is 100 coarse cells: a change may leave it as it was.     *)
Thumbnail == 0..1

MutateSlot ==
  /\ Transaction /\ ~chain.solved
  /\ \E s \in Occupied, t \in Thumbnail :
       /\ chain' = [chain EXCEPT !.lsh[s] = Stamp, !.t10 = t]
       /\ log' = Append(log, SlotMutated(s, chain.held[s], Stamp))
       /\ drawing' = [drawing EXCEPT ![chain.held[s]] = Stamp]
  /\ UNCHANGED <<sent, solution>>

ExtractSlot ==
  /\ Transaction /\ ~chain.solved
  /\ \E s \in Occupied, t \in Thumbnail :
       chain' = [chain EXCEPT !.held[s] = Empty, !.lsh[s] = Empty, !.t10 = t]
  /\ UNCHANGED <<log, drawing, sent, solution>>

InsertFeature ==
  /\ Transaction /\ ~chain.solved
  /\ \E s \in Slots \ Occupied, c \in Carriers \ {chain.held[o] : o \in Occupied},
        t \in Thumbnail :
       /\ chain' = [chain EXCEPT !.held[s] = c, !.lsh[s] = Stamp, !.t10 = t]
       /\ log' = Append(log, SlotMutated(s, c, Stamp))
  /\ UNCHANGED <<drawing, sent, solution>>

TransferShadow ==
  /\ Transaction /\ ~chain.solved
  /\ \E p \in {Minter, Recipient} \ {chain.owner}, t \in Thumbnail :
       LET order == InOrder(Occupied)
           lsh == [s \in Slots |-> IF s \in Occupied THEN Len(log) + Place(Occupied, s)
                                   ELSE Empty]
       IN /\ chain' = [chain EXCEPT !.owner = p, !.pk = p, !.lsh = lsh, !.t10 = t]
          /\ log' = log \o [i \in DOMAIN order |->
                              SlotMutated(order[i], chain.held[order[i]], lsh[order[i]])]
          /\ sent' = IF sent = <<>> /\ p = Recipient THEN lsh ELSE sent
  /\ UNCHANGED <<drawing, solution>>

IsRevealed(c) == \E i \in DOMAIN log : log[i][1] = "palette" /\ log[i][3] = c

(* A carrier's palette is revealed once: a second solve with it reverts.   *)
Solve ==
  /\ Transaction /\ ~chain.solved
  /\ \A s \in Occupied : ~IsRevealed(chain.held[s])
  /\ log' = log \o [i \in 1..(2 * Cardinality(Occupied)) |->
                       LET s == InOrder(Occupied)[(i + 1) \div 2]
                           c == chain.held[s]
                       IN IF i % 2 = 1 THEN <<"palette", s, c, 0>>
                          ELSE <<"revealed", s, c, drawing[c]>>]
  /\ solution' = [s \in Occupied |-> <<drawing[chain.held[s]], chain.held[s]>>]
  /\ chain' = [chain EXCEPT !.solved = TRUE, !.held = [s \in Slots |-> Empty],
                            !.lsh = [s \in Slots |-> Empty]]
  /\ UNCHANGED <<drawing, sent>>

CommitZIndex ==
  /\ Transaction /\ ~chain.solved
  /\ \E t \in Thumbnail : chain' = [chain EXCEPT !.zindex = TRUE, !.t10 = t]
  /\ UNCHANGED <<log, drawing, sent, solution>>

MintAnother ==
  /\ Transaction
  /\ chain' = [chain EXCEPT !.mints = @ + 1]
  /\ UNCHANGED <<log, drawing, sent, solution>>

(* Another shadow, which holds an extracted carrier, is solved.            *)
SolveAnother ==
  /\ Transaction
  /\ \E c \in Carriers \ {chain.held[s] : s \in Occupied} :
       /\ ~IsRevealed(c)
       /\ log' = Append(log, <<"palette", 0, c, 0>>)
  /\ UNCHANGED <<chain, drawing, sent, solution>>

Changes ==
  \/ MutateSlot \/ ExtractSlot \/ InsertFeature \/ TransferShadow \/ Solve
  \/ CommitZIndex \/ MintAnother \/ SolveAnother

(***************************************************************************)
(* Every tool is one process that starts once and reads until it exits.    *)
(***************************************************************************)
Go(from, to) == pc = from /\ pc' = to /\ UNCHANGED <<chainVars, tool, atStart>>

Start(t, first) ==
  /\ pc = "idle"
  /\ t \in Tools
  /\ tool' = t
  /\ pc' = first
  /\ atStart' = chain
  /\ UNCHANGED <<chainVars, got, failed>>

(* An RPC that stays unreachable ends a tool with an exception.            *)
GiveUp ==
  /\ pc \notin {"idle", "crashed", "gave up", "passed", "exit 1", "rendered"}
  /\ pc' = "gave up"
  /\ UNCHANGED <<chainVars, tool, atStart, got, failed>>

(***************************************************************************)
(* render_onchain_shadow.py                                                *)
(***************************************************************************)

(* The latest of the events in a log for each key, as a function.          *)
(* Faulty variant: the earliest one is kept.                               *)
Latest_First(kind, events) ==
  LET at(s) == {i \in DOMAIN events : events[i][1] = kind /\ events[i][2] = s}
  IN [s \in {t \in Slots : at(t) # {}} |->
        events[CHOOSE i \in at(s) : \A j \in at(s) : i <= j]]

Latest(kind, events) ==
  LET at(s) == {i \in DOMAIN events : events[i][1] = kind /\ events[i][2] = s}
  IN [s \in {t \in Slots : at(t) # {}} |->
        events[CHOOSE i \in at(s) : \A j \in at(s) : j <= i]]

FetchLatestC2PerSlot ==
  /\ Go("c2", "sidecar")
  /\ got' = [got EXCEPT !.c2 = Latest("mutated", log)]
  /\ UNCHANGED failed

(* The owner's own files: none, those of the mint, or up to date.          *)
LoadC1Sidecar ==
  /\ Go("sidecar", "palettes")
  /\ \E c1 \in {<<>>, [s \in MintSlots |-> s], [s \in Occupied |-> chain.lsh[s]]} :
       got' = [got EXCEPT !.c1 = c1]
  /\ UNCHANGED failed

(* Run with --fn, without which it asks for no reveals, and from block 0.  *)
FetchRevealedPalettes ==
  /\ Go("palettes", "revealed")
  /\ got' = [got EXCEPT !.palettes = {c \in Carriers : IsRevealed(c)}]
  /\ UNCHANGED failed

FetchRevealedSlots ==
  /\ Go("revealed", "decode")
  /\ got' = [got EXCEPT !.revealed = Latest("revealed", log)]
  /\ UNCHANGED failed

Default == 0
Garbage == 0

(* The palette by the carrier of the slot's latest mutation event.         *)
Palette(s) ==
  IF s \in DOMAIN got.c2 /\ got.c2[s][3] \in got.palettes THEN got.c2[s][3] ELSE Default

(* The keystream comes from poseidon2_hash_2(shared), where the ciphertext *)
(* was made with kdf(KDF_ROLE_PLAINTEXT, shared): whatever c1 and sk are,  *)
(* the result is noise, which the decoder takes for a sprite or refuses.   *)
DecryptC2(s) == Garbage

Decode ==
  /\ Go("decode", "rendered")
  /\ \E noise \in SUBSET ((DOMAIN got.c2 \cap DOMAIN got.c1) \ DOMAIN got.revealed) :
       got' = [got EXCEPT !.shown = [s \in DOMAIN got.revealed \cup noise |->
                 <<IF s \in DOMAIN got.revealed THEN got.revealed[s][4] ELSE DecryptC2(s),
                   Palette(s)>>]]
  /\ UNCHANGED failed

(* --seed: the drawings of the mint, whatever happened since.              *)
RenderSeed ==
  /\ Go("c2", "rendered")
  /\ got' = [got EXCEPT !.shown = [s \in MintSlots |-> <<s, Default>>]]
  /\ UNCHANGED failed

Render ==
  \/ Start("render", "c2")
  \/ FetchLatestC2PerSlot \/ LoadC1Sidecar \/ FetchRevealedPalettes
  \/ FetchRevealedSlots \/ Decode \/ RenderSeed

(***************************************************************************)
(* verify_onchain_mint.py: a failed check is reported, and the next one    *)
(* made.  The receipt of the mint is what it was when it was mined; each   *)
(* view is read at a moment of its own.                                    *)
(***************************************************************************)
Check(ok) == failed' = (failed \/ ~ok)

(* Addresses and a registered key that never change: the check fails when  *)
(* the arguments name another deployment.                                  *)
CheckWiring ==
  /\ Go("wiring", "receipt")
  /\ \E ok \in BOOLEAN : Check(ok)
  /\ UNCHANGED got

(* The transaction given: the mint, one that is not mined or reverted, or  *)
(* any other, whose receipt has no ShadowMinted.                           *)
ReadReceipt ==
  \/ Go("receipt", "t10") /\ UNCHANGED <<got, failed>>
  \/ Go("receipt", "exit 1") /\ Check(FALSE) /\ UNCHANGED got
  \/ Go("receipt", "payload") /\ Check(FALSE) /\ UNCHANGED got

(* minted_logs[0] of an empty list.                                        *)
CheckMintedEvent == Go("payload", "crashed") /\ UNCHANGED <<got, failed>>

(* shadowT10, its upper half and then its lower.                           *)
CheckT10 ==
  \/ Go("t10", "t10 lo") /\ Check(chain.t10 = 0) /\ UNCHANGED got
  \/ Go("t10 lo", "slots") /\ Check(chain.t10 = 0) /\ UNCHANGED got

(* The event's own fields, and with them the ciphertext and its plaintext, *)
(* are the fixture's; the manifest entry and the carrier are read now.     *)
(* Faulty variant: the live state is not compared.                         *)
EntryIsAsMinted_NoLsh(s) == chain.held[s] # Empty

EntryIsAsMinted(s) == chain.held[s] # Empty /\ chain.lsh[s] = MintedLsh[s]

CheckSlot ==
  /\ MintSlots \ got.slots # {}
  /\ LET s == InOrder(MintSlots \ got.slots)[1]
     IN /\ Go("slots", IF EntryIsAsMinted(s) THEN "carrier owner" ELSE "slots")
        /\ Check(EntryIsAsMinted(s))
        /\ got' = [got EXCEPT !.slots = @ \cup {s}]

(* Views of the carrier that the entry of the last slot named.  Whose a    *)
(* carrier is that has left the shadow since is left open.                 *)
LastRead == Cardinality(got.slots)
InShadow(c) == \E s \in Slots : chain.held[s] = c

ReadCarrier(from, to, ok) ==
  Go(from, IF ok THEN to ELSE "slots") /\ Check(ok) /\ UNCHANGED got

CheckCarrier ==
  \/ \E ok \in BOOLEAN :
       /\ ReadCarrier("carrier owner", "host shadow", ok)
       /\ InShadow(LastRead) => ok = (chain.owner = Minter)
  \/ ReadCarrier("host shadow", "host slot", InShadow(LastRead))
  \/ ReadCarrier("host slot", "slots", chain.held[LastRead] = LastRead)

CheckEmptySlot ==
  /\ Go("slots", "slots")
  /\ MintSlots \subseteq got.slots /\ Slots # got.slots
  /\ LET s == InOrder(Slots \ got.slots)[1]
     IN Check(chain.held[s] = Empty /\ chain.lsh[s] = Empty)
        /\ got' = [got EXCEPT !.slots = @ \cup {s}]

(* mintCounter, ownerOf and shadowOf; registeredImages and mintedOrigins   *)
(* stay set.                                                               *)
CheckAggregate ==
  /\ UNCHANGED got
  /\ \/ got.slots = Slots /\ Go("slots", "token owner") /\ Check(chain.mints = 1)
     \/ Go("token owner", "record") /\ Check(chain.owner = Minter)
     \/ /\ Go("record", "summary")
        /\ Check(chain.pk = Minter /\ ~chain.solved /\ ~chain.zindex)

Summary ==
  /\ Go("summary", IF failed THEN "exit 1" ELSE "passed")
  /\ UNCHANGED <<got, failed>>

VerifyMint ==
  \/ Start("mint", "wiring")
  \/ CheckWiring \/ ReadReceipt \/ CheckMintedEvent \/ CheckT10
  \/ CheckSlot \/ CheckCarrier \/ CheckEmptySlot \/ CheckAggregate \/ Summary

(***************************************************************************)
(* verify_onchain_transfer.py: an assertion that fails ends it.  It is run *)
(* with the fixture of a transfer that was broadcast.                      *)
(***************************************************************************)
Require(ok, from, to) == Go(from, IF ok THEN to ELSE "exit 1") /\ UNCHANGED failed

CheckOwner == Require(chain.owner = Recipient, "owner", "ecdhPub") /\ UNCHANGED got
CheckEcdhPub == Require(chain.pk = Recipient, "ecdhPub", "lsh") /\ UNCHANGED got

(* Faulty variant: the last slot is left out.                              *)
SlotsToCheck_NotLast == Slots \ {Cardinality(Slots)}

SlotsToCheck == Slots

CheckLsh ==
  /\ SlotsToCheck \ got.slots # {}
  /\ LET s == InOrder(SlotsToCheck \ got.slots)[1]
     IN /\ Require(sent # <<>> /\ chain.lsh[s] = sent[s], "lsh", "lsh")
        /\ got' = [got EXCEPT !.slots = @ \cup {s}]

(* Decrypts the fixture's own ciphertexts: no further read.                *)
CheckDecrypt ==
  /\ SlotsToCheck \subseteq got.slots
  /\ Require(TRUE, "lsh", "passed") /\ UNCHANGED got

VerifyTransfer ==
  \/ sent # <<>> /\ Start("transfer", "owner")
  \/ CheckOwner \/ CheckEcdhPub \/ CheckLsh \/ CheckDecrypt

----------------------------------------------------------------------------
Init ==
  /\ ChainInit
  /\ tool = "none" /\ pc = "idle"
  /\ atStart = chain
  /\ got = Nothing
  /\ failed = FALSE

Next == Changes \/ Render \/ VerifyMint \/ VerifyTransfer \/ GiveUp
Spec == Init /\ [][Next]_vars
--------------------------------------------------------------------------------
FilledAsMinted(c) ==
  /\ \A s \in MintSlots : c.held[s] = s /\ c.lsh[s] = s
  /\ c.owner = Minter /\ c.pk = Minter /\ c.mints = 1 /\ ~c.solved /\ ~c.zindex

(* Whatever the owner does while verify_onchain_mint.py reads, and however *)
(* its reads are spread over those changes: when it passes, every slot the *)
(* mint filled, and the shadow itself, were as the mint left them at the   *)
(* moment the verification began.  (A slot the mint left empty may have    *)
(* held a feature then, and be empty again when its turn comes.)           *)
PassedMintWasIntact == tool = "mint" /\ pc = "passed" => FilledAsMinted(atStart)

(* When verify_onchain_transfer.py passes, every slot the transfer sealed  *)
(* for the recipient was, at the moment it began, exactly as the transfer  *)
(* left it, although the sixteen reads are spread over later changes.      *)
PassedTransferWasIntact ==
  tool = "transfer" /\ pc = "passed" =>
    \A s \in Slots : sent[s] # Empty => atStart.lsh[s] = sent[s]

(* render_onchain_shadow.py, started after the solve and without c1 files, *)
(* shows every revealed slot with the plaintext and the palette of the     *)
(* carrier the solve found there, and no other slot, whichever carriers    *)
(* passed through the slots before (render_onchain_shadow.py:486-487).     *)
SolvedRenderIsExact ==
  pc = "rendered" /\ atStart.solved /\ got.c2 # <<>> /\ got.c1 = <<>> =>
    got.shown = solution
=============================================================================
