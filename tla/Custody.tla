-------------------------------- MODULE Custody --------------------------------
(***************************************************************************)
(* What the pipeline promises about possession, without keys, hashes or    *)
(* proofs: a shadow is unminted, open or solved; a carrier is unborn, held,*)
(* or in one slot of an open shadow; things in one shadow change hands     *)
(* together.  ShadowToken implements this specification with two contracts *)
(* that each keep their own half of the books.                             *)
(***************************************************************************)
EXTENDS Naturals

CONSTANTS
  Users, Shadows, Slots,
  Carriers,  \* a carrier is named by the shadow and the slot it is born into
  Nobody     \* the owner of what does not exist yet

ASSUME CarriersAssumption == Carriers \subseteq Shadows \X Slots
ASSUME NobodyAssumption == Nobody \notin Users

VARIABLES
  phase,         \* of each shadow
  shadowHolder,
  carrierHolder,
  place          \* of each carrier

vars == <<phase, shadowHolder, carrierHolder, place>>

Elsewhere == {<<"unborn">>, <<"held">>}

TypeOK ==
  /\ phase \in [Shadows -> {"unminted", "open", "solved"}]
  /\ shadowHolder \in [Shadows -> Users \cup {Nobody}]
  /\ carrierHolder \in [Carriers -> Users \cup {Nobody}]
  /\ place \in [Carriers -> (Shadows \X Slots) \cup Elsewhere]

Init ==
  /\ phase = [s \in Shadows |-> "unminted"]
  /\ shadowHolder = [s \in Shadows |-> Nobody]
  /\ carrierHolder = [c \in Carriers |-> Nobody]
  /\ place = [c \in Carriers |-> <<"unborn">>]

(* The carriers in the slots of s.                                         *)
Inside(s) == {c \in Carriers : \E i \in Slots : place[c] = <<s, i>>}

Mint(u, s) ==
  LET born == {c \in Carriers : c[1] = s} IN
  /\ phase[s] = "unminted"
  /\ phase' = [phase EXCEPT ![s] = "open"]
  /\ shadowHolder' = [shadowHolder EXCEPT ![s] = u]
  /\ carrierHolder' =
       [c \in Carriers |-> IF c \in born THEN u ELSE carrierHolder[c]]
  /\ place' = [c \in Carriers |-> IF c \in born THEN c ELSE place[c]]

Extract(c, s) ==
  /\ phase[s] = "open"
  /\ c \in Inside(s)
  /\ place' = [place EXCEPT ![c] = <<"held">>]
  /\ UNCHANGED <<phase, shadowHolder, carrierHolder>>

(* Faulty variant: the slot is not looked at.                              *)
Insert_AnySlot(c, s, i) ==
  /\ phase[s] = "open"
  /\ place[c] = <<"held">>
  /\ carrierHolder[c] = shadowHolder[s]
  /\ place' = [place EXCEPT ![c] = <<s, i>>]
  /\ UNCHANGED <<phase, shadowHolder, carrierHolder>>

Insert(c, s, i) ==
  /\ phase[s] = "open"
  /\ place[c] = <<"held">>
  /\ carrierHolder[c] = shadowHolder[s]
  /\ \A d \in Carriers : place[d] # <<s, i>>
  /\ place' = [place EXCEPT ![c] = <<s, i>>]
  /\ UNCHANGED <<phase, shadowHolder, carrierHolder>>

(* Faulty variant: what is in the shadow stays its old owner's.            *)
HandOver_Alone(s, to) ==
  /\ phase[s] = "open"
  /\ shadowHolder' = [shadowHolder EXCEPT ![s] = to]
  /\ UNCHANGED <<phase, carrierHolder, place>>

(* An open shadow and everything in it.                                    *)
HandOver(s, to) ==
  /\ phase[s] = "open"
  /\ shadowHolder' = [shadowHolder EXCEPT ![s] = to]
  /\ carrierHolder' =
       [c \in Carriers |-> IF c \in Inside(s) THEN to ELSE carrierHolder[c]]
  /\ UNCHANGED <<phase, place>>

(* A held carrier.                                                         *)
Give(c, to) ==
  /\ place[c] = <<"held">>
  /\ carrierHolder' = [carrierHolder EXCEPT ![c] = to]
  /\ UNCHANGED <<phase, shadowHolder, place>>

Solve(s) ==
  /\ phase[s] = "open"
  /\ phase' = [phase EXCEPT ![s] = "solved"]
  /\ place' =
       [c \in Carriers |-> IF c \in Inside(s) THEN <<"held">> ELSE place[c]]
  /\ UNCHANGED <<shadowHolder, carrierHolder>>

(* A solved shadow, alone.                                                 *)
Sell(s, to) ==
  /\ phase[s] = "solved"
  /\ shadowHolder' = [shadowHolder EXCEPT ![s] = to]
  /\ UNCHANGED <<phase, carrierHolder, place>>

Next ==
  \/ \E u \in Users, s \in Shadows : Mint(u, s)
  \/ \E c \in Carriers, s \in Shadows : Extract(c, s)
  \/ \E c \in Carriers, s \in Shadows, i \in Slots : Insert(c, s, i)
  \/ \E s \in Shadows, to \in Users : HandOver(s, to)
  \/ \E c \in Carriers, to \in Users : Give(c, to)
  \/ \E s \in Shadows : Solve(s)
  \/ \E s \in Shadows, to \in Users : Sell(s, to)

Spec == Init /\ [][Next]_vars
--------------------------------------------------------------------------------
(* A slot holds at most one carrier, and only a slot of an open shadow does.*)
OneCarrierPerSlot ==
  \A c, d \in Carriers : c # d /\ place[c] \notin Elsewhere => place[c] # place[d]

(* Whoever holds a shadow holds what is in it, and a solved one is empty.  *)
HeldTogether ==
  \A s \in Shadows : \A c \in Inside(s) :
    /\ phase[s] = "open"
    /\ carrierHolder[c] = shadowHolder[s]
================================================================================
