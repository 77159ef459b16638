------------------------------ MODULE BridgedAsset ------------------------------
(***************************************************************************)
(* What the bridge promises about a shadow, without messages, flags or     *)
(* copies: it is on one chain or on its way to the other, one account      *)
(* controls it, and a crossing ends where its sender said it would.        *)
(*                                                                         *)
(* The vault is the bridge's own account.  What reaches it outside the     *)
(* protocol is never moved again; the specification says so because the    *)
(* contracts do not prevent it.                                            *)
(***************************************************************************)
CONSTANTS
  Users, Shadows,
  Vault,     \* the account of the bridge on L2, one of the users
  Nobody     \* the controller of what does not exist yet, no user

VARIABLES
  place,      \* of each shadow: a chain, or the way to one
  controller  \* who holds it, or will when it arrives

vars == <<place, controller>>

Init ==
  /\ place = [s \in Shadows |-> "L2"]
  /\ controller = [s \in Shadows |-> Nobody]

Create(s, u) ==
  /\ place[s] = "L2"
  /\ controller[s] = Nobody
  /\ controller' = [controller EXCEPT ![s] = u]
  /\ UNCHANGED place

(* What the vault holds on L2 is out of everyone's reach.                  *)
OutOfReach(s) == place[s] = "L2" /\ controller[s] = Vault

Trade(s, to) ==
  /\ place[s] \in {"L1", "L2"}
  /\ controller[s] # Nobody
  /\ ~OutOfReach(s)
  /\ controller' = [controller EXCEPT ![s] = to]
  /\ UNCHANGED place

Depart(s, to) ==
  /\ controller[s] # Nobody
  /\ ~OutOfReach(s)
  /\ \/ place[s] = "L2" /\ place' = [place EXCEPT ![s] = "toL1"]
     \/ place[s] = "L1" /\ place' = [place EXCEPT ![s] = "toL2"]
  /\ controller' = [controller EXCEPT ![s] = to]

Arrive(s) ==
  /\ \/ place[s] = "toL1" /\ place' = [place EXCEPT ![s] = "L1"]
     \/ place[s] = "toL2" /\ place' = [place EXCEPT ![s] = "L2"]
  /\ UNCHANGED controller

Next ==
  \/ \E s \in Shadows, u \in Users : Create(s, u)
  \/ \E s \in Shadows, to \in Users : Trade(s, to)
  \/ \E s \in Shadows, to \in Users : Depart(s, to)
  \/ \E s \in Shadows : Arrive(s)

Spec == Init /\ [][Next]_vars
================================================================================
