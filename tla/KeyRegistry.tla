----------------------------- MODULE KeyRegistry -----------------------------
(***************************************************************************)
(* KeyRegistry.sol: the public key each address has registered, once and   *)
(* for ever.  Zero stands for the (0,0) sentinel of an unregistered one.   *)
(***************************************************************************)
EXTENDS SlotState

CONSTANT Users  \* addresses that call the contracts, externally owned or not

ASSUME UsersAssumption == Zero \notin Users

VARIABLE pk     \* pkX / pkY

RegistryTypeOK == pk \in [Users -> Keys \cup {Zero}]

RegistryInit == pk = [u \in Users |-> Zero]

IsRegistered(u) == pk[u] # Zero

(* Faulty variant: the curve check left to the registry, which has none.   *)
OnCurve_RegisteredOnly(u) == IsRegistered(u)

(* Every circuit that encrypts to a key asserts that it is on the curve, so*)
(* an account can receive, and mint, only once it has registered such a one.*)
OnCurve(u) == pk[u] \in CurveKeys

(* register: rejects the sentinel (no member of Keys is it) and a second   *)
(* registration; accepts any other pair, on the curve or not.              *)
Register(u, k) ==
  /\ ~IsRegistered(u)
  /\ pk' = [pk EXCEPT ![u] = k]
==============================================================================
