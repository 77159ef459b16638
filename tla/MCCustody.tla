------------------------------- MODULE MCCustody -------------------------------
(* Custody on a small instance: one carrier is born into slot 0 of each    *)
(* shadow, and there is room for the carrier of another.                   *)
EXTENDS Custody

MCSlots == {0, 1}
MCCarriers == Shadows \X {0}
================================================================================
