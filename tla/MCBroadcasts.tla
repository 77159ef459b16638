------------------------------ MODULE MCBroadcasts ------------------------------
(***************************************************************************)
(* A minter A and a recipient B take a shadow of two slots through every   *)
(* script: A's first carrier is mutated twice, the second taken out and    *)
(* put back; B mutates both, sells the first to A and solves the rest.     *)
(***************************************************************************)
EXTENDS Broadcasts

CONSTANTS A, B

MCSlots == {1, 2}
MCCarriers == {"first", "second"}
MCStates == 1..10

Each(a, b) == [s \in MCSlots |-> IF s = 1 THEN a ELSE b]
Nowhere == Each(None, None)
Whose == Each("first", "second")

(* A fixture that names nothing, to which each step adds what it binds.    *)
Plain(script, by) ==
  [script |-> script, by |-> by, to |-> None, slots |-> {}, feature |-> Nowhere,
   held |-> None, old |-> Each(Empty, Empty), new |-> Each(Empty, Empty),
   checkpoint |-> Empty, rekeyed |-> Empty, z |-> NoPerm]

MCCampaign == <<
  [Plain("mint", A) EXCEPT !.slots = {1, 2}, !.feature = Whose, !.new = Each(1, 2)],
  [Plain("mutate", A) EXCEPT !.slots = {1}, !.feature = Whose, !.old = Each(1, 2),
                             !.new = Each(3, 2)],
  [Plain("mutate", A) EXCEPT !.slots = {1}, !.feature = Whose, !.old = Each(3, 2),
                             !.new = Each(4, 2)],
  [Plain("extract", A) EXCEPT !.slots = {2}, !.new = Each(4, Empty)],
  [Plain("insert", A) EXCEPT !.slots = {2}, !.held = "second", !.checkpoint = 2,
                             !.new = Each(4, 5)],
  [Plain("setZIndex", A) EXCEPT !.z = "perm", !.new = Each(4, 5)],
  [Plain("transfer", A) EXCEPT !.to = B, !.old = Each(4, 5), !.new = Each(6, 7),
                               !.z = "perm"],
  [Plain("mutateBatch", B) EXCEPT !.slots = {1, 2}, !.feature = Whose,
                                  !.old = Each(6, 7), !.new = Each(8, 9), !.z = "perm"],
  [Plain("extract", B) EXCEPT !.slots = {1}, !.new = Each(Empty, 9), !.z = "perm"],
  [Plain("transferFeature", B) EXCEPT !.to = A, !.held = "first", !.checkpoint = 8,
                                      !.rekeyed = 10],
  [Plain("solve", B) EXCEPT !.old = Each(Empty, 9), !.z = "perm"],
  Plain("bridge", B) >>

RECURSIVE Drawn(_)
Drawn(i) == IF i = 1 THEN Blank ELSE After(Drawn(i - 1), MCCampaign[i - 1])
MCPictures == [i \in 1..(Len(MCCampaign) + 1) |-> Drawn(i)]
================================================================================
