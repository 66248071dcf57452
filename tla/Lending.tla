------------------------------ MODULE Lending -------------------------------
(***************************************************************************)
(* What a pool promises, whatever it pools: an item has at most one holder *)
(* at a time. It says nothing about free lists, chunks or locks.           *)
(***************************************************************************)
EXTENDS Naturals

CONSTANT Items
VARIABLE holders \* item -> how many callers hold it

Init == holders = [x \in Items |-> 0]

Take(x) == holders[x] = 0 /\ holders' = [holders EXCEPT ![x] = 1]

GiveBack(x) == holders[x] = 1 /\ holders' = [holders EXCEPT ![x] = 0]

Next == \E x \in Items : Take(x) \/ GiveBack(x)

Spec == Init /\ [][Next]_holders

=============================================================================
