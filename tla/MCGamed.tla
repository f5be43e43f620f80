------------------------------ MODULE MCGamed ------------------------------
(* Instances of Gamed for TLC: who the sockets of a run belong to.         *)
EXTENDS Gamed

CONSTANTS f1, f2, f3, f4, alice, bob

AllOne      == [fd \in Fd |-> alice]
TwoAndOne   == [fd \in Fd |-> IF fd = f3 THEN bob ELSE alice]
ThreeAndOne == [fd \in Fd |-> IF fd = f4 THEN bob ELSE alice]
=============================================================================
