--------------------------- MODULE MCLoginServer ---------------------------
(* Instances of LoginServer for TLC: who the clients of a run are.         *)
EXTENDS LoginServer

CONSTANTS f1, f2, f3, alice, right, wrong, default, g1, g2

OneUser  == [fd \in Fd |-> alice]
SameWord == [fd \in Fd |-> right]
TwoWords == [fd \in Fd |-> IF fd = f2 THEN wrong ELSE right]
=============================================================================
