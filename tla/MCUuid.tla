------------------------------- MODULE MCUuid -------------------------------
(* Instances of Uuid for TLC: names of slaves and agents.                  *)
EXTENDS Uuid

CONSTANTS s1, s2, a1, a2
=============================================================================
