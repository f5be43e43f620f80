------------------------------- MODULE MCChat -------------------------------
(* Instances of Chat for TLC: names of the agents, and their pool.          *)
EXTENDS Chat

CONSTANTS a1, a2

TwoAgents == <<a1, a2>>
=============================================================================
