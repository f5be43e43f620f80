----------------------------- MODULE MCMoniter ------------------------------
(* Instances of Moniter for TLC: names of the services.                    *)
EXTENDS Moniter

CONSTANTS s1, s2, s3, s4
=============================================================================
