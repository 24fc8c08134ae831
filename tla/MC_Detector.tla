---------------------------- MODULE MC_Detector -----------------------------
(* An instance of Detector for TLC: sources 1 and 2 send to the protected  *)
(* addresses 8 and 9, each with a threshold of one packet.                 *)
EXTENDS Detector

TwoPolicies == <<[ip |-> 9, threshold |-> 1], [ip |-> 8, threshold |-> 1]>>
=============================================================================
