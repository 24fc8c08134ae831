-------------------------- MODULE MC_PolicyDaemon ---------------------------
(* Instances of PolicyDaemon for TLC: addresses 1 and 2 send to the one    *)
(* protected address 9, whose threshold is one packet per window.          *)
EXTENDS PolicyDaemon

OnePolicy == <<[ip |-> 9, threshold |-> 1]>>
TwoPolicies == <<[ip |-> 9, threshold |-> 1], [ip |-> 8, threshold |-> 1]>>
=============================================================================
