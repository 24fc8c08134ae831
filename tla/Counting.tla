------------------------------ MODULE Counting ------------------------------
(***************************************************************************)
(* What detect_attackers promises: it counts every packet of the window    *)
(* once for each policy that protects its destination, and then reports,   *)
(* policy by policy, exactly the sources that sent more than it allows.    *)
(***************************************************************************)
EXTENDS Integers, Sequences, FiniteSets

CONSTANTS
  list_policy, \* the policies: a sequence of [ip, threshold]
  INTERVAL     \* seconds per counting window

VARIABLES
  packets_queue, \* the packets of the window, [src, dst]
  seen,          \* pairs of packet and policy counted so far
  reported       \* pairs of policy and source over the threshold

vars == <<packets_queue, seen, reported>>

Policies == DOMAIN list_policy

\* The packets of q that policy p is about, of all sources and of one.
Protected(q, p) == {i \in DOMAIN q : q[i].dst = list_policy[p].ip}
SentBy(q, p, s) == {i \in Protected(q, p) : q[i].src = s}
Sent(q, p, s) == Cardinality(SentBy(q, p, s))

Attackers(q, p) ==
  {s \in {q[i].src : i \in DOMAIN q} : Sent(q, p, s) \div INTERVAL > list_policy[p].threshold}

Init == seen = {} /\ reported = {}

Count(i, p) ==
  /\ i \in Protected(packets_queue, p)
  /\ <<i, p>> \notin seen
  /\ seen' = seen \cup {<<i, p>>}
  /\ UNCHANGED <<packets_queue, reported>>

\* A policy is judged when all of its packets have been counted.
Judge(p) ==
  /\ \A i \in Protected(packets_queue, p) : <<i, p>> \in seen
  /\ reported' = reported \cup ({p} \X Attackers(packets_queue, p))
  /\ UNCHANGED <<packets_queue, seen>>

Next ==
  \/ \E i \in DOMAIN packets_queue, p \in Policies : Count(i, p)
  \/ \E p \in Policies : Judge(p)

Spec == Init /\ [][Next]_vars
=============================================================================
