---------------------------- MODULE SampleQueue -----------------------------
(***************************************************************************)
(* What a perf ring promises the daemon, and what PolicyDaemon assumes of  *)
(* it: the samples the kernel puts in come out once, whole and in order.   *)
(***************************************************************************)
EXTENDS Sequences, Integers

CONSTANT Ids \* the samples

VARIABLES
  put, \* the samples put in so far
  got  \* the samples taken out so far

Init == put = <<>> /\ got = <<>>

Put(s) ==
  /\ put' = Append(put, s)
  /\ UNCHANGED got

Get ==
  /\ Len(got) < Len(put)
  /\ got' = Append(got, put[Len(got) + 1])
  /\ UNCHANGED put

Next == (\E s \in Ids : Put(s)) \/ Get

Spec == Init /\ [][Next]_<<put, got>>
=============================================================================
