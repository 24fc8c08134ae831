-------------------------------- MODULE Sums --------------------------------
(***************************************************************************)
(* Running sums of a sequence of numbers: where things lie that lie one    *)
(* after another.                                                          *)
(***************************************************************************)
EXTENDS Integers, Sequences

\* Sums(d)[n] is the sum of the first n.
Sums(d) == LET sum[n \in 0 .. Len(d)] == IF n = 0 THEN 0 ELSE sum[n - 1] + d[n] IN sum

Total(d) == Sums(d)[Len(d)]
=============================================================================
