----------------------------- MODULE MC_Hashmap ------------------------------
(* An instance of Hashmap for TLC: two keys that share a bucket at first and *)
(* not after the table has grown.                                            *)
EXTENDS Hashmap

TwoKeys == [a |-> 0, b |-> 1]
=============================================================================
