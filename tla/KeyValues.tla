----------------------------- MODULE KeyValues ------------------------------
(***************************************************************************)
(* What libbpf's hashmap promises: a map from keys to values, in which     *)
(* HASHMAP_APPEND may give a key more than one.  An operation that finds   *)
(* no memory changes nothing.                                              *)
(***************************************************************************)
EXTENDS Integers

CONSTANTS Keys, Values

VARIABLES
  bag, \* key -> value -> how often the pair is in the map
  ret  \* what the last operation returned

ValuesOf(k) == {v \in Values : bag[k][v] > 0}

Init == bag = [k \in Keys |-> [v \in Values |-> 0]] /\ ret = "none"

Put(k, v) == bag' = [bag EXCEPT ![k][v] = @ + 1]
Take(k, v) == bag' = [bag EXCEPT ![k][v] = @ - 1]
Replace(k, old, v) ==
  bag' = [bag EXCEPT ![k] = [w \in Values |-> @[w] - (IF w = old THEN 1 ELSE 0) + (IF w = v THEN 1 ELSE 0)]]

\* A key that is there keeps its place with SET and UPDATE and is refused by ADD.
Insert(k, v, strategy) ==
  \/ /\ ret' = "0" /\ strategy \in {"SET", "UPDATE"}
     /\ \E old \in ValuesOf(k) : Replace(k, old, v)
  \/ /\ ret' = "EEXIST" /\ strategy = "ADD" /\ ValuesOf(k) # {}
     /\ UNCHANGED bag
  \/ /\ ret' = "ENOENT" /\ strategy = "UPDATE" /\ ValuesOf(k) = {}
     /\ UNCHANGED bag
  \/ /\ ret' = "0" /\ strategy \in {"ADD", "SET"} /\ ValuesOf(k) = {}
     /\ Put(k, v)
  \/ /\ ret' = "0" /\ strategy = "APPEND"
     /\ Put(k, v)

OutOfMemory == ret' = "ENOMEM" /\ UNCHANGED bag

Delete(k) ==
  \/ /\ ret' = "false" /\ ValuesOf(k) = {}
     /\ UNCHANGED bag
  \/ /\ ret' = "true"
     /\ \E old \in ValuesOf(k) : Take(k, old)

Next ==
  \/ \E k \in Keys, v \in Values, s \in {"ADD", "SET", "UPDATE", "APPEND"} : Insert(k, v, s)
  \/ \E k \in Keys : Delete(k)
  \/ OutOfMemory

Spec == Init /\ [][Next]_<<ret, bag>>
=============================================================================
