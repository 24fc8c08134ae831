------------------------------- MODULE Hashmap ------------------------------
(***************************************************************************)
(* libbpf's hashmap: an array of chains that doubles when it is more than  *)
(* three quarters full.  A bucket is the upper bits of the key's hash, so  *)
(* a chain splits in two when the array grows.                             *)
(***************************************************************************)
EXTENDS Integers, Sequences, SequencesExt, FiniteSets

CONSTANTS
  HashBits,   \* bits of a hash
  HashOf,     \* key -> its hash (after the shuffle of hash_bits)
  HashValues, \* the values stored
  MaxEntries, \* bound: entries in the map
  MaxHashFaults \* bound: failed allocations

HashKeys == DOMAIN HashOf
HASHMAP_MIN_CAP_BITS == 2

\* 1UL << bits.
Capacity[bits \in 0 .. HashBits] == IF bits = 0 THEN 1 ELSE 2 * Capacity[bits - 1]

\* There are as many hashes as a word has values, more than entries fit in memory.
ASSUME HashAssumption ==
  /\ HashBits \in Nat /\ HashBits >= HASHMAP_MIN_CAP_BITS
  /\ \A k \in HashKeys : HashOf[k] \in 0 .. Capacity[HashBits] - 1
  /\ MaxEntries \in Nat /\ 4 * (MaxEntries + 1) <= 3 * Capacity[HashBits]
  /\ MaxHashFaults \in Nat

VARIABLES
  buckets,  \* bucket -> its chain of entries, the newest first
  cap_bits, \* the number of buckets is 2 ^ cap_bits, or none at all
  sz,       \* the number of entries
  hash_ret, \* what the last operation returned
  hash_last, \* history: key -> the value inserted last, if it was not deleted since
  hash_faults

hashVars == <<buckets, cap_bits, sz, hash_ret, hash_last, hash_faults>>

cap == IF buckets = <<>> THEN 0 ELSE Capacity[cap_bits]

HashInit ==
  /\ buckets = <<>> /\ cap_bits = 0 /\ sz = 0
  /\ hash_ret = "none" /\ hash_faults = 0
  /\ hash_last = [k \in HashKeys |-> {}]

-----------------------------------------------------------------------------

\* The upper bits of the hash.
hash_bits(k, bits) == HashOf[k] \div Capacity[HashBits - bits]

\* Places of the entries of a chain that hold a key; hashmap_find_entry takes the
\* first.
PlacesOf(k, chain) == {n \in DOMAIN chain : chain[n].key = k}
ChainOf(k) == IF buckets = <<>> THEN <<>> ELSE buckets[hash_bits(k, cap_bits)]
FoundAt(k) == CHOOSE n \in PlacesOf(k, ChainOf(k)) : \A m \in PlacesOf(k, ChainOf(k)) : n <= m
hashmap__find(k) == ChainOf(k)[FoundAt(k)].value
Present(k) == PlacesOf(k, ChainOf(k)) # {}

\* "grow if empty or more than 75% filled"
hashmap_needs_to_grow == cap = 0 \/ ((sz + 1) * 4) \div 3 > cap

\* All entries, in the order of hashmap__for_each_entry.
AllEntries ==
  LET upto[b \in 0 .. cap] == IF b = 0 THEN <<>> ELSE upto[b - 1] \o buckets[b - 1] IN upto[cap]

Entry(k, v) == [key |-> k, value |-> v]
AddedTo(chains, b, e) == [chains EXCEPT ![b] = <<e>> \o @]

new_cap_bits == IF cap_bits + 1 < HASHMAP_MIN_CAP_BITS THEN HASHMAP_MIN_CAP_BITS ELSE cap_bits + 1

\* hashmap_grow puts them one by one in front of their new chains.
Grown ==
  LET entries == AllEntries
      chains[n \in 0 .. Len(entries)] ==
        IF n = 0 THEN [b \in 0 .. Capacity[new_cap_bits] - 1 |-> <<>>]
        ELSE AddedTo(chains[n - 1], hash_bits(entries[n].key, new_cap_bits), entries[n])
  IN chains[Len(entries)]

\* A new entry, after hashmap_grow if need be; either allocation may fail.
InsertNew(k, v) ==
  \/ /\ sz < MaxEntries
     /\ LET bits == IF hashmap_needs_to_grow THEN new_cap_bits ELSE cap_bits
        IN /\ buckets' = AddedTo(IF hashmap_needs_to_grow THEN Grown ELSE buckets,
                                 hash_bits(k, bits), Entry(k, v))
           /\ cap_bits' = bits
     /\ sz' = sz + 1
     /\ hash_ret' = "0"
     /\ hash_last' = [hash_last EXCEPT ![k] = {v}]
     /\ UNCHANGED hash_faults
  \/ /\ hash_faults < MaxHashFaults
     /\ hash_faults' = hash_faults + 1
     /\ hash_ret' = "ENOMEM"
     /\ \/ UNCHANGED <<buckets, cap_bits>>
        \/ hashmap_needs_to_grow /\ buckets' = Grown /\ cap_bits' = new_cap_bits
     /\ UNCHANGED <<sz, hash_last>>

hashmap__insert_SetAppends(k, v, strategy) ==
  IF strategy = "ADD" /\ Present(k)
  THEN hash_ret' = "EEXIST" /\ UNCHANGED <<buckets, cap_bits, sz, hash_last, hash_faults>>
  ELSE IF strategy = "UPDATE"
  THEN hash_ret' = "ENOENT" /\ UNCHANGED <<buckets, cap_bits, sz, hash_last, hash_faults>>
  ELSE InsertNew(k, v)

hashmap__insert(k, v, strategy) ==
  IF strategy # "APPEND" /\ Present(k)
  THEN /\ IF strategy = "ADD"
          THEN hash_ret' = "EEXIST" /\ UNCHANGED <<buckets, hash_last>>
          ELSE /\ hash_ret' = "0"
               /\ buckets' = [buckets EXCEPT ![hash_bits(k, cap_bits)][FoundAt(k)] = Entry(k, v)]
               /\ hash_last' = [hash_last EXCEPT ![k] = {v}]
       /\ UNCHANGED <<cap_bits, sz, hash_faults>>
  ELSE IF strategy = "UPDATE"
  THEN hash_ret' = "ENOENT" /\ UNCHANGED <<buckets, cap_bits, sz, hash_last, hash_faults>>
  ELSE InsertNew(k, v)

hashmap__delete(k) ==
  /\ IF Present(k)
     THEN /\ buckets' = [buckets EXCEPT ![hash_bits(k, cap_bits)] = RemoveAt(@, FoundAt(k))]
          /\ sz' = sz - 1
          /\ hash_ret' = "true"
          /\ hash_last' = [hash_last EXCEPT ![k] = {}]
     ELSE hash_ret' = "false" /\ UNCHANGED <<buckets, sz, hash_last>>
  /\ UNCHANGED <<cap_bits, hash_faults>>

Strategies == {"ADD", "SET", "UPDATE", "APPEND"}

HashNext ==
  \/ \E k \in HashKeys, v \in HashValues, s \in Strategies : hashmap__insert(k, v, s)
  \/ \E k \in HashKeys : hashmap__delete(k)

HashSpec == HashInit /\ [][HashNext]_hashVars

-----------------------------------------------------------------------------
(* Properties.                                                             *)

\* How often the chain of a key holds a value for it.
EntryCount(k, v) == Cardinality({n \in PlacesOf(k, ChainOf(k)) : ChainOf(k)[n].value = v})

\* The chains implement a map, or with HASHMAP_APPEND a multimap: every operation
\* answers and changes what it should, also after hashmap_grow has moved the
\* entries and when an allocation fails in the middle.
Multimap == INSTANCE KeyValues WITH
  Keys <- HashKeys, Values <- HashValues, ret <- hash_ret,
  bag <- [k \in HashKeys |-> [v \in HashValues |-> EntryCount(k, v)]]

HashmapIsMap == Multimap!Spec

\* "If hashmap__find() is still used, it will return last inserted key/value
\* entry (first in a bucket chain)" (hashmap.h:77).
FindsLastInserted ==
  \A k \in HashKeys : \A v \in hash_last[k] : hashmap__find(k) = v
=============================================================================
