---------------------------- MODULE DetectorProofs ---------------------------
(***************************************************************************)
(* detect_attackers counts right, proved for every window, any number of   *)
(* policies and rows, and any width of the words: although the policies    *)
(* share the index of the next row, and although most of the table is not  *)
(* initialised.                                                            *)
(***************************************************************************)
EXTENDS Detector, Arithmetic, FiniteSetTheorems

\* The table as the code sees it: the address and the count of a row, and the rows in use.
Addr(p, k) == psi[AddressWord(p, k)]
Cnt(p, k) == psi[CountWord(p, k)]
Num(p) == psi[NumWord(p)]

\* The windows the theorem is about: those for the address of one policy, whatever the
\* uninitialised words of psi hold; and every window, where those words are 0 and 0 is no
\* source.
CleanStart ==
  \/ Single
  \/ psi = [w \in Words |-> 0] /\ 0 \notin Sources

DtTypeOK ==
  /\ packets_queue \in Seq(Packets) /\ Len(packets_queue) <= MaxPackets
  /\ psi \in [Words -> Nat]
  /\ num_ip \in Nat
  /\ dt_pc \in {"count", "report", "done", "smashed"}

\* The place in the two loops.
AtPlace ==
  /\ at \in Nat \X Nat /\ at[1] >= 1 /\ at[2] >= 1
  /\ dt_pc = "count" => /\ at[1] <= Len(packets_queue) + 1
                        /\ at[2] > 1 => at[1] <= Len(packets_queue) /\ at[2] <= Len(list_policy)
  /\ dt_pc = "report" => at[1] <= Len(list_policy) + 1
  /\ dt_pc = "done" => at[1] > Len(list_policy)

\* Rows that come into use behind a policy's back are those it gave away to others: in a
\* window for one policy there are none, and otherwise they are clear.
FreshRows ==
  \/ Single /\ \A p \in Policies : (\E k \in DOMAIN packets_queue : packets_queue[k].dst = list_policy[p].ip)
                                     => Num(p) = num_ip
  \/ /\ 0 \notin Sources
     /\ \A p \in Policies : \A k \in 0 .. ROWS - 1 : k >= Num(p) => Addr(p, k) = 0 /\ Cnt(p, k) = 0

\* A row in use counts the packets of its source, or is clear.
RowsCount ==
  \A p \in Policies : \A k \in InUse(p) :
    \/ Addr(p, k) \in Sources /\ Cnt(p, k) = SentSoFar(p, Addr(p, k))
    \/ Addr(p, k) = 0 /\ Cnt(p, k) = 0 /\ 0 \notin Sources

\* No source has two rows of a policy, and each that sent has one.
RowsApart ==
  \A p \in Policies : \A h, k \in InUse(p) :
    Addr(p, h) \in Sources /\ Addr(p, h) = Addr(p, k) => h = k
RowsThere ==
  \A p \in Policies : \A s \in Sources :
    SentSoFar(p, s) # 0 => \E k \in InUse(p) : Addr(p, k) = s

\* What is reported is in the table, and all of it that is over the threshold.
Line(p, k) == [policy |-> p, ip |-> Addr(p, k), sent |-> Rate(p, k)]
ReportsSoFar ==
  /\ dt_pc = "count" => reports = {}
  /\ \A r \in reports : \E p \in Policies : \E k \in InUse(p) :
       r = Line(p, k) /\ Rate(p, k) > Threshold(p)
  /\ dt_pc \in {"report", "done"} =>
       \A p \in Policies : p < at[1] =>
         \A k \in InUse(p) : Rate(p, k) > Threshold(p) => Line(p, k) \in reports

Table ==
  /\ dt_pc # "smashed"
  /\ num_ip <= Cardinality(Pairs)
  /\ \A p \in Policies : Num(p) <= num_ip
  /\ FreshRows /\ RowsCount /\ RowsApart /\ RowsThere /\ ReportsSoFar

\* The inductive invariant: the table is in order as long as the window has no more pairs of
\* policy and source than psi has rows.
Fits == Cardinality(Pairs) <= ROWS
DtInv == DtTypeOK /\ AtPlace /\ (Fits => Table)

-----------------------------------------------------------------------------
(* The memory.                                                             *)

\* The sizes are as the code has them: a struct is its num_ip and ROWS rows of two words.
LEMMA DtSizes ==
  /\ ROWS \in Nat \ {0} /\ INTERVAL \in Nat \ {0} /\ Word \in Nat \ {0}
  /\ STRUCT \in Nat \ {0} /\ STRUCT = 2 * ROWS + 1
  /\ Len(list_policy) \in Nat /\ Policies = 1 .. Len(list_policy)
  /\ MaxPackets < Word /\ MaxPackets \in Nat
  /\ \A s \in Sources : s \in Nat /\ s < Word
  BY DetectorAssumption DEF STRUCT, Policies

\* A word of psi[p] is none of psi[q]'s, nor another one of psi[p]'s.
LEMMA WordsApart ==
  ASSUME NEW p \in Policies, NEW q \in Policies,
         NEW a \in 0 .. STRUCT - 1, NEW b \in 0 .. STRUCT - 1
  PROVE  /\ (p - 1) * STRUCT + a \in Words
         /\ (p - 1) * STRUCT + a = (q - 1) * STRUCT + b => p = q /\ a = b
  <1>. PICK n \in Nat : n = Len(list_policy) /\ Policies = 1 .. n
    BY DtSizes
  <1>. PICK w \in Nat \ {0} : w = STRUCT
    BY DtSizes
  <1>1. p \in 1 .. n /\ q \in 1 .. n /\ a \in 0 .. w - 1 /\ b \in 0 .. w - 1 /\ p - 1 \in Nat /\ q - 1 \in Nat
    OBVIOUS
  <1>2. (p - 1) * w + a \in 0 .. n * w - 1
    <2>1. (p - 1) * w + a >= 0
      BY ONLY <1>1, w \in Nat \ {0}
    <2>2. (p - 1) * w + w = p * w
      BY ONLY <1>1, w \in Nat \ {0}
    <2>3. p * w <= n * w
      <3>1. n * w = p * w + (n - p) * w /\ (n - p) \in Nat
        BY ONLY <1>1, n \in Nat, w \in Nat \ {0}
      <3>2. (n - p) * w >= 0
        BY ONLY <3>1, w \in Nat \ {0}
      <3>. QED BY ONLY <1>1, <3>1, <3>2, n \in Nat, w \in Nat \ {0}
    <2>. QED BY ONLY <1>1, <2>1, <2>2, <2>3, n \in Nat, w \in Nat \ {0}
  <1>3. ASSUME (p - 1) * w + a = (q - 1) * w + b PROVE p = q /\ a = b
    <2>1. (w * (p - 1) + a) % w = a
      BY ONLY <1>1, ModUnique, w \in Nat \ {0}, p - 1 \in Int
    <2>2. (w * (q - 1) + b) % w = b
      BY ONLY <1>1, ModUnique, w \in Nat \ {0}, q - 1 \in Int
    <2>3. (p - 1) * w + a = w * (p - 1) + a /\ (q - 1) * w + b = w * (q - 1) + b
      BY ONLY <1>1, w \in Nat \ {0}
    <2>4. a = b
      BY <1>3, <2>1, <2>2, <2>3
    <2>5. (p - 1) * w = (q - 1) * w
      BY ONLY <1>1, <1>3, <2>4, w \in Nat \ {0}
    <2>6. p - 1 = q - 1
      BY ONLY <1>1, <2>5, w \in Nat \ {0}
    <2>. QED BY ONLY <1>1, <2>4, <2>6
  <1>. QED BY <1>2, <1>3 DEF Words

\* The fields of the rows.
LEMMA FieldsApart ==
  ASSUME NEW p \in Policies, NEW q \in Policies,
         NEW h \in 0 .. ROWS - 1, NEW k \in 0 .. ROWS - 1
  PROVE  /\ AddressWord(p, k) \in Words /\ CountWord(p, k) \in Words /\ NumWord(p) \in Words
         /\ AddressWord(p, h) = AddressWord(q, k) => p = q /\ h = k
         /\ CountWord(p, h) = CountWord(q, k) => p = q /\ h = k
         /\ NumWord(p) = NumWord(q) => p = q
         /\ AddressWord(p, h) # CountWord(q, k)
         /\ AddressWord(p, h) # NumWord(q)
         /\ CountWord(p, h) # NumWord(q)
  <1>1. /\ h \in 0 .. STRUCT - 1 /\ k \in 0 .. STRUCT - 1
        /\ ROWS + h \in 0 .. STRUCT - 1 /\ ROWS + k \in 0 .. STRUCT - 1
        /\ 2 * ROWS \in 0 .. STRUCT - 1
        /\ h # ROWS + k /\ h # 2 * ROWS /\ ROWS + h # 2 * ROWS /\ (ROWS + h = ROWS + k => h = k)
    BY DtSizes
  <1>2. \A r \in Policies : \A m \in 0 .. ROWS - 1 :
          CountWord(r, m) = (r - 1) * STRUCT + (ROWS + m)
    BY DtSizes DEF CountWord
  <1>. QED BY <1>1, <1>2, WordsApart DEF AddressWord, NumWord

\* Without a policy there is no row.
LEMMA RowsInside ==
  ASSUME NEW p \in Policies, NEW ks \in SUBSET (0 .. ROWS)
  PROVE  Inside(p, ks)
  <1>. SUFFICES ASSUME NEW k \in ks PROVE AddressWord(p, k) \in Words /\ CountWord(p, k) \in Words
    BY DEF Inside
  <1>1. k \in 0 .. STRUCT - 1 /\ ROWS + k \in 0 .. STRUCT - 1
    BY DtSizes
  <1>2. CountWord(p, k) = (p - 1) * STRUCT + (ROWS + k)
    BY DtSizes DEF CountWord
  <1>. QED BY <1>1, <1>2, WordsApart DEF AddressWord

-----------------------------------------------------------------------------
(* What is counted so far.                                                 *)

SentPairs(p, s) ==
  {v \in Behind : v[2] = p /\ packets_queue[v[1]].src = s
                    /\ packets_queue[v[1]].dst = list_policy[p].ip}
Protects == {v \in Behind : packets_queue[v[1]].dst = list_policy[v[2]].ip}

\* All of it is finite, and no count reaches the width of a word.
LEMMA CountsFit ==
  ASSUME packets_queue \in Seq(Packets), Len(packets_queue) <= MaxPackets
  PROVE  /\ IsFiniteSet(Pairs) /\ Cardinality(Pairs) \in Nat
         /\ \A p \in Policies : \A s \in Sources :
              /\ IsFiniteSet(SentPairs(p, s))
              /\ SentSoFar(p, s) = Cardinality(SentPairs(p, s))
              /\ SentSoFar(p, s) \in Nat /\ SentSoFar(p, s) < Word
              /\ SentSoFar(p, s) # 0 <=> <<p, s>> \in Pairs
  <1>. PICK n \in Nat : n = Len(packets_queue) /\ DOMAIN packets_queue = 1 .. n
    OBVIOUS
  <1>1. IsFiniteSet(1 .. n) /\ Cardinality(1 .. n) = n
    <2>1. 1 \in Int /\ n \in Int
      OBVIOUS
    <2>2. IsFiniteSet(1 .. n) /\ Cardinality(1 .. n) = IF 1 > n THEN 0 ELSE n - 1 + 1
      BY ONLY <2>1, FS_Interval
    <2>. QED BY ONLY <2>2, n \in Nat
  <1>2. IsFiniteSet(Policies)
    BY DtSizes, FS_Interval
  <1>3. IsFiniteSet((1 .. n) \X Policies)
    BY <1>1, <1>2, FS_Product
  <1>4. IsFiniteSet(Protects)
    <2>1. Protects \subseteq (1 .. n) \X Policies
      BY DEF Protects, Behind
    <2>. QED BY <1>3, <2>1, FS_Subset
  <1>5. IsFiniteSet(Pairs)
    <2>. DEFINE f == [v \in Protects |-> <<v[2], packets_queue[v[1]].src>>]
    <2>1. Pairs = {<<v[2], packets_queue[v[1]].src>> : v \in Protects}
      BY DEF Pairs, Protects
    <2>2. f \in Surjection(Protects, Pairs)
      BY <2>1 DEF Surjection
    <2>. QED BY <1>4, <2>2, FS_Surjection
  <1>6. ASSUME NEW p \in Policies, NEW s \in Sources
        PROVE  /\ IsFiniteSet(SentPairs(p, s))
               /\ SentSoFar(p, s) = Cardinality(SentPairs(p, s))
               /\ SentSoFar(p, s) \in Nat /\ SentSoFar(p, s) < Word
               /\ SentSoFar(p, s) # 0 <=> <<p, s>> \in Pairs
    <2>1. SentPairs(p, s) \subseteq (1 .. n) \X {p}
      BY DEF SentPairs, Behind
    <2>2. IsFiniteSet({p}) /\ Cardinality({p}) = 1
      BY FS_Singleton
    <2>3. IsFiniteSet((1 .. n) \X {p}) /\ Cardinality((1 .. n) \X {p}) = n
      <3>1. IsFiniteSet((1 .. n) \X {p}) /\ Cardinality((1 .. n) \X {p}) = n * 1
        BY <1>1, <2>2, FS_Product
      <3>. QED BY <3>1
    <2>4. IsFiniteSet(SentPairs(p, s)) /\ Cardinality(SentPairs(p, s)) <= n
      BY <2>1, <2>3, FS_Subset
    <2>5. SentSoFar(p, s) = Cardinality(SentPairs(p, s))
      BY DEF SentSoFar, SentPairs
    <2>6. Cardinality(SentPairs(p, s)) \in Nat
      BY <2>4, FS_CardinalityType
    <2>7. SentSoFar(p, s) # 0 <=> SentPairs(p, s) # {}
      BY <2>4, <2>5, FS_EmptySet
    <2>8. SentPairs(p, s) # {} <=> <<p, s>> \in Pairs
      BY DEF SentPairs, Pairs, Behind
    <2>. QED BY <2>4, <2>5, <2>6, <2>7, <2>8, DtSizes
  <1>. QED BY <1>5, <1>6, FS_CardinalityType

\* One turn of the loops puts one pair of packet and policy behind it.
LEMMA TurnIsBehind ==
  ASSUME DtTypeOK, AtPlace, NEW p \in Policies, Counting(p), Advance,
         UNCHANGED <<packets_queue, dt_pc>>
  PROVE  /\ Behind' = Behind \cup {<<at[1], p>>} /\ <<at[1], p>> \notin Behind
         /\ AtPlace'
  <1>. PICK n \in Nat : n = Len(packets_queue) /\ DOMAIN packets_queue = 1 .. n
    BY DEF DtTypeOK
  <1>. PICK m \in Nat : m = Len(list_policy) /\ Policies = 1 .. m
    BY DtSizes
  <1>. PICK i \in Nat, j \in Nat : at = <<i, j>>
    BY DEF AtPlace
  <1>1. i \in 1 .. n /\ j = p /\ dt_pc = "count"
    BY DEF Counting
  <1>2. at' = IF j < m THEN <<i, j + 1>> ELSE <<i + 1, 1>>
    BY DEF Advance
  <1>3. Behind = {v \in (1 .. n) \X (1 .. m) : v[1] < i \/ (v[1] = i /\ v[2] < j)}
    BY <1>1 DEF Behind
  <1>4. Behind' = {v \in (1 .. n) \X (1 .. m) : v[1] < at'[1] \/ (v[1] = at'[1] /\ v[2] < at'[2])}
    BY <1>1 DEF Behind
  <1>5. AtPlace'
    BY <1>1, <1>2 DEF AtPlace
  <1>6. ASSUME NEW a \in 1 .. n, NEW b \in 1 .. m
        PROVE  (a < at'[1] \/ (a = at'[1] /\ b < at'[2])) <=> (a < i \/ (a = i /\ b < j) \/ (a = i /\ b = j))
    <2>1. CASE j < m
      BY <1>2, <2>1
    <2>2. CASE ~ j < m
      BY <1>1, <1>2, <2>2
    <2>. QED BY <2>1, <2>2
  <1>7. <<i, j>> \in (1 .. n) \X (1 .. m)
    BY <1>1
  <1>8. ASSUME NEW v \in (1 .. n) \X (1 .. m)
        PROVE  (v[1] < at'[1] \/ (v[1] = at'[1] /\ v[2] < at'[2]))
                 <=> (v[1] < i \/ (v[1] = i /\ v[2] < j) \/ v = <<i, j>>)
    BY <1>6
  <1>. QED BY <1>1, <1>3, <1>4, <1>5, <1>7, <1>8

\* So the counts of the other sources and policies stay, and that of the packet's source goes
\* up if the policy protects the address it is for.
LEMMA TurnCounts ==
  ASSUME DtTypeOK, AtPlace, NEW p \in Policies, Counting(p), Advance,
         UNCHANGED <<packets_queue, dt_pc>>
  PROVE  /\ Source \in Sources
         /\ Pairs \subseteq Pairs'
         /\ ~ Matches(p) => /\ Pairs' = Pairs
                            /\ \A q \in Policies : \A s \in Sources : SentSoFar(q, s)' = SentSoFar(q, s)
         /\ Matches(p) => /\ Pairs' = Pairs \cup {<<p, Source>>}
                          /\ \A q \in Policies : \A s \in Sources :
                               SentSoFar(q, s)' = IF q = p /\ s = Source THEN SentSoFar(q, s) + 1
                                                  ELSE SentSoFar(q, s)
  <1>. DEFINE t == <<at[1], p>>
  <1>1. Behind' = Behind \cup {t} /\ t \notin Behind
    BY TurnIsBehind
  <1>2. packets_queue[at[1]] \in Packets /\ at[1] \in DOMAIN packets_queue
    BY DEF DtTypeOK, Counting
  <1>3. Source \in Sources
    BY <1>2 DEF Source, Packets
  <1>4. t[1] = at[1] /\ t[2] = p
    OBVIOUS
  <1>5. Protects' = IF Matches(p) THEN Protects \cup {t} ELSE Protects
    BY <1>1, <1>4 DEF Protects, Matches
  <1>6. Pairs = {<<v[2], packets_queue[v[1]].src>> : v \in Protects}
        /\ Pairs' = {<<v[2], packets_queue[v[1]].src>> : v \in Protects'}
    BY DEF Pairs, Protects
  <1>7. Pairs' = IF Matches(p) THEN Pairs \cup {<<p, Source>>} ELSE Pairs
    BY <1>4, <1>5, <1>6 DEF Source
  <1>8. ASSUME NEW q \in Policies, NEW s \in Sources
        PROVE  SentSoFar(q, s)' = IF Matches(p) /\ q = p /\ s = Source THEN SentSoFar(q, s) + 1
                                  ELSE SentSoFar(q, s)
    <2>1. SentPairs(q, s)' = IF Matches(p) /\ q = p /\ s = Source THEN SentPairs(q, s) \cup {t}
                             ELSE SentPairs(q, s)
      BY <1>1, <1>4 DEF SentPairs, Matches, Source
    <2>2. t \notin SentPairs(q, s)
      BY <1>1 DEF SentPairs
    <2>3. SentSoFar(q, s)' = Cardinality(SentPairs(q, s)') /\ SentSoFar(q, s) = Cardinality(SentPairs(q, s))
      BY DEF SentSoFar, SentPairs
    <2>4. IsFiniteSet(SentPairs(q, s))
      BY CountsFit DEF DtTypeOK
    <2>5. Cardinality(SentPairs(q, s) \cup {t}) = Cardinality(SentPairs(q, s)) + 1
      BY <2>2, <2>4, FS_AddElement
    <2>. QED BY <2>1, <2>3, <2>5
  <1>. QED BY <1>3, <1>7, <1>8

-----------------------------------------------------------------------------
(* The steps.                                                              *)

\* A window for one policy has no packets for another.
LEMMA OnlyOne ==
  ASSUME Single, NEW p \in Policies, NEW q \in Policies,
         \E k \in DOMAIN packets_queue : packets_queue[k].dst = list_policy[p].ip,
         \E k \in DOMAIN packets_queue : packets_queue[k].dst = list_policy[q].ip
  PROVE  p = q
  <1>. SUFFICES ASSUME p # q PROVE FALSE
    OBVIOUS
  <1>. DEFINE A == {r \in Policies : \E k \in DOMAIN packets_queue :
                      packets_queue[k].dst = list_policy[r].ip}
  <1>1. IsFiniteSet(A)
    <2>1. IsFiniteSet(Policies)
      BY DtSizes, FS_Interval
    <2>. QED BY <2>1, FS_Subset
  <1>2. Cardinality({p, q}) <= Cardinality(A)
    <2>1. {p, q} \in SUBSET A
      OBVIOUS
    <2>. QED BY <1>1, <2>1, FS_Subset
  <1>3. Cardinality({p} \cup {q}) = 2
    <2>1. IsFiniteSet({p}) /\ Cardinality({p}) = 1 /\ q \notin {p}
      BY FS_Singleton
    <2>2. Cardinality({p} \cup {q}) = IF q \in {p} THEN Cardinality({p}) ELSE Cardinality({p}) + 1
      BY <2>1, FS_AddElement
    <2>. QED BY <2>1, <2>2
  <1>4. {p} \cup {q} = {p, q}
    OBVIOUS
  <1>5. Cardinality(A) \in Nat
    BY <1>1, FS_CardinalityType
  <1>6. Cardinality(A) <= 1
    BY DEF Single
  <1>7. Cardinality(A) >= 2
    BY <1>2, <1>3, <1>4
  <1>. HIDE DEF A
  <1>. QED BY ONLY <1>5, <1>6, <1>7

\* A row is written: its address, its count and the number of rows of its policy.
Writes(p, k, x, c, m) ==
  psi' = [psi EXCEPT ![AddressWord(p, k)] = x, ![CountWord(p, k)] = c, ![NumWord(p)] = m]

\* A row of a policy's struct that is written leaves every other row as it was.
LEMMA RowWritten ==
  ASSUME psi \in [Words -> Nat], NEW p \in Policies, NEW k \in 0 .. ROWS - 1,
         NEW x \in Nat, NEW c \in Nat, NEW m \in Nat, Writes(p, k, x, c, m)
  PROVE  /\ psi' \in [Words -> Nat]
         /\ \A q \in Policies :
              /\ Num(q)' = IF q = p THEN m ELSE Num(q)
              /\ \A h \in 0 .. ROWS - 1 :
                   /\ Addr(q, h)' = IF q = p /\ h = k THEN x ELSE Addr(q, h)
                   /\ Cnt(q, h)' = IF q = p /\ h = k THEN c ELSE Cnt(q, h)
  <1>. USE DEF Writes
  <1>1. psi' \in [Words -> Nat]
    OBVIOUS
  <1>2. AddressWord(p, k) \in Words /\ CountWord(p, k) \in Words /\ NumWord(p) \in Words
    BY FieldsApart
  <1>3. ASSUME NEW q \in Policies, NEW h \in 0 .. ROWS - 1
        PROVE  /\ Num(q)' = IF q = p THEN m ELSE Num(q)
               /\ Addr(q, h)' = IF q = p /\ h = k THEN x ELSE Addr(q, h)
               /\ Cnt(q, h)' = IF q = p /\ h = k THEN c ELSE Cnt(q, h)
    <2>1. /\ AddressWord(q, h) \in Words /\ CountWord(q, h) \in Words /\ NumWord(q) \in Words
          /\ AddressWord(q, h) = AddressWord(p, k) => q = p /\ h = k
          /\ CountWord(q, h) = CountWord(p, k) => q = p /\ h = k
          /\ NumWord(q) = NumWord(p) => q = p
          /\ AddressWord(q, h) # CountWord(p, k) /\ AddressWord(q, h) # NumWord(p)
          /\ CountWord(q, h) # NumWord(p)
      BY FieldsApart
    <2>2. /\ AddressWord(p, k) # CountWord(q, h) /\ AddressWord(p, k) # NumWord(q)
          /\ CountWord(p, k) # NumWord(q)
          /\ AddressWord(p, k) # CountWord(p, k) /\ AddressWord(p, k) # NumWord(p)
          /\ CountWord(p, k) # NumWord(p)
      BY FieldsApart
    <2>. QED BY <1>2, <2>1, <2>2 DEF Addr, Cnt, Num
  <1>4. 0 \in 0 .. ROWS - 1
    BY DtSizes
  <1>. QED BY <1>1, <1>3, <1>4

\* A packet for policy p is counted in row k; the rows up to m are now in use.
LEMMA RowsAfterCount ==
  ASSUME DtTypeOK, AtPlace, Table, Fits, NEW p \in Policies, Counting(p), Advance, Matches(p),
         UNCHANGED <<packets_queue, dt_pc, reports>>,
         NEW k \in 0 .. ROWS - 1, NEW m \in Nat, k < m, m <= ROWS, num_ip <= m, num_ip' = m,
         \A h \in InUse(p) : h # k => Addr(p, h) # Source,
         k \in InUse(p) => Addr(p, k) = Source,
         \A h \in 0 .. m - 1 : h \in InUse(p) \/ h = k \/ h < num_ip,
         Writes(p, k, Source, SentSoFar(p, Source) + 1, m)
  PROVE  /\ psi' \in [Words -> Nat]
         /\ \A q \in Policies : Num(q)' <= num_ip'
         /\ FreshRows' /\ RowsCount' /\ RowsApart' /\ RowsThere' /\ ReportsSoFar'
  <1>. DEFINE s == Source
  <1>1. s \in Sources /\ \A q \in Policies : \A t \in Sources :
          SentSoFar(q, t)' = IF q = p /\ t = s THEN SentSoFar(q, t) + 1 ELSE SentSoFar(q, t)
    BY TurnCounts
  <1>2. s \in Nat /\ SentSoFar(p, s) + 1 \in Nat
    <2>1. packets_queue \in Seq(Packets) /\ Len(packets_queue) <= MaxPackets
      BY DEF DtTypeOK
    <2>. HIDE DEF s
    <2>2. SentSoFar(p, s) \in Nat
      BY <1>1, <2>1, CountsFit
    <2>. QED BY <1>1, <2>2, DtSizes
  <1>3. /\ psi' \in [Words -> Nat]
        /\ \A q \in Policies :
              /\ Num(q)' = IF q = p THEN m ELSE Num(q)
              /\ \A h \in 0 .. ROWS - 1 :
                   /\ Addr(q, h)' = IF q = p /\ h = k THEN s ELSE Addr(q, h)
                   /\ Cnt(q, h)' = IF q = p /\ h = k THEN SentSoFar(p, s) + 1 ELSE Cnt(q, h)
    <2>. HIDE DEF s
    <2>1. psi \in [Words -> Nat]
      BY DEF DtTypeOK
    <2>2. Writes(p, k, s, SentSoFar(p, s) + 1, m)
      BY DEF s
    <2>. PICK x \in Nat, c \in Nat : x = s /\ c = SentSoFar(p, s) + 1
      BY <1>2
    <2>3. Writes(p, k, x, c, m)
      BY <2>2 DEF Writes
    <2>4. /\ psi' \in [Words -> Nat]
          /\ \A q \in Policies :
                /\ Num(q)' = IF q = p THEN m ELSE Num(q)
                /\ \A h \in 0 .. ROWS - 1 :
                     /\ Addr(q, h)' = IF q = p /\ h = k THEN x ELSE Addr(q, h)
                     /\ Cnt(q, h)' = IF q = p /\ h = k THEN c ELSE Cnt(q, h)
      BY ONLY <2>1, <2>3, RowWritten, p \in Policies, k \in 0 .. ROWS - 1, m \in Nat, x \in Nat,
         c \in Nat
    <2>. QED BY <2>4
  <1>4. /\ num_ip \in Nat /\ ROWS \in Nat
        /\ \A q \in Policies : Num(q) \in Nat /\ Num(q) <= num_ip
    <2>1. \A q \in Policies : NumWord(q) \in Words
      <3>1. 0 \in 0 .. ROWS - 1
        BY DtSizes
      <3>. QED BY <3>1, FieldsApart
    <2>. QED BY <2>1, DtSizes DEF DtTypeOK, Table, Num
  <1>5. \A q \in Policies : /\ InUse(q) = 0 .. Num(q) - 1 /\ InUse(q)' = 0 .. Num(q)' - 1
                            /\ InUse(q) \subseteq 0 .. ROWS - 1 /\ InUse(q)' \subseteq 0 .. ROWS - 1
                            /\ InUse(q) \subseteq InUse(q)'
                            /\ q # p => InUse(q)' = InUse(q)
    <2>. TAKE q \in Policies
    <2>1. InUse(q) = 0 .. Num(q) - 1 /\ InUse(q)' = 0 .. Num(q)' - 1
      BY DEF InUse, Num
    <2>2. Num(q) \in Nat /\ Num(q)' \in Nat /\ Num(q) <= num_ip /\ num_ip <= m /\ Num(q) <= Num(q)'
          /\ Num(q)' <= m /\ (q # p => Num(q)' = Num(q))
      BY <1>3, <1>4
    <2>. QED BY ONLY <1>4, <2>1, <2>2, m \in Nat, m <= ROWS
  <1>6. \A q \in Policies : Num(q)' <= num_ip'
    BY <1>3, <1>4
  <1>. HIDE DEF s
  <1>s. s = Source
    BY DEF s
  <1>7. k \in InUse(p)' /\ Num(p)' = m
    BY <1>3, <1>5
  <1>8. ASSUME NEW h \in InUse(p)', h # k
        PROVE  \/ h \in InUse(p) /\ Addr(p, h) # s
               \/ Addr(p, h) = 0 /\ Cnt(p, h) = 0 /\ 0 \notin Sources
    <2>1. CASE h \in InUse(p)
      BY <1>8, <1>s, <2>1
    <2>2. CASE h \notin InUse(p)
      <3>1. h \in 0 .. m - 1 /\ h < num_ip /\ h >= Num(p) /\ h \in 0 .. ROWS - 1
        <4>1. h \in 0 .. m - 1
          BY <1>5, <1>7
        <4>2. h < num_ip
          BY <1>8, <2>2, <4>1
        <4>3. h >= Num(p)
          BY <1>4, <1>5, <2>2, <4>1
        <4>. QED BY <1>5, <4>1, <4>2, <4>3
      <3>2. ~ (Num(p) = num_ip)
        BY <1>4, <3>1
      <3>3. \E j \in DOMAIN packets_queue : packets_queue[j].dst = list_policy[p].ip
        BY DEF Counting, Matches
      <3>. QED BY <3>1, <3>2, <3>3 DEF Table, FreshRows
    <2>. QED BY <2>1, <2>2
  <1>9. FreshRows'
    <2>1. CASE Single /\ \A q \in Policies :
                 (\E j \in DOMAIN packets_queue : packets_queue[j].dst = list_policy[q].ip)
                   => Num(q) = num_ip
      <3>1. Single'
        BY <2>1 DEF Single
      <3>2. ASSUME NEW q \in Policies,
                   \E j \in DOMAIN packets_queue : packets_queue[j].dst = list_policy[q].ip
            PROVE  Num(q)' = num_ip'
        <4>1. q = p
          BY <2>1, <3>2, OnlyOne DEF Counting, Matches
        <4>. QED BY <1>7, <4>1
      <3>. QED BY <3>1, <3>2 DEF FreshRows
    <2>2. CASE /\ 0 \notin Sources
               /\ \A q \in Policies : \A h \in 0 .. ROWS - 1 :
                    h >= Num(q) => Addr(q, h) = 0 /\ Cnt(q, h) = 0
      <3>1. ASSUME NEW q \in Policies, NEW h \in 0 .. ROWS - 1, h >= Num(q)'
            PROVE  Addr(q, h)' = 0 /\ Cnt(q, h)' = 0
        <4>1. h >= Num(q)
          BY <1>3, <1>4, <3>1
        <4>2. q = p => h # k
          BY <1>7, <3>1
        <4>. QED BY <1>3, <2>2, <4>1, <4>2
      <3>. QED BY <2>2, <3>1 DEF FreshRows
    <2>. QED BY <2>1, <2>2 DEF Table, FreshRows
  <1>10. RowsCount'
    <2>1. ASSUME NEW q \in Policies, NEW h \in InUse(q)', NEW a, a = Addr(q, h)'
          PROVE  \/ a \in Sources /\ Cnt(q, h)' = SentSoFar(q, a)'
                 \/ a = 0 /\ Cnt(q, h)' = 0 /\ 0 \notin Sources
      <3>0. h \in 0 .. ROWS - 1
        BY <1>5
      <3>1. CASE q # p
        <4>1. h \in InUse(q) /\ a = Addr(q, h) /\ Cnt(q, h)' = Cnt(q, h)
          BY <1>3, <1>5, <2>1, <3>0, <3>1
        <4>2. \/ a \in Sources /\ Cnt(q, h) = SentSoFar(q, a)
              \/ a = 0 /\ Cnt(q, h) = 0 /\ 0 \notin Sources
          BY <4>1 DEF Table, RowsCount
        <4>3. a \in Sources => SentSoFar(q, a)' = SentSoFar(q, a)
          BY <1>1, <3>1
        <4>. QED BY <4>1, <4>2, <4>3
      <3>2. CASE q = p /\ h = k
        <4>1. a = s /\ Cnt(q, h)' = SentSoFar(p, s) + 1
          BY <1>3, <2>1, <3>2
        <4>2. SentSoFar(p, a)' = SentSoFar(p, s) + 1
          BY <1>1, <4>1
        <4>. QED BY <1>1, <3>2, <4>1, <4>2
      <3>3. CASE q = p /\ h # k
        <4>1. a = Addr(p, h) /\ Cnt(p, h)' = Cnt(p, h)
          BY <1>3, <2>1, <3>0, <3>3
        <4>2. \/ h \in InUse(p) /\ a # s
              \/ a = 0 /\ Cnt(p, h) = 0 /\ 0 \notin Sources
          BY <1>8, <3>3, <4>1
        <4>3. CASE h \in InUse(p) /\ a # s
          <5>1. \/ a \in Sources /\ Cnt(p, h) = SentSoFar(p, a)
                \/ a = 0 /\ Cnt(p, h) = 0 /\ 0 \notin Sources
            BY <4>1, <4>3 DEF Table, RowsCount
          <5>2. a \in Sources => SentSoFar(p, a)' = SentSoFar(p, a)
            BY <1>1, <4>3
          <5>. QED BY <3>3, <4>1, <5>1, <5>2
        <4>. QED BY <3>3, <4>1, <4>2, <4>3
      <3>. QED BY <3>1, <3>2, <3>3
    <2>. SUFFICES ASSUME NEW q \in Policies, NEW h \in InUse(q)'
                  PROVE  \/ Addr(q, h)' \in Sources /\ Cnt(q, h)' = SentSoFar(q, Addr(q, h))'
                         \/ Addr(q, h)' = 0 /\ Cnt(q, h)' = 0 /\ 0 \notin Sources
      BY DEF RowsCount
    <2>. PICK a : a = Addr(q, h)'
      OBVIOUS
    <2>2. SentSoFar(q, Addr(q, h))' = SentSoFar(q, a)'
      BY DEF SentSoFar
    <2>. QED BY <2>1, <2>2
  <1>11. RowsApart'
    <2>1. ASSUME NEW q \in Policies, NEW g \in InUse(q)', NEW h \in InUse(q)',
                 Addr(q, g)' \in Sources, Addr(q, g)' = Addr(q, h)'
          PROVE  g = h
      <3>0. g \in 0 .. ROWS - 1 /\ h \in 0 .. ROWS - 1
        BY <1>5
      <3>1. CASE q # p
        BY <1>3, <1>5, <2>1, <3>0, <3>1 DEF Table, RowsApart
      <3>2. CASE q = p
        <4>1. \A j \in InUse(p)' : j # k => /\ Addr(p, j)' = Addr(p, j) /\ Addr(p, j) # s
                                            /\ Addr(p, j) \in Sources => j \in InUse(p)
          <5>1. ASSUME NEW j \in InUse(p)', j # k
                PROVE  /\ Addr(p, j)' = Addr(p, j) /\ Addr(p, j) # s
                       /\ Addr(p, j) \in Sources => j \in InUse(p)
            <6>1. Addr(p, j)' = Addr(p, j)
              BY <1>3, <1>5, <5>1
            <6>2. \/ j \in InUse(p) /\ Addr(p, j) # s
                  \/ Addr(p, j) = 0 /\ 0 \notin Sources
              BY <1>8, <5>1
            <6>. QED BY <1>1, <6>1, <6>2
          <5>. QED BY <5>1
        <4>2. Addr(p, k)' = s
          BY <1>3
        <4>3. CASE g = k \/ h = k
          BY <2>1, <3>2, <4>1, <4>2, <4>3
        <4>4. CASE g # k /\ h # k
          BY <2>1, <3>2, <4>1, <4>4 DEF Table, RowsApart
        <4>. QED BY <4>3, <4>4
      <3>. QED BY <3>1, <3>2
    <2>. QED BY <2>1 DEF RowsApart
  <1>12. RowsThere'
    <2>1. ASSUME NEW q \in Policies, NEW t \in Sources, SentSoFar(q, t)' # 0
          PROVE  \E h \in InUse(q)' : Addr(q, h)' = t
      <3>1. CASE q = p /\ t = s
        BY <1>3, <1>7, <3>1
      <3>2. CASE ~ (q = p /\ t = s)
        <4>1. SentSoFar(q, t) # 0
          BY <1>1, <2>1, <3>2
        <4>. PICK h \in InUse(q) : Addr(q, h) = t
          BY <4>1 DEF Table, RowsThere
        <4>2. h \in InUse(q)' /\ h \in 0 .. ROWS - 1
          BY <1>5
        <4>3. ~ (q = p /\ h = k)
          BY <1>s, <3>2
        <4>. QED BY <1>3, <4>2, <4>3
      <3>. QED BY <3>1, <3>2
    <2>. QED BY <2>1 DEF RowsThere
  <1>13. ReportsSoFar'
    BY DEF Counting, Table, ReportsSoFar
  <1>. QED BY <1>3, <1>6, <1>9, <1>10, <1>11, <1>12, <1>13

\* The (policy, source) pairs of a queue's packets are finitely many.
LEMMA PairsAreFinite ==
  ASSUME packets_queue \in Seq(Packets), NEW W \in SUBSET ((DOMAIN packets_queue) \X Policies)
  PROVE  IsFiniteSet({<<v[2], packets_queue[v[1]].src>> : v \in W})
  <1>. PICK n \in Nat : n = Len(packets_queue) /\ DOMAIN packets_queue = 1 .. n
    OBVIOUS
  <1>1. IsFiniteSet(1 .. n) /\ IsFiniteSet(Policies)
    BY DtSizes, FS_Interval
  <1>2. IsFiniteSet((1 .. n) \X Policies)
    BY <1>1, FS_Product
  <1>3. IsFiniteSet(W)
    BY <1>2, FS_Subset
  <1>. DEFINE T == {<<v[2], packets_queue[v[1]].src>> : v \in W}
              f == [v \in W |-> <<v[2], packets_queue[v[1]].src>>]
  <1>4. f \in Surjection(W, T)
    BY DEF Surjection
  <1>. HIDE DEF f, T
  <1>5. IsFiniteSet(T)
    BY <1>3, <1>4, FS_Surjection
  <1>. QED BY <1>5 DEF T

\* Pairs only grow.
LEMMA PairsGrow ==
  ASSUME DtTypeOK, UNCHANGED packets_queue, Behind \subseteq Behind'
  PROVE  /\ Pairs \subseteq Pairs' /\ IsFiniteSet(Pairs) /\ IsFiniteSet(Pairs')
         /\ Cardinality(Pairs) <= Cardinality(Pairs')
         /\ Fits' => Fits
  <1>1. Pairs = {<<v[2], packets_queue[v[1]].src>> : v \in Protects}
        /\ Pairs' = {<<v[2], packets_queue[v[1]].src>> : v \in Protects'}
    BY DEF Pairs, Protects
  <1>2. Protects \subseteq Protects'
    BY DEF Protects
  <1>3. Pairs \subseteq Pairs'
    BY <1>1, <1>2
  <1>4. Protects' \in SUBSET ((DOMAIN packets_queue) \X Policies)
    BY DEF Protects, Behind
  <1>5. IsFiniteSet(Pairs')
    <2>. PICK W : W = Protects'
      OBVIOUS
    <2>1. IsFiniteSet({<<v[2], packets_queue[v[1]].src>> : v \in W})
      BY <1>4, PairsAreFinite DEF DtTypeOK
    <2>. QED BY <1>1, <2>1
  <1>6. IsFiniteSet(Pairs) /\ Cardinality(Pairs) <= Cardinality(Pairs')
    BY <1>3, <1>5, FS_Subset
  <1>7. Cardinality(Pairs) \in Nat /\ Cardinality(Pairs') \in Nat /\ ROWS \in Nat
    BY <1>5, <1>6, FS_CardinalityType, DtSizes
  <1>. QED BY <1>3, <1>5, <1>6, <1>7 DEF Fits

\* After a step, too, no count reaches the width of a word.
LEMMA SentFits ==
  ASSUME packets_queue' \in Seq(Packets), Len(packets_queue') <= MaxPackets,
         NEW p \in Policies, NEW s \in Sources
  PROVE  SentSoFar(p, s)' < Word
  <1>. PICK n \in Nat : n = Len(packets_queue') /\ DOMAIN packets_queue' = 1 .. n
    OBVIOUS
  <1>. PICK V : V = SentPairs(p, s)'
    OBVIOUS
  <1>1. V \in SUBSET ((1 .. n) \X {p})
    BY DEF SentPairs, Behind
  <1>2. IsFiniteSet({p}) /\ Cardinality({p}) = 1
    BY FS_Singleton
  <1>3. IsFiniteSet(1 .. n) /\ Cardinality(1 .. n) = n
    <2>1. 1 \in Int /\ n \in Int
      OBVIOUS
    <2>2. IsFiniteSet(1 .. n) /\ Cardinality(1 .. n) = IF 1 > n THEN 0 ELSE n - 1 + 1
      BY ONLY <2>1, FS_Interval
    <2>. QED BY ONLY <2>2, n \in Nat
  <1>4. IsFiniteSet((1 .. n) \X {p}) /\ Cardinality((1 .. n) \X {p}) = n
    <2>1. /\ IsFiniteSet((1 .. n) \X {p})
          /\ Cardinality((1 .. n) \X {p}) = Cardinality(1 .. n) * Cardinality({p})
      BY ONLY <1>2, <1>3, FS_Product
    <2>. QED BY ONLY <1>2, <1>3, <2>1, n \in Nat
  <1>5. IsFiniteSet(V) /\ Cardinality(V) <= n
    BY <1>1, <1>4, FS_Subset
  <1>6. Cardinality(V) \in Nat
    BY <1>5, FS_CardinalityType
  <1>7. SentSoFar(p, s)' = Cardinality(V)
    BY DEF SentSoFar, SentPairs
  <1>. QED BY <1>5, <1>6, <1>7, DtSizes

\* The rows in use are rows of psi.
LEMMA RowsInUse ==
  ASSUME DtTypeOK, Table, Fits
  PROVE  /\ num_ip \in Nat /\ num_ip <= ROWS
         /\ \A p \in Policies : /\ Num(p) \in Nat /\ Num(p) <= num_ip
                                /\ InUse(p) = 0 .. Num(p) - 1
                                /\ InUse(p) \subseteq 0 .. ROWS - 1
  <1>1. num_ip \in Nat /\ Cardinality(Pairs) \in Nat /\ ROWS \in Nat /\ num_ip <= ROWS
    <2>1. num_ip \in Nat /\ Cardinality(Pairs) \in Nat /\ ROWS \in Nat
      BY DtSizes, CountsFit DEF DtTypeOK
    <2>. QED BY <2>1 DEF Table, Fits
  <1>2. ASSUME NEW p \in Policies
        PROVE  /\ Num(p) \in Nat /\ Num(p) <= num_ip
               /\ InUse(p) = 0 .. Num(p) - 1 /\ InUse(p) \subseteq 0 .. ROWS - 1
    <2>1. NumWord(p) \in Words
      <3>1. 0 \in 0 .. ROWS - 1
        BY DtSizes
      <3>. QED BY <3>1, FieldsApart
    <2>2. Num(p) \in Nat /\ Num(p) <= num_ip
      BY <2>1 DEF DtTypeOK, Table, Num
    <2>3. InUse(p) = 0 .. Num(p) - 1
      BY DEF InUse, Num
    <2>. QED BY ONLY <1>1, <2>2, <2>3
  <1>. QED BY <1>1, <1>2

\* The search finds a row where there is one.
LEMMA SearchFinds ==
  ASSUME DtTypeOK, Table, Fits, NEW p \in Policies, NEW s \in Sources, RowOf(p, s) = {}
  PROVE  \A h \in InUse(p) : Addr(p, h) # s
  <1>. SUFFICES ASSUME NEW h \in InUse(p), Addr(p, h) = s PROVE FALSE
    OBVIOUS
  <1>. DEFINE T == {k \in InUse(p) : Addr(p, k) = s}
  <1>1. T \in SUBSET Nat /\ T # {}
    BY RowsInUse
  <1>2. PICK k \in T : \A g \in T : k <= g
    BY ONLY <1>1, LeastElement
  <1>3. k \in RowOf(p, s)
    BY <1>2 DEF RowOf, Addr
  <1>. QED BY <1>3

\* The packet is not for the policy.
LEMMA PassKeeps == ASSUME DtInv, NEW p \in Policies, Pass(p) PROVE DtInv'
  <1>0. DtTypeOK /\ AtPlace /\ Counting(p) /\ Advance /\ ~ Matches(p)
        /\ UNCHANGED <<packets_queue, psi, num_ip, dt_pc, reports>>
    BY DEF DtInv, Pass
  <1>1. DtTypeOK' /\ AtPlace'
    BY <1>0, TurnIsBehind DEF DtTypeOK
  <1>2. Pairs' = Pairs /\ \A q \in Policies : \A s \in Sources : SentSoFar(q, s)' = SentSoFar(q, s)
    BY <1>0, TurnCounts
  <1>3. ASSUME Table PROVE Table'
    <2>1. \A q \in Policies : InUse(q)' = InUse(q) /\ Num(q)' = Num(q) /\
            \A k : Addr(q, k)' = Addr(q, k) /\ Cnt(q, k)' = Cnt(q, k)
      BY <1>0 DEF InUse, Num, Addr, Cnt
    <2>2. FreshRows'
      BY <1>0, <1>3, <2>1 DEF Table, FreshRows, Single
    <2>3. RowsCount'
      <3>. SUFFICES ASSUME NEW q \in Policies, NEW k \in InUse(q)'
                    PROVE  \/ Addr(q, k)' \in Sources /\ Cnt(q, k)' = SentSoFar(q, Addr(q, k))'
                           \/ Addr(q, k)' = 0 /\ Cnt(q, k)' = 0 /\ 0 \notin Sources
        BY DEF RowsCount
      <3>. PICK a : a = Addr(q, k)
        OBVIOUS
      <3>1. SentSoFar(q, Addr(q, k))' = SentSoFar(q, a)'
        BY <2>1 DEF SentSoFar
      <3>2. \/ a \in Sources /\ Cnt(q, k) = SentSoFar(q, a)
            \/ a = 0 /\ Cnt(q, k) = 0 /\ 0 \notin Sources
        BY <1>3, <2>1 DEF Table, RowsCount
      <3>. QED BY <1>2, <2>1, <3>1, <3>2
    <2>4. RowsApart'
      BY <1>3, <2>1 DEF Table, RowsApart
    <2>5. RowsThere'
      BY <1>2, <1>3, <2>1 DEF Table, RowsThere
    <2>6. ReportsSoFar'
      BY <1>0, <1>3 DEF Table, ReportsSoFar, Counting
    <2>. QED BY <1>0, <1>2, <1>3, <2>1, <2>2, <2>3, <2>4, <2>5, <2>6 DEF Table
  <1>. QED BY <1>1, <1>2, <1>3 DEF DtInv, Fits

\* The source has a row.
LEMMA CountKnownKeeps == ASSUME DtInv, NEW p \in Policies, CountKnown(p) PROVE DtInv'
  <1>. PICK k \in RowOf(p, Source) :
         psi' = [psi EXCEPT ![CountWord(p, k)] = (@ + 1) % Word, ![NumWord(p)] = num_ip]
    BY DEF CountKnown
  <1>0. DtTypeOK /\ AtPlace /\ Counting(p) /\ Advance /\ Matches(p)
        /\ UNCHANGED <<packets_queue, num_ip, dt_pc, reports>>
    BY DEF DtInv, CountKnown
  <1>1. AtPlace' /\ Behind \subseteq Behind'
    BY <1>0, TurnIsBehind
  <1>2. k \in InUse(p) /\ Addr(p, k) = Source
    BY DEF RowOf, Addr
  <1>3. DtTypeOK'
    <2>1. CountWord(p, k) \in Words
      BY <1>2 DEF CountKnown, Inside
    <2>2. (psi[CountWord(p, k)] + 1) % Word \in Nat
      <3>1. psi[CountWord(p, k)] + 1 \in Int
        BY <1>0, <2>1 DEF DtTypeOK
      <3>2. (psi[CountWord(p, k)] + 1) % Word \in 0 .. Word - 1
        BY <3>1, DtSizes, ModDef
      <3>. QED BY <3>2
    <2>3. psi' \in [Words -> Nat]
      BY <1>0, <2>1, <2>2 DEF DtTypeOK
    <2>. QED BY <1>0, <2>3 DEF DtTypeOK
  <1>4. Fits' => Fits
    BY <1>0, <1>1, PairsGrow
  <1>5. ASSUME Fits' PROVE Table'
    <2>1. Table /\ Fits
      BY <1>4, <1>5 DEF DtInv
    <2>2. Source \in Sources
      BY <1>0, TurnCounts
    <2>3. /\ num_ip \in Nat /\ num_ip <= ROWS /\ Num(p) \in Nat /\ Num(p) <= num_ip
          /\ InUse(p) = 0 .. Num(p) - 1 /\ InUse(p) \subseteq 0 .. ROWS - 1
      BY <1>0, <2>1, RowsInUse
    <2>4. k \in 0 .. ROWS - 1 /\ k < num_ip
      BY <1>2, <2>3
    <2>5. \A h \in InUse(p) : h # k => Addr(p, h) # Source
      BY <1>2, <2>1, <2>2 DEF Table, RowsApart
    <2>6. Cnt(p, k) = SentSoFar(p, Source) /\ SentSoFar(p, Source) \in Nat
      <3>1. Cnt(p, k) = SentSoFar(p, Source)
        <4>. PICK s : s = Source
          OBVIOUS
        <4>1. \/ Cnt(p, k) = SentSoFar(p, s)
              \/ s = 0 /\ 0 \notin Sources
          BY <1>2, <2>1 DEF Table, RowsCount
        <4>. QED BY <2>2, <4>1
      <3>2. SentSoFar(p, Source) \in Nat
        BY <1>0, <2>2, CountsFit DEF DtTypeOK
      <3>. QED BY <3>1, <3>2
    <2>7. SentSoFar(p, Source) + 1 < Word
      <3>. PICK s \in Sources : s = Source
        BY <2>2
      <3>1. SentSoFar(p, s)' = SentSoFar(p, s) + 1
        BY <1>0, TurnCounts
      <3>2. SentSoFar(p, s)' < Word
        <4>1. packets_queue' \in Seq(Packets) /\ Len(packets_queue') <= MaxPackets
          BY <1>3 DEF DtTypeOK
        <4>. QED BY <4>1, SentFits
      <3>. QED BY <3>1, <3>2
    <2>8. (Cnt(p, k) + 1) % Word = SentSoFar(p, Source) + 1
      <3>. PICK c \in Nat : c = SentSoFar(p, Source) + 1
        BY <2>6
      <3>1. c \in 0 .. Word - 1
        BY <2>7, DtSizes
      <3>2. (Word * 0 + c) % Word = c
        BY ONLY <3>1, ModUnique, DtSizes, 0 \in Int
      <3>3. Word * 0 + c = c
        BY DtSizes
      <3>. QED BY <2>6, <3>2, <3>3
    <2>9. Writes(p, k, Source, SentSoFar(p, Source) + 1, num_ip)
      <3>1. psi' = [psi EXCEPT ![CountWord(p, k)] = SentSoFar(p, Source) + 1, ![NumWord(p)] = num_ip]
        BY <2>8 DEF Cnt
      <3>2. psi = [psi EXCEPT ![AddressWord(p, k)] = Source]
        BY <1>0, <1>2 DEF DtTypeOK, Addr
      <3>. QED BY <3>1, <3>2 DEF Writes
    <2>10. /\ \A q \in Policies : Num(q)' <= num_ip'
           /\ FreshRows' /\ RowsCount' /\ RowsApart' /\ RowsThere' /\ ReportsSoFar'
      <3>. PICK m \in Nat : m = num_ip
        BY <2>3
      <3>1. /\ k < m /\ m <= ROWS /\ num_ip <= m /\ num_ip' = m
            /\ \A h \in 0 .. m - 1 : h \in InUse(p) \/ h = k \/ h < num_ip
            /\ Writes(p, k, Source, SentSoFar(p, Source) + 1, m)
        BY <1>0, <2>3, <2>4, <2>9
      <3>. QED BY <1>0, <1>2, <2>1, <2>4, <2>5, <3>1, RowsAfterCount
    <2>11. num_ip' <= Cardinality(Pairs')
      <3>1. num_ip <= Cardinality(Pairs) /\ Cardinality(Pairs) <= Cardinality(Pairs')
        BY <1>0, <1>1, <2>1, PairsGrow DEF Table
      <3>2. Cardinality(Pairs) \in Nat /\ Cardinality(Pairs') \in Nat
        BY <1>0, <1>1, PairsGrow, FS_CardinalityType
      <3>. QED BY <1>0, <2>3, <3>1, <3>2
    <2>. QED BY <1>0, <2>10, <2>11 DEF Table, Counting
  <1>. QED BY <1>1, <1>3, <1>5 DEF DtInv

\* The source has none.
LEMMA CountNewKeeps == ASSUME DtInv, NEW p \in Policies, CountNew(p) PROVE DtInv'
  <1>0. DtTypeOK /\ AtPlace /\ Counting(p) /\ Advance /\ Matches(p)
        /\ UNCHANGED <<packets_queue, dt_pc, reports>> /\ num_ip' = num_ip + 1 /\ num_ip \in Nat
    BY DEF DtInv, CountNew, DtTypeOK
  <1>1. AtPlace' /\ Behind \subseteq Behind'
    BY <1>0, TurnIsBehind
  <1>2. Source \in Sources /\ Source \in Nat
    BY <1>0, TurnCounts, DtSizes
  <1>3. DtTypeOK'
    <2>1. psi' = [psi EXCEPT ![AddressWord(p, num_ip)] = Source, ![CountWord(p, num_ip)] = 1,
                             ![NumWord(p)] = num_ip + 1]
      BY DEF CountNew
    <2>2. psi \in [Words -> Nat] /\ num_ip + 1 \in Nat /\ 1 \in Nat
      BY <1>0 DEF DtTypeOK
    <2>3. psi' \in [Words -> Nat]
      BY ONLY <1>2, <2>1, <2>2
    <2>. QED BY <1>0, <2>3 DEF DtTypeOK
  <1>4. Fits' => Fits
    BY <1>0, <1>1, PairsGrow
  <1>5. ASSUME Fits' PROVE Table'
    <2>1. Table /\ Fits
      BY <1>4, <1>5 DEF DtInv
    <2>2. /\ num_ip <= ROWS /\ ROWS \in Nat /\ Num(p) \in Nat /\ Num(p) <= num_ip
          /\ InUse(p) = 0 .. Num(p) - 1 /\ InUse(p) \subseteq 0 .. ROWS - 1
      BY <1>0, <2>1, RowsInUse, DtSizes
    <2>3. \A h \in InUse(p) : Addr(p, h) # Source
      <3>. PICK s \in Sources : s = Source
        BY <1>2
      <3>1. RowOf(p, s) = {}
        BY DEF CountNew
      <3>. QED BY <1>0, <2>1, <3>1, SearchFinds
    <2>4. SentSoFar(p, Source) = 0
      <3>. PICK s \in Sources : s = Source
        BY <1>2
      <3>1. SentSoFar(p, s) # 0 => \E h \in InUse(p) : Addr(p, h) = s
        BY <2>1 DEF Table, RowsThere
      <3>. QED BY <2>3, <3>1
    <2>5. num_ip + 1 <= Cardinality(Pairs') /\ Cardinality(Pairs') \in Nat
      <3>. PICK s \in Sources : s = Source
        BY <1>2
      <3>1. <<p, s>> \notin Pairs
        BY <1>0, <2>4, CountsFit DEF DtTypeOK
      <3>2. Pairs' = Pairs \cup {<<p, s>>}
        BY <1>0, TurnCounts
      <3>3. IsFiniteSet(Pairs) /\ Cardinality(Pairs) \in Nat
        BY <1>0, CountsFit DEF DtTypeOK
      <3>4. Cardinality(Pairs') = Cardinality(Pairs) + 1
        BY <3>1, <3>2, <3>3, FS_AddElement
      <3>5. num_ip <= Cardinality(Pairs)
        BY <2>1 DEF Table
      <3>. QED BY <1>0, <3>3, <3>4, <3>5
    <2>6. num_ip + 1 <= ROWS
      BY <1>0, <1>5, <2>2, <2>5 DEF Fits
    <2>7. num_ip \in 0 .. ROWS - 1 /\ num_ip \notin InUse(p)
      BY <1>0, <2>2, <2>6
    <2>8. /\ \A q \in Policies : Num(q)' <= num_ip'
          /\ FreshRows' /\ RowsCount' /\ RowsApart' /\ RowsThere' /\ ReportsSoFar'
      <3>. PICK k \in 0 .. ROWS - 1, m \in Nat : k = num_ip /\ m = num_ip + 1
        BY <1>0, <2>7
      <3>1. Writes(p, k, Source, SentSoFar(p, Source) + 1, m)
        BY <2>4 DEF CountNew, Writes
      <3>2. /\ k < m /\ m <= ROWS /\ num_ip <= m /\ num_ip' = m
            /\ \A h \in 0 .. m - 1 : h \in InUse(p) \/ h = k \/ h < num_ip
            /\ k \notin InUse(p)
        BY <1>0, <2>6, <2>7
      <3>3. UNCHANGED <<packets_queue, dt_pc, reports>>
        BY <1>0
      <3>. QED BY <1>0, <2>1, <2>3, <3>1, <3>2, <3>3, RowsAfterCount
    <2>. QED BY <1>0, <2>5, <2>8 DEF Table, Counting
  <1>. QED BY <1>1, <1>3, <1>5 DEF DtInv

\* Nothing of the table changes.
LEMMA TableKept ==
  ASSUME DtTypeOK, Table, UNCHANGED <<packets_queue, psi, num_ip>>, Behind' = Behind,
         dt_pc' # "smashed", ReportsSoFar'
  PROVE  Table' /\ Pairs' = Pairs
  <1>1. Pairs' = Pairs /\ \A q \in Policies : \A s : SentSoFar(q, s)' = SentSoFar(q, s)
    BY DEF Pairs, SentSoFar
  <1>2. \A q \in Policies : InUse(q)' = InUse(q) /\ Num(q)' = Num(q) /\
          \A k : Addr(q, k)' = Addr(q, k) /\ Cnt(q, k)' = Cnt(q, k)
    BY DEF InUse, Num, Addr, Cnt
  <1>3. FreshRows'
    BY <1>2 DEF Table, FreshRows, Single
  <1>4. RowsCount'
    <2>. SUFFICES ASSUME NEW q \in Policies, NEW k \in InUse(q)'
                  PROVE  \/ Addr(q, k)' \in Sources /\ Cnt(q, k)' = SentSoFar(q, Addr(q, k))'
                         \/ Addr(q, k)' = 0 /\ Cnt(q, k)' = 0 /\ 0 \notin Sources
      BY DEF RowsCount
    <2>. PICK a : a = Addr(q, k)
      OBVIOUS
    <2>1. SentSoFar(q, Addr(q, k))' = SentSoFar(q, a)'
      BY <1>2 DEF SentSoFar
    <2>2. \/ a \in Sources /\ Cnt(q, k) = SentSoFar(q, a)
          \/ a = 0 /\ Cnt(q, k) = 0 /\ 0 \notin Sources
      BY <1>2 DEF Table, RowsCount
    <2>. QED BY <1>1, <1>2, <2>1, <2>2
  <1>5. RowsApart' /\ RowsThere'
    BY <1>1, <1>2 DEF Table, RowsApart, RowsThere
  <1>. QED BY <1>1, <1>2, <1>3, <1>4, <1>5 DEF Table

\* The loops end, and the verdict begins.
LEMMA EndCountKeeps == ASSUME DtInv, EndCount PROVE DtInv'
  <1>. PICK n \in Nat : n = Len(packets_queue) /\ DOMAIN packets_queue = 1 .. n
    BY DEF DtInv, DtTypeOK
  <1>. PICK i \in Nat, j \in Nat : at = <<i, j>>
    BY DEF DtInv, AtPlace
  <1>1. i > n
    BY DEF DtInv, AtPlace, EndCount
  <1>2. Behind' = Behind
    <2>1. Behind = {v \in (1 .. n) \X Policies : v[1] < i \/ (v[1] = i /\ v[2] < j)}
      BY DEF Behind, EndCount
    <2>2. Behind' = (1 .. n) \X Policies
      BY DEF Behind, EndCount
    <2>3. \A v \in (1 .. n) \X Policies : v[1] < i
      BY <1>1
    <2>. QED BY <2>1, <2>2, <2>3
  <1>3. DtTypeOK' /\ AtPlace'
    BY DtSizes DEF DtInv, DtTypeOK, AtPlace, EndCount
  <1>4. ASSUME Table PROVE ReportsSoFar'
    BY <1>4, DtSizes DEF Table, ReportsSoFar, EndCount
  <1>5. ASSUME Table PROVE Table' /\ Pairs' = Pairs
    BY <1>2, <1>4, <1>5, TableKept DEF DtInv, EndCount
  <1>6. Pairs' = Pairs
    BY <1>2 DEF Pairs, EndCount
  <1>. QED BY <1>3, <1>5, <1>6 DEF DtInv, Fits

\* One policy is judged.
LEMMA JudgeKeeps == ASSUME DtInv, NEW p \in Policies, Judge(p) PROVE DtInv'
  <1>. PICK i \in Nat, j \in Nat : at = <<i, j>>
    BY DEF DtInv, AtPlace
  <1>1. Behind' = Behind
    BY DEF Behind, Judge
  <1>2. i = p /\ at' = <<p + 1, 1>> /\ p \in Nat
    BY DtSizes DEF Judge
  <1>3. DtTypeOK' /\ AtPlace'
    BY <1>2, DtSizes DEF DtInv, DtTypeOK, AtPlace, Judge
  <1>4. \A q, k : InUse(q)' = InUse(q) /\ Line(q, k)' = Line(q, k) /\ Rate(q, k)' = Rate(q, k)
    BY DEF InUse, Line, Rate, Addr, Judge
  <1>5. reports' = reports \cup {Line(p, k) : k \in {h \in InUse(p) : Rate(p, h) > Threshold(p)}}
    BY DEF Judge, Line, Addr
  <1>6. ASSUME Table PROVE ReportsSoFar'
    <2>1. \A r \in reports' : \E q \in Policies : \E k \in InUse(q)' :
            r = Line(q, k)' /\ Rate(q, k)' > Threshold(q)
      <3>1. ASSUME NEW r \in reports
            PROVE  \E q \in Policies : \E k \in InUse(q) : r = Line(q, k) /\ Rate(q, k) > Threshold(q)
        BY <1>6 DEF Table, ReportsSoFar
      <3>. QED BY <1>4, <1>5, <3>1
    <2>2. ASSUME NEW q \in Policies, q < p + 1, NEW k \in InUse(q), Rate(q, k) > Threshold(q)
          PROVE  Line(q, k) \in reports'
      <3>1. CASE q = p
        BY <1>5, <2>2, <3>1
      <3>2. CASE q # p
        <4>1. q < i
          BY <1>2, <2>2, <3>2, DtSizes
        <4>. QED BY <1>5, <1>6, <2>2, <4>1 DEF Table, ReportsSoFar, Judge
      <3>. QED BY <3>1, <3>2
    <2>3. \A q \in Policies : q < at'[1] =>
            \A k \in InUse(q)' : Rate(q, k)' > Threshold(q) => Line(q, k)' \in reports'
      BY <1>2, <1>4, <2>2
    <2>4. dt_pc' = "report" /\ \A q : Threshold(q)' = Threshold(q)
      BY DEF Judge, Threshold
    <2>. QED BY <2>1, <2>3, <2>4 DEF ReportsSoFar
  <1>7. ASSUME Table PROVE Table'
    BY <1>1, <1>6, <1>7, TableKept DEF DtInv, Judge
  <1>8. Pairs' = Pairs
    BY <1>1 DEF Pairs, Judge
  <1>. QED BY <1>3, <1>7, <1>8 DEF DtInv, Fits

\* All policies are judged, or nothing happens.
LEMMA EndJudgeKeeps == ASSUME DtInv, EndJudge \/ UNCHANGED dtVars PROVE DtInv'
  <1>0. UNCHANGED <<packets_queue, psi, num_ip, at, reports>>
        /\ (dt_pc' = dt_pc \/ (dt_pc = "report" /\ dt_pc' = "done" /\ at[1] \notin Policies))
    BY DEF EndJudge, dtVars
  <1>1. Behind' = Behind
    BY <1>0 DEF Behind
  <1>2. DtTypeOK' /\ AtPlace'
    BY <1>0, DtSizes DEF DtInv, DtTypeOK, AtPlace
  <1>3. \A q, k : InUse(q)' = InUse(q) /\ Line(q, k)' = Line(q, k) /\ Rate(q, k)' = Rate(q, k)
    BY <1>0 DEF InUse, Line, Rate, Addr
  <1>4. ASSUME Table PROVE ReportsSoFar'
    BY <1>0, <1>3, <1>4 DEF Table, ReportsSoFar, Threshold
  <1>5. ASSUME Table PROVE Table'
    BY <1>0, <1>1, <1>4, <1>5, TableKept DEF DtInv, Table
  <1>6. Pairs' = Pairs
    BY <1>0, <1>1 DEF Pairs
  <1>. QED BY <1>2, <1>5, <1>6 DEF DtInv, Fits

\* No access leaves psi while the rows last.
LEMMA SmashKeeps == ASSUME DtInv, NEW p \in Policies, Smash(p) PROVE DtInv'
  <1>1. UNCHANGED <<packets_queue, psi, num_ip, at, reports>> /\ dt_pc' = "smashed"
    BY DEF Smash
  <1>2. DtTypeOK' /\ AtPlace'
    BY <1>1 DEF DtInv, DtTypeOK, AtPlace
  <1>3. Behind \subseteq Behind'
    BY <1>1 DEF Behind
  <1>4. ASSUME Fits' PROVE FALSE
    <2>1. Fits /\ Table /\ DtTypeOK
      BY <1>1, <1>3, <1>4, PairsGrow DEF DtInv
    <2>2. /\ num_ip \in Nat /\ num_ip <= ROWS
          /\ InUse(p) = 0 .. Num(p) - 1 /\ InUse(p) \subseteq 0 .. ROWS - 1
      BY <2>1, RowsInUse
    <2>3. InUse(p) \subseteq 0 .. ROWS /\ InUse(p) \cup {num_ip} \subseteq 0 .. ROWS
      BY <2>2, DtSizes
    <2>4. Inside(p, InUse(p)) /\ Inside(p, InUse(p) \cup {num_ip})
      <3>. PICK A, B : A = InUse(p) /\ B = InUse(p) \cup {num_ip}
        OBVIOUS
      <3>1. Inside(p, A) /\ Inside(p, B)
        BY <2>3, RowsInside
      <3>. QED BY <3>1
    <2>. QED BY <2>4 DEF Smash
  <1>. QED BY <1>2, <1>4 DEF DtInv

\* Every step of the detector keeps the invariant.
LEMMA DtInvStep == DtInv /\ [DtNext]_dtVars => DtInv'
  BY PassKeeps, CountKnownKeeps, CountNewKeeps, EndCountKeeps, JudgeKeeps, EndJudgeKeeps, SmashKeeps
  DEF DtNext

\* A window that starts on a clean stack satisfies the invariant.
LEMMA DtInvInit == DtInit /\ CleanStart => DtInv
  <1>. SUFFICES ASSUME DtInit, CleanStart PROVE DtInv
    OBVIOUS
  <1>. USE DEF DtInit
  <1>1. DtTypeOK
    <2>. PICK n \in 0 .. MaxPackets : packets_queue \in [1 .. n -> Packets]
      OBVIOUS
    <2>1. n \in Nat /\ n <= MaxPackets
      BY DtSizes
    <2>2. packets_queue \in Seq(Packets) /\ Len(packets_queue) <= MaxPackets
      BY <2>1
    <2>3. psi \in [Words -> Nat]
      <3>1. Garbage \cup {0} \subseteq Nat
        BY DetectorAssumption
      <3>. QED BY <3>1
    <2>. QED BY <2>2, <2>3 DEF DtTypeOK
  <1>2. AtPlace
    BY <1>1 DEF AtPlace, DtTypeOK
  <1>3. Behind = {}
    <2>1. DOMAIN packets_queue \subseteq Nat \ {0} /\ Policies \subseteq Nat \ {0}
      BY <1>1, DtSizes DEF DtTypeOK
    <2>2. \A v \in (DOMAIN packets_queue) \X Policies :
            v[1] >= 1 /\ v[2] >= 1 /\ v[1] \in Nat /\ v[2] \in Nat
      <3>. TAKE v \in (DOMAIN packets_queue) \X Policies
      <3>1. v[1] \in Nat \ {0} /\ v[2] \in Nat \ {0}
        BY <2>1
      <3>. QED BY ONLY <3>1
    <2>3. dt_pc = "count" /\ at[1] = 1 /\ at[2] = 1
      OBVIOUS
    <2>. QED BY <2>2, <2>3 DEF Behind
  <1>4. Pairs = {} /\ Cardinality({}) = 0
    BY <1>3, FS_EmptySet DEF Pairs
  <1>5. \A p \in Policies : Num(p) = 0 /\ InUse(p) = {}
    BY DEF Num, InUse
  <1>6. FreshRows
    <2>1. CASE Single
      BY <1>5, <2>1 DEF FreshRows
    <2>2. CASE psi = [w \in Words |-> 0] /\ 0 \notin Sources
      <3>1. \A p \in Policies : \A k \in 0 .. ROWS - 1 : Addr(p, k) = 0 /\ Cnt(p, k) = 0
        <4>. TAKE p \in Policies
        <4>. TAKE k \in 0 .. ROWS - 1
        <4>1. AddressWord(p, k) \in Words /\ CountWord(p, k) \in Words
          BY FieldsApart
        <4>. QED BY <2>2, <4>1 DEF Addr, Cnt
      <3>. QED BY <2>2, <3>1 DEF FreshRows
    <2>. QED BY <2>1, <2>2 DEF CleanStart
  <1>7. \A p \in Policies : \A s \in Sources : SentSoFar(p, s) = 0
    <2>. TAKE p \in Policies
    <2>. TAKE s \in Sources
    <2>1. SentPairs(p, s) = {}
      BY <1>3 DEF SentPairs
    <2>. QED BY <1>4, <2>1 DEF SentSoFar, SentPairs
  <1>8. RowsCount /\ RowsApart /\ RowsThere
    BY <1>5, <1>7 DEF RowsCount, RowsApart, RowsThere
  <1>9. ReportsSoFar
    BY DEF ReportsSoFar
  <1>10. Table
    BY <1>4, <1>5, <1>6, <1>8, <1>9 DEF Table
  <1>. QED BY <1>1, <1>2, <1>10 DEF DtInv

\* Where the table is in order, what it reports is so and what is so it reports.
LEMMA DtInvJudges == DtInv => WindowIsJudged
  <1>. SUFFICES ASSUME DtInv, Cardinality(Pairs) <= ROWS
                PROVE  /\ dt_pc # "smashed" /\ num_ip <= ROWS
                       /\ ReportsAreTrue
                       /\ dt_pc = "done" =>
                            \A p \in Policies, s \in Sources :
                              SentSoFar(p, s) \div INTERVAL > Threshold(p)
                                => \E r \in reports : r.policy = p /\ r.ip = s
    BY DEF WindowIsJudged
  <1>1. Table /\ Fits /\ DtTypeOK
    BY DEF DtInv, Fits
  <1>2. dt_pc # "smashed" /\ num_ip <= ROWS
    BY <1>1, RowsInUse DEF Table
  <1>3. \A p \in Policies : Threshold(p) \in Nat
    <2>. TAKE p \in Policies
    <2>1. list_policy \in Seq([ip : Nat, threshold : Int])
      BY DetectorAssumption
    <2>2. \A T : list_policy \in Seq(T) => \A q \in DOMAIN list_policy : list_policy[q] \in T
      OBVIOUS
    <2>3. list_policy[p] \in [ip : Nat, threshold : Int]
      BY <2>1, <2>2 DEF Policies
    <2>4. list_policy[p].threshold \in Int
      BY ONLY <2>3
    <2>. PICK t \in Int : t = list_policy[p].threshold
      BY <2>4
    <2>. PICK w \in Nat \ {0} : w = Word
      BY DtSizes
    <2>5. t % w \in Nat
      BY ONLY ModDef, t \in Int, w \in Nat \ {0}
    <2>. QED BY <2>5 DEF Threshold
  <1>4. 0 \div INTERVAL = 0
    BY DtSizes
  <1>5. \A p \in Policies : \A k \in InUse(p) : Rate(p, k) > Threshold(p) =>
          Addr(p, k) \in Sources /\ Rate(p, k) = SentSoFar(p, Addr(p, k)) \div INTERVAL
    <2>. SUFFICES ASSUME NEW p \in Policies, NEW k \in InUse(p), Rate(p, k) > Threshold(p)
                  PROVE  Addr(p, k) \in Sources /\ Rate(p, k) = SentSoFar(p, Addr(p, k)) \div INTERVAL
      OBVIOUS
    <2>1. Rate(p, k) = Cnt(p, k) \div INTERVAL
      BY DEF Rate, Cnt
    <2>2. ~ (Cnt(p, k) = 0)
      <3>1. ~ (0 > Threshold(p))
        BY <1>3
      <3>. QED BY <1>4, <2>1, <3>1
    <2>. QED BY <1>1, <2>1, <2>2 DEF Table, RowsCount
  <1>6. ReportsAreTrue
    <2>. SUFFICES ASSUME NEW r \in reports PROVE r.sent = SentSoFar(r.policy, r.ip) \div INTERVAL
      BY DEF ReportsAreTrue
    <2>. PICK p \in Policies : \E k \in InUse(p) : r = Line(p, k) /\ Rate(p, k) > Threshold(p)
      BY <1>1 DEF Table, ReportsSoFar
    <2>. PICK k \in InUse(p) : r = Line(p, k) /\ Rate(p, k) > Threshold(p)
      OBVIOUS
    <2>. QED BY <1>5 DEF Line
  <1>7. ASSUME dt_pc = "done", NEW p \in Policies, NEW s \in Sources,
               SentSoFar(p, s) \div INTERVAL > Threshold(p)
        PROVE  \E r \in reports : r.policy = p /\ r.ip = s
    <2>1. SentSoFar(p, s) # 0
      BY <1>3, <1>4, <1>7
    <2>. PICK k \in InUse(p) : Addr(p, k) = s
      BY <1>1, <2>1 DEF Table, RowsThere
    <2>2. Cnt(p, k) = SentSoFar(p, s)
      BY <1>1 DEF Table, RowsCount
    <2>3. Rate(p, k) > Threshold(p)
      BY <1>7, <2>2 DEF Rate, Cnt
    <2>4. p < at[1]
      BY <1>7, DtSizes DEF DtInv, AtPlace
    <2>5. Line(p, k) \in reports
      BY <1>1, <1>7, <2>3, <2>4 DEF Table, ReportsSoFar
    <2>. QED BY <2>5 DEF Line
  <1>. QED BY <1>2, <1>6, <1>7

\* The detector's table is in order at every step of a window that has no more pairs of policy
\* and source than psi has rows.
THEOREM DetectorInvariant == DtSpec /\ CleanStart => []DtInv
  BY DtInvInit, DtInvStep, PTL DEF DtSpec

\* Such a window is judged right, for any number of policies, rows and packets and any width of
\* the words: no access leaves psi, every line states the rate its source has sent at, and every
\* source over a threshold has its line ("handle the violating IP", start_policy.c:241).
THEOREM WindowAlwaysJudged == DtSpec /\ CleanStart => []WindowIsJudged
  BY DetectorInvariant, DtInvJudges, PTL

-----------------------------------------------------------------------------
(* Exact counting: with one policy in the window, the table implements it. *)

\* No more sources than rows, and thresholds that are packets per second.
CountsFitRows ==
  /\ IsFiniteSet(Sources) /\ Cardinality(Sources) <= ROWS
  /\ \A p \in Policies : list_policy[p].threshold \in 0 .. Word - 1

\* What the detector has seen and reported, as Counting has it.
SeenSoFar == {v \in Behind : Single /\ packets_queue[v[1]].dst = list_policy[v[2]].ip}
ReportedSoFar == {<<r.policy, r.ip>> : r \in {q \in reports : Single}}

\* Counting counts as the detector's own definitions do.
LEMMA SameCardinality == \A S : Exact!Cardinality(S) = Cardinality(S)
  BY DEF Exact!Cardinality, Cardinality

\* A window for one policy has no more pairs than there are sources.
LEMMA SinglePairsFit ==
  ASSUME packets_queue \in Seq(Packets), Single, CountsFitRows,
         NEW W \in SUBSET ((DOMAIN packets_queue) \X Policies)
  PROVE  Cardinality({<<v[2], packets_queue[v[1]].src>> :
                        v \in {u \in W : packets_queue[u[1]].dst = list_policy[u[2]].ip}}) <= ROWS
  <1>. DEFINE T == {<<v[2], packets_queue[v[1]].src>> :
                      v \in {u \in W : packets_queue[u[1]].dst = list_policy[u[2]].ip}}
  <1>1. \A k \in DOMAIN packets_queue : packets_queue[k].src \in Sources
    <2>1. \A k \in DOMAIN packets_queue : packets_queue[k] \in Packets
      OBVIOUS
    <2>. QED BY <2>1 DEF Packets
  <1>2. \A e \in T : e = <<e[1], e[2]>> /\ e[1] \in Policies /\ e[2] \in Sources
          /\ \E k \in DOMAIN packets_queue : packets_queue[k].dst = list_policy[e[1]].ip
    <2>1. \A v \in W : v[1] \in DOMAIN packets_queue /\ v[2] \in Policies
      OBVIOUS
    <2>. QED BY <1>1, <2>1
  <1>3. ROWS \in Nat
    BY DtSizes
  <1> HIDE DEF T
  <1>4. CASE T = {}
    <2>1. Cardinality(T) = 0
      BY <1>4, FS_EmptySet
    <2>2. Cardinality(T) <= ROWS
      BY <1>3, <2>1
    <2>. QED BY <2>2 DEF T
  <1>5. CASE T # {}
    <2>. PICK e \in T : TRUE
      BY <1>5
    <2>. PICK p : p = e[1]
      OBVIOUS
    <2>1. \A f \in T : f[1] = p
      BY <1>2, OnlyOne
    <2>2. T \subseteq {p} \X Sources
      BY <1>2, <2>1
    <2>3. IsFiniteSet({p}) /\ Cardinality({p}) = 1
      BY FS_Singleton
    <2>4. IsFiniteSet({p} \X Sources) /\ Cardinality({p} \X Sources) = 1 * Cardinality(Sources)
      BY <2>3, FS_Product DEF CountsFitRows
    <2>5. Cardinality(T) <= Cardinality({p} \X Sources) /\ IsFiniteSet(T)
      BY <2>2, <2>4, FS_Subset
    <2>6. Cardinality(Sources) \in Nat /\ Cardinality(T) \in Nat
      BY <2>5, FS_CardinalityType DEF CountsFitRows
    <2>7. Cardinality(T) <= ROWS
      BY <1>3, <2>4, <2>5, <2>6 DEF CountsFitRows
    <2>. QED BY <2>7 DEF T
  <1>. QED BY <1>4, <1>5

\* So it fits psi, before a step and after it.
LEMMA SingleFits ==
  ASSUME packets_queue \in Seq(Packets), Single, CountsFitRows
  PROVE  Fits /\ (UNCHANGED packets_queue => Fits')
  <1>1. Fits
    <2>. PICK W : W = Behind
      OBVIOUS
    <2>1. W \in SUBSET ((DOMAIN packets_queue) \X Policies)
      BY DEF Behind
    <2>2. Pairs = {<<v[2], packets_queue[v[1]].src>> :
                     v \in {u \in W : packets_queue[u[1]].dst = list_policy[u[2]].ip}}
      BY DEF Pairs
    <2>. QED BY <2>1, <2>2, SinglePairsFit DEF Fits
  <1>2. ASSUME UNCHANGED packets_queue PROVE Fits'
    <2>. PICK W : W = Behind'
      OBVIOUS
    <2>1. W \in SUBSET ((DOMAIN packets_queue) \X Policies)
      BY <1>2 DEF Behind
    <2>2. Pairs' = {<<v[2], packets_queue[v[1]].src>> :
                     v \in {u \in W : packets_queue[u[1]].dst = list_policy[u[2]].ip}}
      BY <1>2 DEF Pairs
    <2>. QED BY <2>1, <2>2, SinglePairsFit DEF Fits
  <1>. QED BY <1>1, <1>2

\* When all packets are counted, a row's source has sent what Counting says.
LEMMA SentInAll ==
  ASSUME DtTypeOK, dt_pc # "count", NEW p \in Policies, NEW s
  PROVE  SentSoFar(p, s) = Exact!Sent(packets_queue, p, s)
  <1>. PICK n \in Nat : n = Len(packets_queue) /\ DOMAIN packets_queue = 1 .. n
    BY DEF DtTypeOK
  <1>. DEFINE A == {i \in 1 .. n : packets_queue[i].dst = list_policy[p].ip
                                    /\ packets_queue[i].src = s}
  <1>1. Exact!SentBy(packets_queue, p, s) = A
    BY DEF Exact!SentBy, Exact!Protected
  <1>2. {v \in Behind : v[2] = p /\ packets_queue[v[1]].src = s
                         /\ packets_queue[v[1]].dst = list_policy[p].ip} = A \X {p}
    BY DEF Behind
  <1>3. IsFiniteSet(1 .. n)
    BY FS_Interval
  <1>4. IsFiniteSet(A)
    BY <1>3, FS_Subset
  <1>5. IsFiniteSet({p}) /\ Cardinality({p}) = 1
    BY FS_Singleton
  <1> HIDE DEF A
  <1>6. Cardinality(A \X {p}) = Cardinality(A) * 1 /\ Cardinality(A) \in Nat
    BY <1>4, <1>5, FS_Product, FS_CardinalityType
  <1>7. Cardinality(A \X {p}) = Cardinality(A)
    BY <1>6
  <1>8. Exact!Sent(packets_queue, p, s) = Cardinality(A)
    BY <1>1, SameCardinality DEF Exact!Sent
  <1>9. SentSoFar(p, s) = Cardinality(A \X {p})
    BY <1>2 DEF SentSoFar
  <1>. QED BY <1>7, <1>8, <1>9

\* The lines of one policy are the attackers that Counting finds.
LEMMA LinesAreAttackers ==
  ASSUME DtInv, Single, CountsFitRows, dt_pc = "report", NEW p \in Policies
  PROVE  {<<p, Addr(p, k)>> : k \in {h \in InUse(p) : Rate(p, h) > Threshold(p)}}
           = {p} \X Exact!Attackers(packets_queue, p)
  <1>0. DtTypeOK /\ Table
    BY SingleFits DEF DtInv, DtTypeOK
  <1>. PICK t \in Nat : t = list_policy[p].threshold /\ t < Word
    BY DtSizes DEF CountsFitRows
  <1>1. Threshold(p) = t
    <2>1. Word \in Nat \ {0} /\ t \in 0 .. Word - 1
      BY DtSizes
    <2>2. (Word * 0 + t) % Word = t
      BY ONLY <2>1, 0 \in Int, ModUnique
    <2>3. Word * 0 + t = t
      BY ONLY <2>1
    <2>. QED BY <2>2, <2>3 DEF Threshold
  <1>2. INTERVAL \in Nat \ {0} /\ 0 \div INTERVAL = 0
    BY DtSizes
  <1>3. \A s : SentSoFar(p, s) = Exact!Sent(packets_queue, p, s)
    BY <1>0, SentInAll
  <1>4. \A i \in DOMAIN packets_queue : packets_queue[i].src \in Sources
    <2>1. \A i \in DOMAIN packets_queue : packets_queue[i] \in Packets
      BY <1>0 DEF DtTypeOK
    <2>. QED BY <2>1 DEF Packets
  <1>5. ASSUME NEW s, Exact!Sent(packets_queue, p, s) # 0
        PROVE  s \in {packets_queue[i].src : i \in DOMAIN packets_queue} /\ s \in Sources
    <2>1. Exact!SentBy(packets_queue, p, s) # {}
      <3>. SUFFICES ASSUME Exact!SentBy(packets_queue, p, s) = {} PROVE FALSE
        OBVIOUS
      <3>1. Exact!Sent(packets_queue, p, s) = Cardinality({})
        BY SameCardinality DEF Exact!Sent
      <3>. QED BY <1>5, <3>1, FS_EmptySet
    <2>. QED BY <1>4, <2>1 DEF Exact!SentBy, Exact!Protected
  <1>6. ASSUME NEW k \in InUse(p), Rate(p, k) > Threshold(p)
        PROVE  Addr(p, k) \in Exact!Attackers(packets_queue, p)
    <2>1. Cnt(p, k) # 0
      BY <1>1, <1>2, <1>6 DEF Rate, Cnt
    <2>2. Addr(p, k) \in Sources /\ Cnt(p, k) = SentSoFar(p, Addr(p, k))
      BY <1>0, <2>1 DEF Table, RowsCount
    <2>3. Exact!Sent(packets_queue, p, Addr(p, k)) = Cnt(p, k)
      BY <1>3, <2>2
    <2>4. Exact!Sent(packets_queue, p, Addr(p, k)) \div INTERVAL > list_policy[p].threshold
      BY <1>1, <1>6, <2>3 DEF Rate, Cnt
    <2>. QED BY <1>5, <2>1, <2>3, <2>4 DEF Exact!Attackers
  <1>7. ASSUME NEW s \in Exact!Attackers(packets_queue, p)
        PROVE  \E k \in InUse(p) : Rate(p, k) > Threshold(p) /\ Addr(p, k) = s
    <2>1. Exact!Sent(packets_queue, p, s) \div INTERVAL > t
      BY DEF Exact!Attackers
    <2>2. Exact!Sent(packets_queue, p, s) # 0
      BY <1>2, <2>1
    <2>3. s \in Sources /\ SentSoFar(p, s) # 0
      BY <1>3, <1>5, <2>2
    <2>4. PICK k \in InUse(p) : Addr(p, k) = s
      BY <1>0, <2>3 DEF Table, RowsThere
    <2>5. Cnt(p, k) = SentSoFar(p, s)
      BY <1>0, <2>3, <2>4 DEF Table, RowsCount
    <2>6. Rate(p, k) > Threshold(p)
      BY <1>1, <1>3, <2>1, <2>5 DEF Rate, Cnt
    <2>. QED BY <2>4, <2>6
  <1>. QED BY <1>6, <1>7

\* In a window for one policy every step of the detector is one of Counting, or none.
LEMMA SingleStep ==
  ASSUME DtInv, DtInv', Single, CountsFitRows, [DtNext]_dtVars
  PROVE  [Exact!Next]_(Exact!vars)
  <1>. DEFINE seen == SeenSoFar
              told == ReportedSoFar
  <1>0. DtTypeOK /\ AtPlace /\ Fits /\ DtTypeOK'
    BY SingleFits DEF DtInv, DtTypeOK
  <1>1. packets_queue' = packets_queue /\ Single'
    BY DEF DtNext, Pass, CountKnown, CountNew, EndCount, Judge, EndJudge, Smash, dtVars, Single
  <1>2. ASSUME NEW p \in Policies, Pass(p) PROVE seen' = seen /\ told' = told
    <2>1. Behind' = Behind \cup {<<at[1], p>>} /\ packets_queue[at[1]].dst # list_policy[p].ip
      BY <1>0, <1>2, TurnIsBehind DEF Pass, Matches
    <2>. QED BY <1>1, <1>2, <2>1 DEF SeenSoFar, ReportedSoFar, Pass
  <1>3. ASSUME NEW p \in Policies, CountKnown(p) \/ CountNew(p)
        PROVE  \E i \in DOMAIN packets_queue : Exact!Count(i, p)
    <2>1. Counting(p) /\ Matches(p) /\ Advance /\ UNCHANGED <<packets_queue, dt_pc, reports>>
      BY <1>3 DEF CountKnown, CountNew
    <2>. PICK i : i = at[1]
      OBVIOUS
    <2>2. Behind' = Behind \cup {<<i, p>>} /\ <<i, p>> \notin Behind
      BY <1>0, <2>1, TurnIsBehind
    <2>3. i \in DOMAIN packets_queue /\ packets_queue[i].dst = list_policy[p].ip
      BY <2>1 DEF Counting, Matches
    <2>4. seen' = seen \cup {<<i, p>>} /\ <<i, p>> \notin seen
      BY <1>1, <2>2, <2>3 DEF SeenSoFar
    <2>5. told' = told
      BY <1>1, <2>1 DEF ReportedSoFar
    <2>. QED
      BY <1>1, <2>3, <2>4, <2>5 DEF Exact!Count, Exact!Protected, SeenSoFar, ReportedSoFar
  <1>4. ASSUME NEW p \in Policies, Judge(p) PROVE Exact!Judge(p)
    <2>1. dt_pc = "report" /\ UNCHANGED <<packets_queue, psi, dt_pc>>
          /\ reports' = reports \cup
               {[policy |-> p, ip |-> Addr(p, k), sent |-> Rate(p, k)] :
                  k \in {h \in InUse(p) : Rate(p, h) > Threshold(p)}}
      BY <1>4 DEF Judge, Addr
    <2>2. told' = told \cup {<<p, Addr(p, k)>> : k \in {h \in InUse(p) : Rate(p, h) > Threshold(p)}}
      <3>. DEFINE over == {h \in InUse(p) : Rate(p, h) > Threshold(p)}
                  new == {[policy |-> p, ip |-> Addr(p, k), sent |-> Rate(p, k)] : k \in over}
      <3>1. told = {<<r.policy, r.ip>> : r \in reports}
        BY DEF ReportedSoFar
      <3>2. told' = {<<r.policy, r.ip>> : r \in reports \cup new}
        BY <1>1, <2>1 DEF ReportedSoFar
      <3>3. {<<r.policy, r.ip>> : r \in new} = {<<p, Addr(p, k)>> : k \in over}
        <4>1. \A k \in over : /\ [policy |-> p, ip |-> Addr(p, k), sent |-> Rate(p, k)].policy = p
                              /\ [policy |-> p, ip |-> Addr(p, k), sent |-> Rate(p, k)].ip = Addr(p, k)
          OBVIOUS
        <4> HIDE DEF over
        <4>. QED BY <4>1
      <3> HIDE DEF over, new
      <3>4. told' = told \cup {<<r.policy, r.ip>> : r \in new}
        BY <3>1, <3>2
      <3>. QED BY <3>3, <3>4 DEF over
    <2>3. told' = told \cup ({p} \X Exact!Attackers(packets_queue, p))
      BY <2>1, <2>2, LinesAreAttackers
    <2>4. Behind = (DOMAIN packets_queue) \X Policies /\ Behind' = Behind
      BY <2>1 DEF Behind
    <2>5. seen' = seen /\ \A i \in DOMAIN packets_queue :
                            packets_queue[i].dst = list_policy[p].ip => <<i, p>> \in seen
      BY <1>1, <2>4 DEF SeenSoFar
    <2>. QED
      BY <1>1, <2>3, <2>5 DEF Exact!Judge, Exact!Protected, SeenSoFar, ReportedSoFar
  <1>5. ASSUME NEW p \in Policies, Smash(p) PROVE FALSE
    <2>1. dt_pc' = "smashed"
      BY <1>5 DEF Smash
    <2>2. Fits'
      BY <1>0, <1>1, SingleFits DEF DtTypeOK
    <2>. QED BY <2>1, <2>2 DEF DtInv, Table
  <1>6. CASE EndCount \/ EndJudge \/ UNCHANGED dtVars
    <2>1. Behind' = Behind /\ reports' = reports
      <3>1. CASE EndCount
        <4>. PICK n \in Nat : n = Len(packets_queue) /\ DOMAIN packets_queue = 1 .. n
          BY <1>0 DEF DtTypeOK
        <4>. PICK i \in Nat, j \in Nat : at = <<i, j>>
          BY <1>0 DEF AtPlace
        <4>1. i > n
          BY <1>0, <3>1 DEF AtPlace, EndCount
        <4>2. Behind = {v \in (1 .. n) \X Policies : v[1] < i \/ (v[1] = i /\ v[2] < j)}
          BY <3>1 DEF Behind, EndCount
        <4>3. Behind' = (1 .. n) \X Policies
          BY <3>1 DEF Behind, EndCount
        <4>4. \A v \in (1 .. n) \X Policies : v[1] < i
          BY <4>1
        <4>. QED BY <3>1, <4>2, <4>3, <4>4 DEF EndCount
      <3>2. CASE EndJudge \/ UNCHANGED dtVars
        BY <3>2 DEF EndJudge, dtVars, Behind
      <3>. QED BY <1>6, <3>1, <3>2
    <2>2. seen' = seen /\ told' = told
      BY <1>1, <2>1 DEF SeenSoFar, ReportedSoFar
    <2>. QED BY <1>1, <2>2 DEF Exact!vars, SeenSoFar, ReportedSoFar
  <1>7. ASSUME NEW p \in Policies, Pass(p) PROVE UNCHANGED Exact!vars
    BY <1>1, <1>2, <1>7 DEF Exact!vars, SeenSoFar, ReportedSoFar
  <1>. QED
    BY <1>3, <1>4, <1>5, <1>6, <1>7 DEF DtNext, Exact!Next, Exact!Policies, Policies

\* Any other window stays where Counting starts.
LEMMA OtherStep ==
  ASSUME ~ Single, [DtNext]_dtVars
  PROVE  ~ Single' /\ UNCHANGED Exact!vars
  <1>1. packets_queue' = packets_queue
    BY DEF DtNext, Pass, CountKnown, CountNew, EndCount, Judge, EndJudge, Smash, dtVars
  <1>2. ~ Single'
    BY <1>1 DEF Single
  <1>. QED BY <1>1, <1>2 DEF Exact!vars

\* In a window for the address of one policy, with no more sources than psi has rows, the table
\* of detect_attackers implements exact counting: every packet is counted once, and each policy
\* is then reported with just the sources that sent more than it allows.
THEOREM CountingIsExact == CountsFitRows => (DtSpec => CountsExactly)
  <1>. SUFFICES ASSUME CountsFitRows PROVE DtSpec => CountsExactly
    OBVIOUS
  <1>. DEFINE Inv == Single => DtInv
  <1>1. DtInit => Inv /\ Exact!Init
    <2>. SUFFICES ASSUME DtInit PROVE Inv /\ Exact!Init
      OBVIOUS
    <2>1. Inv
      BY DtInvInit DEF CleanStart
    <2>2. Behind = {}
      <3>. PICK n \in 0 .. MaxPackets : packets_queue \in [1 .. n -> Packets]
        BY DEF DtInit
      <3>1. at = <<1, 1>> /\ dt_pc = "count" /\ DOMAIN packets_queue = 1 .. n /\ n \in Nat
        BY DtSizes DEF DtInit
      <3>2. Policies = 1 .. Len(list_policy) /\ Len(list_policy) \in Nat
        BY DtSizes
      <3>. QED BY <3>1, <3>2 DEF Behind
    <2>. QED BY <2>1, <2>2 DEF Exact!Init, DtInit
  <1>2. Inv /\ [DtNext]_dtVars => Inv' /\ [Exact!Next]_(Exact!vars)
    <2>. SUFFICES ASSUME Inv, [DtNext]_dtVars PROVE Inv' /\ [Exact!Next]_(Exact!vars)
      OBVIOUS
    <2>1. CASE Single
      BY <2>1, DtInvStep, SingleStep
    <2>2. CASE ~ Single
      BY <2>2, OtherStep
    <2>. QED BY <2>1, <2>2
  <1>. QED BY <1>1, <1>2, PTL DEF DtSpec, CountsExactly, Exact!Spec
=============================================================================
