--------------------------- MODULE LibbpfDataProofs ---------------------------
(***************************************************************************)
(* The parts of libbpf that read, index and rewrite data, proved right for *)
(* data of every size: the hash map, for any keys, hash and values; the    *)
(* definitions of maps, for any symbols and fields; the parts of .BTF.ext, *)
(* for any sections and records; the strings of BTF, for any strings and   *)
(* references; the types of BTF, for any descriptors; and the information  *)
(* of a loaded program, for any arrays, addresses and lines.               *)
(***************************************************************************)
EXTENDS Hashmap, MapDefs, BtfExt, BtfStrings, BtfRead, ProgInfo, Arithmetic, FiniteSetTheorems

-----------------------------------------------------------------------------
(* Sums, and functions that are built step by step.                        *)

\* A function that begins with x and takes n steps of F.
Steps(f, n, x, F) == f[0] = x /\ \A k \in 1 .. n : f[k] = F[<<k, f[k - 1]>>]

\* Two of them that take the same steps agree.
LEMMA StepsAgree ==
  ASSUME NEW S, NEW x \in S, NEW F \in [Nat \X S -> S], NEW m \in Nat, NEW n \in Nat, m <= n,
         NEW f \in [0 .. m -> S], NEW g \in [0 .. n -> S], Steps(f, m, x, F), Steps(g, n, x, F)
  PROVE  f[m] = g[m]
  <1> DEFINE T == {k \in Nat : k <= m => f[k] = g[k]}
  <1>1. 0 \in T
    BY DEF Steps
  <1>2. ASSUME NEW k \in T PROVE k + 1 \in T
    <2> SUFFICES ASSUME k + 1 <= m PROVE f[k + 1] = g[k + 1]
      OBVIOUS
    <2>1. k + 1 \in 1 .. m /\ k + 1 \in 1 .. n /\ (k + 1) - 1 = k
      OBVIOUS
    <2>2. f[k] = g[k]
      OBVIOUS
    <2>3. f[k + 1] = F[<<k + 1, f[k]>>] /\ g[k + 1] = F[<<k + 1, g[k]>>]
      BY <2>1 DEF Steps
    <2> QED BY <2>2, <2>3
  <1>3. T = Nat
    <2> HIDE DEF T
    <2>1. T \in SUBSET Nat
      BY DEF T
    <2> QED BY <1>1, <1>2, <2>1, SetInduction
  <1>4. m \in T
    BY <1>3
  <1> QED BY <1>4

\* There is one for every number of steps.
LEMMA StepsExist ==
  ASSUME NEW S, NEW x \in S, NEW F \in [Nat \X S -> S], NEW n \in Nat
  PROVE  \E f \in [0 .. n -> S] : Steps(f, n, x, F)
  <1> DEFINE T == {m \in Nat : \E f \in [0 .. m -> S] : Steps(f, m, x, F)}
  <1>1. 0 \in T
    <2> DEFINE f == [k \in 0 .. 0 |-> x]
    <2>1. f \in [0 .. 0 -> S] /\ Steps(f, 0, x, F)
      BY DEF Steps
    <2> QED BY <2>1
  <1>2. ASSUME NEW m \in T PROVE m + 1 \in T
    <2>1. m \in Nat
      OBVIOUS
    <2>2. PICK g \in [0 .. m -> S] : Steps(g, m, x, F)
      OBVIOUS
    <2> HIDE DEF T
    <2> DEFINE last == F[<<m + 1, g[m]>>]
               f == [k \in 0 .. m + 1 |-> IF k = m + 1 THEN last ELSE g[k]]
    <2>3. last \in S
      BY <2>1, <2>2
    <2>4. f \in [0 .. m + 1 -> S]
      <3>1. \A k \in 0 .. m + 1 : k # m + 1 => k \in 0 .. m
        BY <2>1
      <3> HIDE DEF last
      <3> QED BY <2>2, <2>3, <3>1
    <2>5. ASSUME NEW k \in 1 .. m + 1 PROVE f[k] = F[<<k, f[k - 1]>>]
      <3>1. k - 1 \in 0 .. m /\ k - 1 \in 0 .. m + 1 /\ k - 1 # m + 1 /\ k \in 0 .. m + 1
        BY <2>1
      <3>2. f[k - 1] = g[k - 1]
        BY <3>1
      <3>3. CASE k = m + 1
        <4>1. k - 1 = m /\ f[k] = last
          BY <2>1, <3>1, <3>3
        <4> QED BY <3>2, <3>3, <4>1
      <3>4. CASE k # m + 1
        <4>1. k \in 1 .. m /\ f[k] = g[k]
          BY <2>1, <3>1, <3>4
        <4>2. g[k] = F[<<k, g[k - 1]>>]
          BY <2>2, <4>1 DEF Steps
        <4> QED BY <3>2, <4>1, <4>2
      <3> QED BY <3>3, <3>4
    <2>6. f[0] = x
      <3>1. 0 \in 0 .. m + 1 /\ 0 # m + 1
        BY <2>1
      <3> QED BY <2>2, <3>1 DEF Steps
    <2>7. Steps(f, m + 1, x, F)
      <3> HIDE DEF f
      <3> QED BY <2>5, <2>6 DEF Steps
    <2>8. \E h \in [0 .. m + 1 -> S] : Steps(h, m + 1, x, F)
      <3> HIDE DEF f
      <3> QED BY <2>4, <2>7
    <2>9. m + 1 \in Nat
      BY <2>1
    <2> QED BY <2>8, <2>9 DEF T
  <1>3. T = Nat
    <2> HIDE DEF T
    <2>1. T \in SUBSET Nat
      BY DEF T
    <2> QED BY <1>1, <1>2, <2>1, SetInduction
  <1> QED BY <1>3

\* The running sums of natural numbers.
LEMMA SumsAre ==
  ASSUME NEW d \in Seq(Nat)
  PROVE  /\ Sums(d) \in [0 .. Len(d) -> Nat] /\ Sums(d)[0] = 0
         /\ \A n \in 1 .. Len(d) : Sums(d)[n] = Sums(d)[n - 1] + d[n]
  <1> DEFINE F == [p \in Nat \X Nat |-> IF p[1] \in 1 .. Len(d) THEN p[2] + d[p[1]] ELSE p[2]]
             D(s) == s = [n \in 0 .. Len(d) |-> IF n = 0 THEN 0 ELSE s[n - 1] + d[n]]
  <1>1. F \in [Nat \X Nat -> Nat]
    OBVIOUS
  <1>2. \A n \in 1 .. Len(d), y \in Nat : F[<<n, y>>] = y + d[n]
    OBVIOUS
  <1> HIDE DEF F
  <1>3. Len(d) \in Nat
    OBVIOUS
  <1>4. PICK f \in [0 .. Len(d) -> Nat] : Steps(f, Len(d), 0, F)
    BY <1>1, <1>3, StepsExist
  <1>5. \A n \in 1 .. Len(d) : n - 1 \in 0 .. Len(d) /\ f[n] = f[n - 1] + d[n]
    <2> SUFFICES ASSUME NEW n \in 1 .. Len(d) PROVE n - 1 \in 0 .. Len(d) /\ f[n] = f[n - 1] + d[n]
      OBVIOUS
    <2>1. n - 1 \in 0 .. Len(d)
      BY <1>3
    <2>2. f[n] = F[<<n, f[n - 1]>>] /\ f[n - 1] \in Nat
      BY <1>4, <2>1 DEF Steps
    <2> QED BY <1>2, <2>1, <2>2
  <1>6. f[0] = 0
    BY <1>4 DEF Steps
  <1>7. D(f)
    <2>1. \A n \in 0 .. Len(d) : f[n] = IF n = 0 THEN 0 ELSE f[n - 1] + d[n]
      BY <1>3, <1>5, <1>6
    <2> QED BY <2>1
  <1>8. Sums(d) = CHOOSE s : D(s)
    BY DEF Sums
  <1>9. D(Sums(d))
    <2> HIDE DEF D
    <2> QED BY <1>7, <1>8
  <1> DEFINE s == Sums(d)
  <1>10. DOMAIN s = 0 .. Len(d) /\ \A n \in 0 .. Len(d) : s[n] = IF n = 0 THEN 0 ELSE s[n - 1] + d[n]
    BY <1>9
  <1> HIDE DEF s
  <1>11. s[0] = 0 /\ \A n \in 1 .. Len(d) : s[n] = s[n - 1] + d[n]
    BY <1>3, <1>10
  <1>12. \A n \in Nat : n <= Len(d) => s[n] = f[n]
    <2> DEFINE T == {n \in Nat : n <= Len(d) => s[n] = f[n]}
    <2>1. 0 \in T
      BY <1>6, <1>11
    <2>2. ASSUME NEW n \in T PROVE n + 1 \in T
      <3> SUFFICES ASSUME n + 1 <= Len(d) PROVE s[n + 1] = f[n + 1]
        OBVIOUS
      <3>1. n + 1 \in 1 .. Len(d) /\ (n + 1) - 1 = n /\ s[n] = f[n]
        BY <1>3
      <3> QED BY <1>5, <1>11, <3>1
    <2> HIDE DEF T
    <2>3. T \in SUBSET Nat
      BY DEF T
    <2>4. T = Nat
      BY <2>1, <2>2, <2>3, SetInduction
    <2> QED BY <2>4 DEF T
  <1>13. s \in [0 .. Len(d) -> Nat]
    <2>1. s = [n \in 0 .. Len(d) |-> s[n]]
      BY <1>10
    <2>2. \A n \in 0 .. Len(d) : s[n] \in Nat
      BY <1>3, <1>4, <1>12
    <2> QED BY <2>1, <2>2
  <1> QED BY <1>11, <1>13 DEF s

\* The sum of all.
LEMMA TotalIs ==
  ASSUME NEW d \in Seq(Nat) PROVE Total(d) \in Nat
  <1>1. Sums(d) \in [0 .. Len(d) -> Nat] /\ Len(d) \in 0 .. Len(d)
    BY SumsAre
  <1> QED BY <1>1 DEF Total

\* A sum of numbers that are not 0 is at least their number, and rises.
LEMMA SumsOfPositive ==
  ASSUME NEW d \in Seq(Nat), \A n \in 1 .. Len(d) : d[n] > 0
  PROVE  /\ \A n \in 0 .. Len(d) : Sums(d)[n] >= n
         /\ \A m, n \in 0 .. Len(d) : m <= n => Sums(d)[m] <= Sums(d)[n] /\ (m < n => Sums(d)[m] < Sums(d)[n])
  <1> DEFINE f == Sums(d)
             T == {n \in Nat : n <= Len(d) => f[n] >= n /\ \A m \in 0 .. n : m < n => f[m] < f[n]}
  <1>1. f \in [0 .. Len(d) -> Nat] /\ f[0] = 0 /\ \A n \in 1 .. Len(d) : f[n] = f[n - 1] + d[n]
    BY SumsAre
  <1> HIDE DEF f
  <1>2. Len(d) \in Nat
    OBVIOUS
  <1>3. 0 \in T
    BY <1>1
  <1>4. ASSUME NEW n \in T PROVE n + 1 \in T
    <2> SUFFICES ASSUME n + 1 <= Len(d)
                 PROVE  f[n + 1] >= n + 1 /\ \A m \in 0 .. n + 1 : m < n + 1 => f[m] < f[n + 1]
      OBVIOUS
    <2>1. /\ n + 1 \in 1 .. Len(d) /\ (n + 1) - 1 = n /\ n \in 0 .. Len(d)
          /\ f[n] >= n /\ \A m \in 0 .. n : m < n => f[m] < f[n]
      BY <1>2
    <2>2. f[n + 1] = f[n] + d[n + 1]
      BY <1>1, <2>1
    <2>3. d[n + 1] > 0 /\ d[n + 1] \in Nat
      BY <2>1
    <2>4. f[n] \in Nat
      BY <1>1, <2>1
    <2>5. f[n + 1] > f[n] /\ f[n + 1] \in Nat /\ f[n + 1] >= n + 1
      BY <2>1, <2>2, <2>3, <2>4
    <2>6. ASSUME NEW m \in 0 .. n + 1, m < n + 1 PROVE f[m] < f[n + 1]
      <3>1. m \in 0 .. n /\ m \in 0 .. Len(d) /\ (m = n \/ m < n)
        BY <2>1, <2>6
      <3>2. f[m] \in Nat
        BY <1>1, <3>1
      <3>3. CASE m = n
        BY <2>5, <3>3
      <3>4. CASE m < n
        BY <2>1, <2>4, <2>5, <3>1, <3>2, <3>4
      <3> QED BY <3>1, <3>3, <3>4
    <2> QED BY <2>5, <2>6
  <1> HIDE DEF T
  <1>5. T = Nat
    <2>1. T \in SUBSET Nat
      BY DEF T
    <2> QED BY <1>3, <1>4, <2>1, SetInduction
  <1>6. ASSUME NEW n \in 0 .. Len(d) PROVE f[n] >= n /\ f[n] \in Nat /\ \A m \in 0 .. n : m < n => f[m] < f[n]
    <2>1. n \in T /\ n <= Len(d)
      BY <1>2, <1>5
    <2> QED BY <1>1, <2>1 DEF T
  <1>7. ASSUME NEW m \in 0 .. Len(d), NEW n \in 0 .. Len(d), m <= n
        PROVE  f[m] <= f[n] /\ (m < n => f[m] < f[n])
    <2>1. CASE m < n
      <3>1. m \in 0 .. n
        BY <1>7
      <3>2. f[m] < f[n] /\ f[m] \in Nat /\ f[n] \in Nat
        BY <1>6, <2>1, <3>1
      <3> QED BY <3>2
    <2>2. CASE m = n
      <3>1. f[m] \in Nat
        BY <1>6
      <3> QED BY <2>2, <3>1
    <2> QED BY <1>7, <2>1, <2>2
  <1> QED BY <1>6, <1>7 DEF f

\* Sums of sequences that begin alike.
LEMMA SumsAgree ==
  ASSUME NEW d \in Seq(Nat), NEW e \in Seq(Nat), NEW m \in Nat, m <= Len(d), m <= Len(e),
         \A n \in 1 .. m : d[n] = e[n]
  PROVE  \A n \in 0 .. m : Sums(d)[n] = Sums(e)[n]
  <1> DEFINE f == Sums(d)
             g == Sums(e)
             T == {n \in Nat : n <= m => f[n] = g[n]}
  <1>1. /\ f[0] = 0 /\ \A n \in 1 .. Len(d) : f[n] = f[n - 1] + d[n]
        /\ g[0] = 0 /\ \A n \in 1 .. Len(e) : g[n] = g[n - 1] + e[n]
    BY SumsAre
  <1> HIDE DEF f, g
  <1>2. 0 \in T
    BY <1>1
  <1>3. ASSUME NEW n \in T PROVE n + 1 \in T
    <2> SUFFICES ASSUME n + 1 <= m PROVE f[n + 1] = g[n + 1]
      OBVIOUS
    <2>1. n + 1 \in 1 .. m /\ n + 1 \in 1 .. Len(d) /\ n + 1 \in 1 .. Len(e) /\ (n + 1) - 1 = n /\ f[n] = g[n]
      OBVIOUS
    <2>2. f[n + 1] = f[n] + d[n + 1] /\ g[n + 1] = g[n] + e[n + 1] /\ d[n + 1] = e[n + 1]
      BY <1>1, <2>1
    <2> QED BY <2>1, <2>2
  <1> HIDE DEF T
  <1>4. T = Nat
    <2>1. T \in SUBSET Nat
      BY DEF T
    <2> QED BY <1>2, <1>3, <2>1, SetInduction
  <1> QED BY <1>4 DEF T, f, g

-----------------------------------------------------------------------------
(* Counting in sequences.                                                  *)

\* How often an element is in a sequence.
Holds(s, e) == {n \in 1 .. Len(s) : s[n] = e}
Count(s, e) == Cardinality(Holds(s, e))

\* A count is a number, and 0 if the element is not there.
LEMMA CountType ==
  ASSUME NEW E, NEW s \in Seq(E), NEW e
  PROVE  /\ IsFiniteSet(Holds(s, e)) /\ Count(s, e) \in Nat
         /\ Count(s, e) = 0 <=> \A n \in 1 .. Len(s) : s[n] # e
  <1>1. Len(s) \in Nat
    OBVIOUS
  <1>2. IsFiniteSet(1 .. Len(s))
    BY <1>1, FS_Interval
  <1>3. Holds(s, e) \subseteq 1 .. Len(s)
    BY DEF Holds
  <1>4. IsFiniteSet(Holds(s, e))
    BY <1>2, <1>3, FS_Subset
  <1>5. Count(s, e) \in Nat
    BY <1>4, FS_CardinalityType DEF Count
  <1>6. Count(s, e) = 0 <=> Holds(s, e) = {}
    BY <1>4, FS_EmptySet DEF Count
  <1>7. Holds(s, e) = {} <=> \A n \in 1 .. Len(s) : s[n] # e
    BY DEF Holds
  <1> QED BY <1>4, <1>5, <1>6, <1>7

\* What joining two sequences makes.
LEMMA ConcatIs ==
  ASSUME NEW E, NEW s \in Seq(E), NEW t \in Seq(E)
  PROVE  /\ s \o t \in Seq(E) /\ Len(s \o t) = Len(s) + Len(t) /\ Len(s) \in Nat /\ Len(t) \in Nat
         /\ \A k \in 1 .. Len(s) : (s \o t)[k] = s[k]
         /\ \A k \in Len(s) + 1 .. Len(s) + Len(t) : (s \o t)[k] = t[k - Len(s)]
  <1>1. s \o t \in Seq(E) /\ Len(s \o t) = Len(s) + Len(t) /\ Len(s) \in Nat /\ Len(t) \in Nat
    OBVIOUS
  <1>2. \A k \in 1 .. Len(s) : (s \o t)[k] = s[k]
    OBVIOUS
  <1>3. \A k \in Len(s) + 1 .. Len(s) + Len(t) : (s \o t)[k] = t[k - Len(s)]
    OBVIOUS
  <1> QED BY <1>1, <1>2, <1>3

\* What is counted in two sequences is counted where they are joined.
LEMMA CountConcat ==
  ASSUME NEW E, NEW s \in Seq(E), NEW t \in Seq(E), NEW e
  PROVE  Count(s \o t, e) = Count(s, e) + Count(t, e)
  <1> DEFINE m == Len(s)
             S == Holds(s, e)
             T == Holds(t, e)
             shifted == {n \in m + 1 .. m + Len(t) : t[n - m] = e}
  <1>1. m \in Nat /\ Len(t) \in Nat /\ s \o t \in Seq(E) /\ Len(s \o t) = m + Len(t)
    OBVIOUS
  <1>2. Holds(s \o t, e) = S \cup shifted /\ S \cap shifted = {}
    <2>1. \A n \in 1 .. m : (s \o t)[n] = s[n]
      OBVIOUS
    <2>2. \A n \in m + 1 .. m + Len(t) : (s \o t)[n] = t[n - m]
      OBVIOUS
    <2>3. 1 .. m + Len(t) = (1 .. m) \cup (m + 1 .. m + Len(t)) /\ (1 .. m) \cap (m + 1 .. m + Len(t)) = {}
      BY <1>1
    <2> QED BY <1>1, <2>1, <2>2, <2>3 DEF Holds
  <1>3. IsFiniteSet(S) /\ IsFiniteSet(T)
    BY CountType
  <1>4. IsFiniteSet(shifted) /\ Cardinality(shifted) = Cardinality(T)
    <2> DEFINE f == [n \in T |-> n + m]
    <2>1. T \subseteq Nat
      BY <1>1 DEF Holds
    <2>2. f \in [T -> shifted]
      <3>1. \A n \in T : n + m \in shifted
        BY <1>1 DEF Holds
      <3> QED BY <3>1
    <2>3. f \in Injection(T, shifted)
      BY <1>1, <2>1, <2>2 DEF Injection, IsInjective
    <2>4. f \in Surjection(T, shifted)
      <3>1. \A n \in shifted : n - m \in T /\ (n - m) + m = n
        BY <1>1 DEF Holds
      <3> QED BY <2>2, <3>1 DEF Surjection
    <2>5. ExistsBijection(T, shifted)
      BY <2>3, <2>4 DEF ExistsBijection, Bijection
    <2> QED BY <1>3, <2>5, FS_Bijection
  <1> HIDE DEF S, T, shifted
  <1>5. Cardinality(S \cup shifted) = Cardinality(S) + Cardinality(shifted)
    <2>1. Cardinality({}) = 0
      BY FS_EmptySet
    <2>2. Cardinality(S) \in Nat /\ Cardinality(shifted) \in Nat
      BY <1>3, <1>4, FS_CardinalityType
    <2>3. Cardinality(S \cup shifted) = Cardinality(S) + Cardinality(shifted) - Cardinality(S \cap shifted)
      BY <1>3, <1>4, FS_Union
    <2>4. Cardinality(S \cap shifted) = 0
      BY <1>2, <2>1, Zenon
    <2> QED BY <2>2, <2>3, <2>4
  <1> QED BY <1>2, <1>4, <1>5 DEF Count, S, T

\* The count in one element.
LEMMA CountOne ==
  ASSUME NEW x, NEW e
  PROVE  Count(<<x>>, e) = IF x = e THEN 1 ELSE 0
  <1>1. Len(<<x>>) = 1 /\ <<x>>[1] = x /\ 1 .. 1 = {1}
    OBVIOUS
  <1>2. Holds(<<x>>, e) = IF x = e THEN {1} ELSE {}
    BY <1>1 DEF Holds
  <1> QED BY <1>2, FS_EmptySet, FS_Singleton DEF Count

\* An element that is removed is counted once less, one that is replaced is counted as another.
LEMMA CountRemoved ==
  ASSUME NEW E, NEW s \in Seq(E), NEW n \in 1 .. Len(s), NEW e
  PROVE  /\ RemoveAt(s, n) \in Seq(E)
         /\ \A k \in 1 .. Len(RemoveAt(s, n)) : \E j \in 1 .. Len(s) : RemoveAt(s, n)[k] = s[j]
         /\ Count(RemoveAt(s, n), e) = Count(s, e) - IF s[n] = e THEN 1 ELSE 0
  <1> DEFINE a == SubSeq(s, 1, n - 1)
             b == SubSeq(s, n + 1, Len(s))
  <1>1. Len(s) \in Nat /\ n \in Nat /\ s[n] \in E /\ <<s[n]>> \in Seq(E)
    OBVIOUS
  <1>2. a \in Seq(E) /\ Len(a) = n - 1 /\ \A k \in 1 .. n - 1 : a[k] = s[k]
    OBVIOUS
  <1>3. b \in Seq(E) /\ Len(b) = Len(s) - n /\ \A k \in 1 .. Len(s) - n : b[k] = s[n + k]
    OBVIOUS
  <1> HIDE DEF a, b
  <1>4. s = (a \o <<s[n]>>) \o b
    <2> DEFINE c == a \o <<s[n]>>
    <2>1. c \in Seq(E) /\ Len(c) = n /\ \A k \in 1 .. n : c[k] = s[k]
      <3>1. Len(a) + 1 = n
        BY <1>1, <1>2
      <3>2. c \in Seq(E) /\ Len(c) = Len(a) + 1 /\ c[Len(a) + 1] = s[n] /\ \A k \in 1 .. Len(a) : c[k] = a[k]
        BY <1>1, <1>2
      <3> HIDE DEF c
      <3>3. ASSUME NEW k \in 1 .. n PROVE c[k] = s[k]
        <4>1. CASE k = n
          BY <3>1, <3>2, <4>1
        <4>2. CASE k # n
          <5>1. k \in 1 .. n - 1 /\ k \in 1 .. Len(a)
            BY <1>1, <1>2, <4>2
          <5> QED BY <1>2, <3>2, <5>1
        <4> QED BY <4>1, <4>2
      <3> QED BY <3>1, <3>2, <3>3
    <2> HIDE DEF c
    <2> DEFINE d == c \o b
    <2>2. /\ d \in Seq(E) /\ Len(d) = Len(s)
          /\ \A k \in 1 .. n : d[k] = c[k]
          /\ \A k \in n + 1 .. Len(s) : d[k] = b[k - n]
      <3>1. Len(c) + Len(b) = Len(s) /\ Len(c) = n
        BY <1>1, <1>3, <2>1
      <3> HIDE DEF d
      <3>2. /\ d \in Seq(E) /\ Len(d) = Len(c) + Len(b)
            /\ \A k \in 1 .. Len(c) : d[k] = c[k]
            /\ \A k \in Len(c) + 1 .. Len(c) + Len(b) : d[k] = b[k - Len(c)]
        <4>1. c \in Seq(E) /\ b \in Seq(E)
          BY <1>3, <2>1
        <4> QED BY ONLY <4>1, ConcatIs DEF d
      <3> QED BY <3>1, <3>2
    <2> HIDE DEF d
    <2>3. ASSUME NEW k \in 1 .. Len(s) PROVE d[k] = s[k]
      <3>1. CASE k <= n
        BY <1>1, <2>1, <2>2, <3>1
      <3>2. CASE k > n
        <4>1. k - n \in 1 .. Len(s) - n /\ n + (k - n) = k
          BY <1>1, <3>2
        <4>2. d[k] = b[k - n]
          BY <1>1, <2>2, <3>2
        <4>3. b[k - n] = s[n + (k - n)]
          BY <1>3, <4>1
        <4> QED BY <4>1, <4>2, <4>3
      <3> QED BY <1>1, <3>1, <3>2
    <2>4. d = s
      BY <2>2, <2>3
    <2> QED BY <2>4 DEF d, c
  <1>5. RemoveAt(s, n) = a \o b
    BY DEF RemoveAt, a, b
  <1>6. Count(s, e) = (Count(a, e) + Count(<<s[n]>>, e)) + Count(b, e)
    <2>1. a \o <<s[n]>> \in Seq(E)
      BY <1>1, <1>2
    <2>2. Count((a \o <<s[n]>>) \o b, e) = Count(a \o <<s[n]>>, e) + Count(b, e)
      BY <1>3, <2>1, CountConcat
    <2>3. Count(a \o <<s[n]>>, e) = Count(a, e) + Count(<<s[n]>>, e)
      BY <1>1, <1>2, CountConcat
    <2> QED BY <1>4, <2>2, <2>3
  <1>7. Count(a \o b, e) = Count(a, e) + Count(b, e)
    BY <1>2, <1>3, CountConcat
  <1>8. Count(a, e) \in Nat /\ Count(b, e) \in Nat
    BY <1>2, <1>3, CountType
  <1>9. Count(RemoveAt(s, n), e) = Count(s, e) - IF s[n] = e THEN 1 ELSE 0
    BY <1>5, <1>6, <1>7, <1>8, CountOne
  <1>10. \A k \in 1 .. Len(a \o b) : \E j \in 1 .. Len(s) : (a \o b)[k] = s[j]
    <2> SUFFICES ASSUME NEW k \in 1 .. Len(a \o b) PROVE \E j \in 1 .. Len(s) : (a \o b)[k] = s[j]
      OBVIOUS
    <2>1. k \in 1 .. Len(s) - 1
      BY <1>1, <1>2, <1>3
    <2>2. CASE k <= n - 1
      <3>1. (a \o b)[k] = a[k] /\ k \in 1 .. n - 1 /\ k \in 1 .. Len(s)
        BY <1>1, <1>2, <1>3, <2>1, <2>2
      <3> QED BY <1>2, <3>1
    <2>3. CASE k > n - 1
      <3>1. (a \o b)[k] = b[k - (n - 1)]
        BY <1>1, <1>2, <1>3, <2>1, <2>3
      <3>2. k - (n - 1) \in 1 .. Len(s) - n /\ n + (k - (n - 1)) = k + 1 /\ k + 1 \in 1 .. Len(s)
        BY <1>1, <2>1, <2>3
      <3> QED BY <1>3, <3>1, <3>2
    <2> QED BY <1>1, <2>1, <2>2, <2>3
  <1>11. a \o b \in Seq(E)
    BY <1>2, <1>3
  <1> QED BY <1>5, <1>9, <1>10, <1>11

\* The count where an element was replaced.
LEMMA CountReplaced ==
  ASSUME NEW E, NEW s \in Seq(E), NEW n \in 1 .. Len(s), NEW x \in E, NEW e
  PROVE  /\ [s EXCEPT ![n] = x] \in Seq(E)
         /\ Count([s EXCEPT ![n] = x], e)
              = Count(s, e) - (IF s[n] = e THEN 1 ELSE 0) + (IF x = e THEN 1 ELSE 0)
  <1> DEFINE t == [s EXCEPT ![n] = x]
             rest == Holds(s, e) \ {n}
  <1>1. Len(s) \in Nat /\ t \in Seq(E) /\ Len(t) = Len(s) /\ \A k \in 1 .. Len(s) : t[k] = IF k = n THEN x ELSE s[k]
    OBVIOUS
  <1> HIDE DEF t
  <1>2. IsFiniteSet(Holds(s, e)) /\ Cardinality(Holds(s, e)) \in Nat
    BY CountType DEF Count
  <1>3. n \in Holds(s, e) <=> s[n] = e
    BY DEF Holds
  <1>4. IsFiniteSet(rest) /\ Cardinality(rest) = Cardinality(Holds(s, e)) - IF s[n] = e THEN 1 ELSE 0
    BY <1>2, <1>3, FS_RemoveElement
  <1>5. Holds(t, e) = IF x = e THEN rest \cup {n} ELSE rest
    BY <1>1 DEF Holds
  <1>6. Cardinality(rest \cup {n}) = Cardinality(rest) + 1
    <2>1. n \notin rest
      OBVIOUS
    <2> HIDE DEF rest
    <2> QED BY <1>4, <2>1, FS_AddElement
  <1> HIDE DEF rest
  <1>7. Cardinality(rest) \in Nat
    BY <1>4, FS_CardinalityType
  <1>8. Count(t, e) = Count(s, e) - (IF s[n] = e THEN 1 ELSE 0) + (IF x = e THEN 1 ELSE 0)
    BY <1>2, <1>4, <1>5, <1>6, <1>7 DEF Count
  <1> QED BY <1>1, <1>8 DEF t

-----------------------------------------------------------------------------
(* Hashmap: refinement of KeyValues.                                       *)

\* The capacity doubles with each bit.
LEMMA CapacityIs ==
  /\ Capacity \in [0 .. HashBits -> Nat \ {0}] /\ Capacity[0] = 1
  /\ \A b \in 1 .. HashBits : Capacity[b] = 2 * Capacity[b - 1]
  <1> DEFINE Pos == Nat \ {0}
             F == [p \in Nat \X Pos |-> 2 * p[2]]
             D(c) == c = [b \in 0 .. HashBits |-> IF b = 0 THEN 1 ELSE 2 * c[b - 1]]
  <1>1. HashBits \in Nat
    BY HashAssumption
  <1>2. F \in [Nat \X Pos -> Pos] /\ \A b \in Nat, y \in Pos : F[<<b, y>>] = 2 * y
    OBVIOUS
  <1> HIDE DEF F
  <1>3. PICK f \in [0 .. HashBits -> Pos] : Steps(f, HashBits, 1, F)
    <2>1. 1 \in Pos
      OBVIOUS
    <2> HIDE DEF Pos
    <2> QED BY <1>1, <1>2, <2>1, StepsExist
  <1>4. \A b \in 1 .. HashBits : b - 1 \in 0 .. HashBits /\ b \in Nat /\ f[b] = 2 * f[b - 1]
    <2> SUFFICES ASSUME NEW b \in 1 .. HashBits PROVE b - 1 \in 0 .. HashBits /\ b \in Nat /\ f[b] = 2 * f[b - 1]
      OBVIOUS
    <2>1. b - 1 \in 0 .. HashBits /\ b \in Nat
      BY <1>1
    <2>2. f[b] = F[<<b, f[b - 1]>>] /\ f[b - 1] \in Pos
      BY <1>3, <2>1 DEF Steps
    <2> QED BY <1>2, <2>1, <2>2
  <1>5. D(f)
    <2>1. \A b \in 0 .. HashBits : f[b] = IF b = 0 THEN 1 ELSE 2 * f[b - 1]
      BY <1>1, <1>3, <1>4 DEF Steps
    <2> QED BY <2>1
  <1>6. D(Capacity)
    <2>1. Capacity = CHOOSE c : D(c)
      BY DEF Capacity
    <2> HIDE DEF D
    <2> QED BY <1>5, <2>1
  <1>7. DOMAIN Capacity = 0 .. HashBits /\ \A b \in 0 .. HashBits : Capacity[b] = IF b = 0 THEN 1 ELSE 2 * Capacity[b - 1]
    BY <1>6
  <1>8. Capacity[0] = 1 /\ \A b \in 1 .. HashBits : Capacity[b] = 2 * Capacity[b - 1]
    BY <1>1, <1>7
  <1>9. \A b \in 0 .. HashBits : Capacity[b] \in Pos
    <2> DEFINE T == {b \in Nat : b <= HashBits => Capacity[b] \in Pos}
    <2>1. 0 \in T
      BY <1>8
    <2>2. ASSUME NEW b \in T PROVE b + 1 \in T
      <3> SUFFICES ASSUME b + 1 <= HashBits PROVE Capacity[b + 1] \in Pos
        OBVIOUS
      <3>1. b + 1 \in 1 .. HashBits /\ (b + 1) - 1 = b /\ Capacity[b] \in Pos
        BY <1>1
      <3>2. Capacity[b + 1] = 2 * Capacity[b]
        BY <1>8, <3>1
      <3> QED BY <3>1, <3>2
    <2> HIDE DEF T
    <2>3. T \in SUBSET Nat
      BY DEF T
    <2>4. T = Nat
      BY <2>1, <2>2, <2>3, SetInduction
    <2> QED BY <1>1, <2>4 DEF T
  <1>10. Capacity = [b \in 0 .. HashBits |-> Capacity[b]]
    BY <1>6, <1>7
  <1> QED BY <1>8, <1>9, <1>10

\* Bits add where capacities multiply.
LEMMA CapacityProduct ==
  ASSUME NEW n \in 0 .. HashBits
  PROVE  Capacity[HashBits] = Capacity[n] * Capacity[HashBits - n]
  <1> DEFINE T == {b \in Nat : b <= HashBits => Capacity[HashBits] = Capacity[b] * Capacity[HashBits - b]}
  <1>1. HashBits \in Nat
    BY HashAssumption
  <1>2. 0 \in T
    <2>1. HashBits - 0 = HashBits /\ Capacity[HashBits] \in Nat /\ Capacity[0] = 1
      BY <1>1, CapacityIs
    <2> QED BY <2>1
  <1>3. ASSUME NEW b \in T PROVE b + 1 \in T
    <2> SUFFICES ASSUME b + 1 <= HashBits PROVE Capacity[HashBits] = Capacity[b + 1] * Capacity[HashBits - (b + 1)]
      OBVIOUS
    <2>1. /\ b + 1 \in 1 .. HashBits /\ (b + 1) - 1 = b /\ b \in 0 .. HashBits
          /\ HashBits - b \in 1 .. HashBits /\ (HashBits - b) - 1 = HashBits - (b + 1)
          /\ HashBits - (b + 1) \in 0 .. HashBits
      BY <1>1
    <2>2. Capacity[b + 1] = 2 * Capacity[b] /\ Capacity[HashBits - b] = 2 * Capacity[HashBits - (b + 1)]
      BY <2>1, CapacityIs
    <2>3. Capacity[HashBits] = Capacity[b] * Capacity[HashBits - b]
      BY <2>1
    <2>4. Capacity[b] \in Nat /\ Capacity[HashBits - (b + 1)] \in Nat
      BY <2>1, CapacityIs
    <2>5. \A x, y \in Nat : x * (2 * y) = (2 * x) * y
      OBVIOUS
    <2> QED BY <2>2, <2>3, <2>4, <2>5
  <1>4. T = Nat
    <2> HIDE DEF T
    <2>1. T \in SUBSET Nat
      BY DEF T
    <2> QED BY <1>2, <1>3, <2>1, SetInduction
  <1>5. n \in T
    BY <1>1, <1>4
  <1> QED BY <1>5

\* A bucket is one of the array.
LEMMA HashBitsRange ==
  ASSUME NEW k \in HashKeys, NEW bits \in 0 .. HashBits
  PROVE  hash_bits(k, bits) \in 0 .. Capacity[bits] - 1
  <1> DEFINE a == Capacity[bits]
             c == Capacity[HashBits - bits]
             h == HashOf[k]
             q == h \div c
  <1>1. HashBits \in Nat /\ HashBits - bits \in 0 .. HashBits
    BY HashAssumption
  <1>2. a \in Nat \ {0} /\ c \in Nat \ {0}
    BY <1>1, CapacityIs
  <1>3. h \in 0 .. a * c - 1
    BY HashAssumption, CapacityProduct
  <1> HIDE DEF a, c, h
  <1>4. h \in Int /\ h >= 0 /\ h < a * c
    BY <1>2, <1>3
  <1>5. q \in Int /\ h % c \in 0 .. c - 1 /\ h = c * q + (h % c)
    BY <1>2, <1>4, ModDef
  <1> DEFINE r == h % c
  <1> HIDE DEF q, r
  <1>6. q >= 0
    <2> SUFFICES ASSUME q <= -1 PROVE FALSE
      BY <1>5
    <2>1. c * q <= c * (-1)
      BY <1>2, <1>5
    <2> QED BY <1>2, <1>4, <1>5, <2>1 DEF r
  <1>7. q < a
    <2> SUFFICES ASSUME q >= a PROVE FALSE
      BY <1>2, <1>5
    <2>1. c * q >= c * a /\ c * a = a * c
      BY <1>2, <1>5
    <2> QED BY <1>2, <1>4, <1>5, <2>1 DEF r
  <1> QED BY <1>2, <1>5, <1>6, <1>7 DEF hash_bits, a, c, h, q

\* What an entry is.
HashEntries == [key : HashKeys, value : HashValues]

\* Chains for so many bits: each entry is in the bucket of its key.
Chains(bits) ==
  {chains \in [0 .. Capacity[bits] - 1 -> Seq(HashEntries)] :
     \A b \in 0 .. Capacity[bits] - 1 : \A n \in 1 .. Len(chains[b]) :
       hash_bits(chains[b][n].key, bits) = b}

\* An entry is its key and its value.
LEMMA EntryIs ==
  /\ \A k \in HashKeys, v \in HashValues :
       Entry(k, v) \in HashEntries /\ Entry(k, v).key = k /\ Entry(k, v).value = v
  /\ \A e \in HashEntries : e.key \in HashKeys /\ e.value \in HashValues /\ e = Entry(e.key, e.value)
  BY DEF HashEntries, Entry

\* An entry that is put in front of its chain is counted once more, and no other is.
LEMMA AddedIs ==
  ASSUME NEW bits \in 0 .. HashBits, NEW chains \in Chains(bits), NEW e \in HashEntries
  PROVE  LET added == AddedTo(chains, hash_bits(e.key, bits), e)
         IN /\ added \in Chains(bits)
            /\ \A x \in HashEntries :
                 Count(added[hash_bits(x.key, bits)], x)
                   = Count(chains[hash_bits(x.key, bits)], x) + IF x = e THEN 1 ELSE 0
  <1> DEFINE b == hash_bits(e.key, bits)
             added == AddedTo(chains, b, e)
             B == 0 .. Capacity[bits] - 1
  <1>1. b \in B
    BY HashBitsRange, EntryIs
  <1>2. chains \in [B -> Seq(HashEntries)]
    BY DEF Chains
  <1>3. \A c \in B : \A n \in 1 .. Len(chains[c]) : hash_bits(chains[c][n].key, bits) = c
    BY DEF Chains
  <1>4. added = [chains EXCEPT ![b] = <<e>> \o chains[b]]
    BY <1>1, <1>2 DEF AddedTo
  <1>5. /\ <<e>> \o chains[b] \in Seq(HashEntries)
        /\ \A n \in 1 .. Len(<<e>> \o chains[b]) : hash_bits((<<e>> \o chains[b])[n].key, bits) = b
    <2> DEFINE s == chains[b]
    <2>1. s \in Seq(HashEntries) /\ <<e>> \in Seq(HashEntries) /\ Len(<<e>>) = 1 /\ <<e>>[1] = e
      BY <1>1, <1>2
    <2>2. \A n \in 1 .. Len(s) : hash_bits(s[n].key, bits) = b
      BY <1>1, <1>3
    <2> HIDE DEF s
    <2>3. /\ <<e>> \o s \in Seq(HashEntries) /\ Len(<<e>> \o s) = Len(<<e>>) + Len(s) /\ Len(s) \in Nat
          /\ \A k \in 1 .. Len(<<e>>) : (<<e>> \o s)[k] = <<e>>[k]
          /\ \A k \in Len(<<e>>) + 1 .. Len(<<e>>) + Len(s) : (<<e>> \o s)[k] = s[k - Len(<<e>>)]
      <3>1. s \in Seq(HashEntries) /\ <<e>> \in Seq(HashEntries)
        BY <2>1
      <3> QED BY ONLY <3>1, ConcatIs
    <2> DEFINE t == <<e>> \o s
    <2> HIDE DEF t
    <2>4. t \in Seq(HashEntries) /\ Len(t) = 1 + Len(s) /\ t[1] = e /\ \A k \in 2 .. 1 + Len(s) : t[k] = s[k - 1]
      BY <2>1, <2>3 DEF t
    <2>5. \A n \in 1 .. Len(t) : hash_bits(t[n].key, bits) = b
      <3> SUFFICES ASSUME NEW n \in 1 .. Len(t) PROVE hash_bits(t[n].key, bits) = b
        OBVIOUS
      <3>1. CASE n = 1
        BY <2>4, <3>1
      <3>2. CASE n # 1
        <4>1. n \in 2 .. 1 + Len(s) /\ n - 1 \in 1 .. Len(s)
          BY <2>3, <2>4, <3>2
        <4> QED BY <2>2, <2>4, <4>1
      <3> QED BY <3>1, <3>2
    <2> QED BY <2>4, <2>5 DEF t, s
  <1>6. \A c \in B : added[c] = IF c = b THEN <<e>> \o chains[b] ELSE chains[c]
    BY <1>1, <1>2, <1>4
  <1>7. added \in Chains(bits)
    <2>1. added \in [B -> Seq(HashEntries)]
      BY <1>1, <1>2, <1>4, <1>5
    <2> HIDE DEF added, b
    <2>2. \A c \in B : \A n \in 1 .. Len(added[c]) : hash_bits(added[c][n].key, bits) = c
      BY <1>3, <1>5, <1>6
    <2> QED BY <2>1, <2>2 DEF Chains
  <1>8. ASSUME NEW x \in HashEntries
        PROVE  Count(added[hash_bits(x.key, bits)], x) = Count(chains[hash_bits(x.key, bits)], x) + IF x = e THEN 1 ELSE 0
    <2> DEFINE c == hash_bits(x.key, bits)
    <2>1. c \in B /\ chains[c] \in Seq(HashEntries) /\ Count(chains[c], x) \in Nat
      <3>1. c \in B
        BY HashBitsRange, EntryIs
      <3>2. chains[c] \in Seq(HashEntries)
        BY <1>2, <3>1
      <3> HIDE DEF c
      <3> QED BY <3>1, <3>2, CountType
    <2>2. CASE c = b
      <3>1. <<e>> \in Seq(HashEntries)
        OBVIOUS
      <3>2. added[c] = <<e>> \o chains[c]
        BY <1>6, <2>1, <2>2
      <3>3. Count(<<e>> \o chains[c], x) = Count(<<e>>, x) + Count(chains[c], x)
        <4> HIDE DEF c
        <4> QED BY <2>1, <3>1, CountConcat
      <3>4. Count(<<e>>, x) = IF x = e THEN 1 ELSE 0
        BY CountOne
      <3> HIDE DEF c, added
      <3> QED BY <2>1, <3>2, <3>3, <3>4 DEF c
    <2>3. CASE c # b
      <3>1. added[c] = chains[c] /\ x # e
        BY <1>6, <2>1, <2>3
      <3> HIDE DEF added
      <3> QED BY <2>1, <3>1
    <2> QED BY <2>2, <2>3
  <1> QED BY <1>7, <1>8

\* The entries are collected chain by chain.
LEMMA AllEntriesAre ==
  ASSUME cap \in Nat, \A b \in 1 .. cap : buckets[b - 1] \in Seq(HashEntries)
  PROVE  \E f \in [0 .. cap -> Seq(HashEntries)] :
           /\ f[0] = <<>> /\ \A b \in 1 .. cap : f[b] = f[b - 1] \o buckets[b - 1]
           /\ AllEntries = f[cap]
  <1> DEFINE S == Seq(HashEntries)
             Add(b, y) == y \o buckets[b - 1]
             F == [p \in Nat \X S |-> IF p[1] \in 1 .. cap THEN Add(p[1], p[2]) ELSE p[2]]
             D(g) == g = [b \in 0 .. cap |-> IF b = 0 THEN <<>> ELSE Add(b, g[b - 1])]
  <1>1. \A b \in 1 .. cap, y \in S : Add(b, y) \in S
    OBVIOUS
  <1>2. <<>> \in S
    OBVIOUS
  <1>0. AllEntries = (CHOOSE g : D(g))[cap]
    BY DEF AllEntries
  <1> HIDE DEF S, Add
  <1>3. F \in [Nat \X S -> S]
    BY <1>1
  <1>4. \A b \in 1 .. cap, y \in S : F[<<b, y>>] = Add(b, y)
    OBVIOUS
  <1> HIDE DEF F
  <1>5. PICK f \in [0 .. cap -> S] : Steps(f, cap, <<>>, F)
    BY <1>2, <1>3, StepsExist
  <1>6. \A b \in 1 .. cap : b - 1 \in 0 .. cap /\ f[b] = Add(b, f[b - 1])
    <2> SUFFICES ASSUME NEW b \in 1 .. cap PROVE b - 1 \in 0 .. cap /\ f[b] = Add(b, f[b - 1])
      OBVIOUS
    <2>1. b - 1 \in 0 .. cap
      OBVIOUS
    <2>2. f[b] = F[<<b, f[b - 1]>>] /\ f[b - 1] \in S
      BY <1>5, <2>1 DEF Steps
    <2> QED BY <1>4, <2>1, <2>2
  <1>7. f[0] = <<>>
    BY <1>5 DEF Steps
  <1>8. D(f)
    <2>1. \A b \in 0 .. cap : f[b] = IF b = 0 THEN <<>> ELSE Add(b, f[b - 1])
      BY <1>6, <1>7
    <2> QED BY <2>1
  <1>9. PICK g : D(g) /\ AllEntries = g[cap]
    <2> HIDE DEF D
    <2> QED BY <1>0, <1>8
  <1>10. \A b \in 0 .. cap : g[b] = IF b = 0 THEN <<>> ELSE Add(b, g[b - 1])
    BY <1>9
  <1>11. g[cap] = f[cap]
    <2> DEFINE T == {b \in Nat : b <= cap => g[b] = f[b]}
    <2>1. 0 \in T
      BY <1>7, <1>10
    <2>2. ASSUME NEW b \in T PROVE b + 1 \in T
      <3> SUFFICES ASSUME b + 1 <= cap PROVE g[b + 1] = f[b + 1]
        OBVIOUS
      <3>1. b + 1 \in 1 .. cap /\ (b + 1) - 1 = b /\ g[b] = f[b]
        OBVIOUS
      <3> QED BY <1>6, <1>10, <3>1
    <2> HIDE DEF T
    <2>3. T \in SUBSET Nat
      BY DEF T
    <2>4. T = Nat
      BY <2>1, <2>2, <2>3, SetInduction
    <2> QED BY <2>4 DEF T
  <1> QED BY <1>5, <1>6, <1>7, <1>9, <1>11 DEF S, Add

\* They are the entries of all chains, each as often as in its own.
LEMMA AllEntriesCount ==
  ASSUME cap_bits \in 0 .. HashBits, buckets \in Chains(cap_bits)
  PROVE  /\ cap = Capacity[cap_bits] /\ AllEntries \in Seq(HashEntries)
         /\ \A x \in HashEntries :
              Count(AllEntries, x) = Count(buckets[hash_bits(x.key, cap_bits)], x)
  <1> DEFINE c == Capacity[cap_bits]
  <1>1. c \in Nat \ {0}
    BY CapacityIs
  <1>2. buckets \in [0 .. c - 1 -> Seq(HashEntries)]
    BY DEF Chains
  <1>3. \A b \in 0 .. c - 1 : \A n \in 1 .. Len(buckets[b]) : hash_bits(buckets[b][n].key, cap_bits) = b
    BY DEF Chains
  <1>4. cap = c
    <2>1. 0 \in DOMAIN buckets /\ DOMAIN <<>> = {}
      BY <1>1, <1>2
    <2> QED BY <2>1 DEF cap
  <1> HIDE DEF c
  <1>5. \A b \in 1 .. cap : b - 1 \in 0 .. c - 1 /\ buckets[b - 1] \in Seq(HashEntries)
    BY <1>1, <1>2, <1>4
  <1>6. PICK f \in [0 .. c -> Seq(HashEntries)] :
          /\ f[0] = <<>> /\ \A b \in 1 .. c : f[b] = f[b - 1] \o buckets[b - 1]
          /\ AllEntries = f[c]
    BY <1>1, <1>4, <1>5, AllEntriesAre
  <1>7. ASSUME NEW x \in HashEntries PROVE Count(f[c], x) = Count(buckets[hash_bits(x.key, cap_bits)], x)
    <2> DEFINE h == hash_bits(x.key, cap_bits)
               N(b) == IF h < b THEN Count(buckets[h], x) ELSE 0
               T == {b \in Nat : b <= c => Count(f[b], x) = N(b)}
    <2>1. h \in 0 .. c - 1
      BY HashBitsRange, EntryIs DEF c
    <2> HIDE DEF h
    <2>2. Count(buckets[h], x) \in Nat
      BY <1>2, <2>1, CountType
    <2>3. 0 \in T
      <3>1. Count(<<>>, x) = 0
        <4>1. <<>> \in Seq(HashEntries) /\ Len(<<>>) = 0 /\ 1 .. 0 = {}
          OBVIOUS
        <4> QED BY <4>1, CountType
      <3> QED BY <1>1, <1>6, <2>1, <3>1
    <2>4. ASSUME NEW b \in T PROVE b + 1 \in T
      <3> SUFFICES ASSUME b + 1 <= c PROVE Count(f[b + 1], x) = N(b + 1)
        OBVIOUS
      <3>1. b \in Nat /\ b + 1 \in 1 .. c /\ (b + 1) - 1 = b /\ b \in 0 .. c - 1 /\ b \in 0 .. c
        BY <1>1
      <3>2. f[b + 1] = f[b] \o buckets[b] /\ f[b] \in Seq(HashEntries) /\ buckets[b] \in Seq(HashEntries)
        BY <1>2, <1>6, <3>1
      <3>3. Count(f[b + 1], x) = Count(f[b], x) + Count(buckets[b], x)
        BY <3>2, CountConcat
      <3>4. Count(f[b], x) = N(b)
        BY <1>1, <3>1
      <3>5. b # h => Count(buckets[b], x) = 0
        <4> SUFFICES ASSUME b # h PROVE Count(buckets[b], x) = 0
          OBVIOUS
        <4>1. \A n \in 1 .. Len(buckets[b]) : buckets[b][n] # x
          BY <1>3, <3>1 DEF h
        <4> QED BY <3>2, <4>1, CountType
      <3> HIDE DEF T
      <3> QED BY <1>1, <2>1, <2>2, <3>1, <3>3, <3>4, <3>5
    <2> HIDE DEF T
    <2>5. T \in SUBSET Nat
      BY DEF T
    <2>6. T = Nat
      BY <2>3, <2>4, <2>5, SetInduction
    <2>7. c \in T
      BY <1>1, <2>6
    <2> QED BY <1>1, <2>1, <2>7 DEF T, h
  <1>8. AllEntries \in Seq(HashEntries)
    <2>1. c \in 0 .. c
      BY <1>1
    <2> QED BY <1>6, <2>1
  <1> QED BY <1>4, <1>6, <1>7, <1>8 DEF c

\* hashmap_grow relinks the entries one by one.
LEMMA GrownIs ==
  ASSUME new_cap_bits \in 0 .. HashBits, AllEntries \in Seq(HashEntries)
  PROVE  /\ Grown \in Chains(new_cap_bits)
         /\ \A x \in HashEntries :
              Count(Grown[hash_bits(x.key, new_cap_bits)], x) = Count(AllEntries, x)
  <1> DEFINE es == AllEntries
             n == Len(es)
             bits == new_cap_bits
             S == Chains(bits)
             none == [b \in 0 .. Capacity[bits] - 1 |-> <<>>]
             Add(k, y) == AddedTo(y, hash_bits(es[k].key, bits), es[k])
             F == [p \in Nat \X S |-> IF p[1] \in 1 .. n THEN Add(p[1], p[2]) ELSE p[2]]
             D(g) == g = [k \in 0 .. n |-> IF k = 0 THEN none ELSE Add(k, g[k - 1])]
  <1>1. n \in Nat /\ \A k \in 1 .. n : es[k] \in HashEntries
    OBVIOUS
  <1>2. none \in S
    BY DEF Chains
  <1>3. \A k \in 1 .. n, y \in S :
          /\ Add(k, y) \in S
          /\ \A x \in HashEntries : Count(Add(k, y)[hash_bits(x.key, bits)], x)
                                      = Count(y[hash_bits(x.key, bits)], x) + IF x = es[k] THEN 1 ELSE 0
    BY <1>1, AddedIs
  <1>4. Grown = (CHOOSE g : D(g))[n]
    BY DEF Grown
  <1>0. es \in Seq(HashEntries)
    OBVIOUS
  <1> HIDE DEF S, Add, none, es, n
  <1>5. F \in [Nat \X S -> S] /\ \A k \in 1 .. n, y \in S : F[<<k, y>>] = Add(k, y)
    BY <1>1, <1>3
  <1> HIDE DEF F
  <1>6. PICK f \in [0 .. n -> S] : Steps(f, n, none, F)
    BY <1>1, <1>2, <1>5, StepsExist
  <1>7. f[0] = none /\ \A k \in 1 .. n : k - 1 \in 0 .. n /\ f[k] = Add(k, f[k - 1])
    <2>1. f[0] = none
      BY <1>6 DEF Steps
    <2>2. ASSUME NEW k \in 1 .. n PROVE k - 1 \in 0 .. n /\ f[k] = Add(k, f[k - 1])
      <3>1. k - 1 \in 0 .. n
        BY <1>1
      <3>2. f[k] = F[<<k, f[k - 1]>>] /\ f[k - 1] \in S
        BY <1>6, <3>1 DEF Steps
      <3> QED BY <1>5, <3>1, <3>2
    <2> QED BY <2>1, <2>2
  <1>8. D(f)
    <2>1. \A k \in 0 .. n : f[k] = IF k = 0 THEN none ELSE Add(k, f[k - 1])
      BY <1>1, <1>7
    <2> QED BY <2>1
  <1>9. PICK g : D(g) /\ Grown = g[n]
    <2> HIDE DEF D
    <2> QED BY <1>4, <1>8
  <1>10. \A k \in 0 .. n : g[k] = IF k = 0 THEN none ELSE Add(k, g[k - 1])
    BY <1>9
  <1> DEFINE Right(k) ==
        /\ g[k] \in S
        /\ \A x \in HashEntries : Count(g[k][hash_bits(x.key, bits)], x) = Count(SubSeq(es, 1, k), x)
      T == {k \in Nat : k <= n => Right(k)}
  <1>11. 0 \in T
    <2>1. g[0] = none
      BY <1>1, <1>10
    <2>2. ASSUME NEW x \in HashEntries
          PROVE  Count(none[hash_bits(x.key, bits)], x) = Count(SubSeq(es, 1, 0), x)
      <3>1. none[hash_bits(x.key, bits)] = <<>>
        BY HashBitsRange, EntryIs DEF none
      <3>2. SubSeq(es, 1, 0) = <<>>
        BY <1>0
      <3> QED BY <3>1, <3>2
    <2> QED BY <1>2, <2>1, <2>2
  <1>12. ASSUME NEW k \in T PROVE k + 1 \in T
    <2> SUFFICES ASSUME k + 1 <= n PROVE Right(k + 1)
      OBVIOUS
    <2>1. k \in Nat /\ k + 1 \in 1 .. n /\ (k + 1) - 1 = k /\ Right(k)
      BY <1>1
    <2> HIDE DEF T
    <2>2. g[k + 1] = Add(k + 1, g[k])
      BY <1>1, <1>10, <2>1
    <2>3. /\ g[k + 1] \in S
          /\ \A x \in HashEntries : Count(g[k + 1][hash_bits(x.key, bits)], x)
                                      = Count(g[k][hash_bits(x.key, bits)], x) + IF x = es[k + 1] THEN 1 ELSE 0
      BY <1>3, <2>1, <2>2
    <2>4. ASSUME NEW x \in HashEntries
          PROVE  Count(SubSeq(es, 1, k + 1), x) = Count(SubSeq(es, 1, k), x) + IF x = es[k + 1] THEN 1 ELSE 0
      <3> DEFINE s == SubSeq(es, 1, k)
                 t == <<es[k + 1]>>
      <3>1. s \in Seq(HashEntries) /\ Len(s) = k /\ \A j \in 1 .. k : s[j] = es[j]
        BY <1>0, <1>1, <2>1 DEF n
      <3>2. t \in Seq(HashEntries) /\ Len(t) = 1 /\ t[1] = es[k + 1]
        BY <1>1, <2>1
      <3> HIDE DEF s, t
      <3>3. /\ s \o t \in Seq(HashEntries) /\ Len(s \o t) = Len(s) + Len(t)
            /\ \A j \in 1 .. Len(s) : (s \o t)[j] = s[j]
            /\ \A j \in Len(s) + 1 .. Len(s) + Len(t) : (s \o t)[j] = t[j - Len(s)]
        BY <3>1, <3>2, ConcatIs
      <3> DEFINE u == s \o t
                 w == SubSeq(es, 1, k + 1)
      <3>4. w \in Seq(HashEntries) /\ Len(w) = k + 1 /\ \A j \in 1 .. k + 1 : w[j] = es[j]
        BY <1>0, <1>1, <2>1 DEF n
      <3> HIDE DEF u, w
      <3>5. u \in Seq(HashEntries) /\ Len(u) = k + 1 /\ \A j \in 1 .. k + 1 : u[j] = es[j]
        <4>1. u \in Seq(HashEntries) /\ Len(u) = k + 1
          BY <3>1, <3>2, <3>3 DEF u
        <4>2. \A j \in 1 .. k : u[j] = es[j]
          BY <3>1, <3>3 DEF u
        <4>3. u[k + 1] = es[k + 1]
          <5>1. k + 1 \in Len(s) + 1 .. Len(s) + Len(t) /\ (k + 1) - Len(s) = 1
            BY <2>1, <3>1, <3>2
          <5> QED BY <3>2, <3>3, <5>1 DEF u
        <4> QED BY <2>1, <4>1, <4>2, <4>3
      <3>6. w = u
        BY <3>4, <3>5
      <3>7. Count(s \o t, x) = Count(s, x) + Count(t, x)
        BY <3>1, <3>2, CountConcat
      <3>8. Count(t, x) = IF x = es[k + 1] THEN 1 ELSE 0
        BY CountOne DEF t
      <3> QED BY <3>6, <3>7, <3>8 DEF s, u, w
    <2> QED BY <2>1, <2>3, <2>4
  <1> HIDE DEF Right
  <1>13. T = Nat
    <2> HIDE DEF T
    <2>1. T \in SUBSET Nat
      BY DEF T
    <2> QED BY <1>11, <1>12, <2>1, SetInduction
  <1>14. Right(n)
    BY <1>1, <1>13
  <1>15. SubSeq(es, 1, n) = es
    BY <1>0 DEF n
  <1> QED BY <1>9, <1>14, <1>15 DEF Right, S, es
\* The invariant: the array is of a power of two chains, or there is none yet.
HashInv ==
  /\ cap_bits \in 0 .. HashBits
  /\ \/ buckets = <<>> /\ cap_bits = 0
     \/ buckets \in Chains(cap_bits)
  /\ sz \in Int /\ sz <= MaxEntries

\* The chain of a key in an array of chains.
LEMMA ChainIs ==
  ASSUME NEW bits \in 0 .. HashBits, NEW c \in Chains(bits), NEW k \in HashKeys
  PROVE  c # <<>> /\ hash_bits(k, bits) \in DOMAIN c /\ c[hash_bits(k, bits)] \in Seq(HashEntries)
  <1>1. c \in [0 .. Capacity[bits] - 1 -> Seq(HashEntries)]
    BY DEF Chains
  <1>2. hash_bits(k, bits) \in 0 .. Capacity[bits] - 1
    BY HashBitsRange
  <1>3. DOMAIN <<>> = {}
    OBVIOUS
  <1> QED BY <1>1, <1>2, <1>3

\* What is found of a key in a chain.
LEMMA PlacesAre ==
  ASSUME NEW s \in Seq(HashEntries), NEW k \in HashKeys
  PROVE  /\ \A v \in HashValues :
              Cardinality({n \in PlacesOf(k, s) : s[n].value = v}) = Count(s, Entry(k, v))
         /\ PlacesOf(k, s) = {n \in 1 .. Len(s) : s[n].key = k}
         /\ PlacesOf(k, s) # {} <=> \E v \in HashValues : Count(s, Entry(k, v)) > 0
         /\ PlacesOf(k, s) # {} => \E n \in PlacesOf(k, s) : \A m \in PlacesOf(k, s) : n <= m
  <1>1. PlacesOf(k, s) = {n \in 1 .. Len(s) : s[n].key = k}
    BY DEF PlacesOf
  <1>2. \A n \in 1 .. Len(s) : s[n] \in HashEntries
    OBVIOUS
  <1>3. ASSUME NEW v \in HashValues
        PROVE  {n \in PlacesOf(k, s) : s[n].value = v} = Holds(s, Entry(k, v))
    <2>1. \A n \in 1 .. Len(s) : s[n] = Entry(k, v) <=> s[n].key = k /\ s[n].value = v
      BY <1>2, EntryIs
    <2> QED BY <1>1, <2>1 DEF Holds
  <1>4. PlacesOf(k, s) # {} <=> \E v \in HashValues : Count(s, Entry(k, v)) > 0
    <2>1. \A v \in HashValues : Count(s, Entry(k, v)) > 0 <=> \E n \in 1 .. Len(s) : s[n] = Entry(k, v)
      <3> TAKE v \in HashValues
      <3> DEFINE e == Entry(k, v)
      <3> HIDE DEF e
      <3>1. Count(s, e) \in Nat /\ (Count(s, e) = 0 <=> \A n \in 1 .. Len(s) : s[n] # e)
        BY CountType
      <3>2. Count(s, e) > 0 <=> \E n \in 1 .. Len(s) : s[n] = e
        BY <3>1
      <3> QED BY <3>2 DEF e
    <2>2. \A n \in PlacesOf(k, s) : s[n].value \in HashValues /\ s[n] = Entry(k, s[n].value) /\ n \in 1 .. Len(s)
      BY <1>1, <1>2, EntryIs
    <2>3. \A v \in HashValues : \A n \in 1 .. Len(s) : s[n] = Entry(k, v) => n \in PlacesOf(k, s)
      BY <1>1, EntryIs
    <2> QED BY <2>1, <2>2, <2>3
  <1>5. PlacesOf(k, s) # {} => \E n \in PlacesOf(k, s) : \A m \in PlacesOf(k, s) : n <= m
    <2>1. PlacesOf(k, s) \in SUBSET Nat
      BY <1>1
    <2> QED BY <2>1, LeastElement
  <1> QED BY <1>1, <1>3, <1>4, <1>5 DEF Count

\* The entries of a key are those in its chain, and it is found if there are any.
LEMMA EntryCountIs ==
  ASSUME HashInv, NEW k \in HashKeys
  PROVE  /\ ChainOf(k) \in Seq(HashEntries)
         /\ \A v \in HashValues : EntryCount(k, v) = Count(ChainOf(k), Entry(k, v)) /\ EntryCount(k, v) \in Nat
         /\ buckets \in Chains(cap_bits) => ChainOf(k) = buckets[hash_bits(k, cap_bits)]
         /\ Present(k) <=> \E v \in HashValues : EntryCount(k, v) > 0
         /\ Present(k) => /\ buckets \in Chains(cap_bits) /\ FoundAt(k) \in 1 .. Len(ChainOf(k))
                          /\ ChainOf(k)[FoundAt(k)].key = k
  <1> DEFINE s == ChainOf(k)
  <1>1. buckets \in Chains(cap_bits) => s = buckets[hash_bits(k, cap_bits)] /\ s \in Seq(HashEntries)
    BY ChainIs DEF HashInv, ChainOf
  <1>2. buckets = <<>> => s = <<>>
    BY DEF ChainOf
  <1>3. s \in Seq(HashEntries)
    <2>1. <<>> \in Seq(HashEntries)
      OBVIOUS
    <2> QED BY <1>1, <1>2, <2>1 DEF HashInv
  <1>4. \A v \in HashValues : EntryCount(k, v) = Cardinality({n \in PlacesOf(k, s) : s[n].value = v})
    BY DEF EntryCount
  <1>5. Present(k) <=> PlacesOf(k, s) # {}
    BY DEF Present
  <1>6. FoundAt(k) = CHOOSE n \in PlacesOf(k, s) : \A m \in PlacesOf(k, s) : n <= m
    BY DEF FoundAt
  <1>7. PlacesOf(k, <<>>) = {}
    BY DEF PlacesOf
  <1>8. Present(k) => buckets \in Chains(cap_bits)
    BY <1>2, <1>5, <1>7 DEF HashInv
  <1> HIDE DEF s
  <1>9. \A v \in HashValues : Count(s, Entry(k, v)) \in Nat
    BY <1>3, CountType
  <1>10. \A v \in HashValues : EntryCount(k, v) = Count(s, Entry(k, v))
    <2> TAKE v \in HashValues
    <2>1. Cardinality({n \in PlacesOf(k, s) : s[n].value = v}) = Count(s, Entry(k, v))
      BY <1>3, PlacesAre
    <2> QED BY <1>4, <2>1, Zenon
  <1>11. Present(k) <=> \E v \in HashValues : EntryCount(k, v) > 0
    BY <1>3, <1>5, <1>10, PlacesAre
  <1>12. Present(k) => FoundAt(k) \in 1 .. Len(s) /\ s[FoundAt(k)].key = k
    <2>1. Present(k) => FoundAt(k) \in PlacesOf(k, s)
      BY <1>3, <1>5, <1>6, PlacesAre
    <2>2. PlacesOf(k, s) = {n \in 1 .. Len(s) : s[n].key = k}
      BY <1>3, PlacesAre
    <2> QED BY <2>1, <2>2
  <1> QED BY <1>1, <1>3, <1>8, <1>9, <1>10, <1>11, <1>12 DEF s

\* The chains that an insertion adds to hold every entry as often as before, whether the
\* array grows or not, and there is a bit left to grow by.
LEMMA BaseIs ==
  ASSUME HashInv
  PROVE  LET bits == IF hashmap_needs_to_grow THEN new_cap_bits ELSE cap_bits
             base == IF hashmap_needs_to_grow THEN Grown ELSE buckets
         IN /\ bits \in 0 .. HashBits /\ base \in Chains(bits)
            /\ \A q \in HashKeys, w \in HashValues :
                 Count(base[hash_bits(q, bits)], Entry(q, w)) = EntryCount(q, w)
  <1>1. \A q \in HashKeys, w \in HashValues :
          EntryCount(q, w) = Count(ChainOf(q), Entry(q, w)) /\ Entry(q, w) \in HashEntries /\ Entry(q, w).key = q
    BY EntryCountIs, EntryIs
  <1>2. buckets \in Chains(cap_bits) => \A q \in HashKeys : ChainOf(q) = buckets[hash_bits(q, cap_bits)]
    BY EntryCountIs
  <1>3. cap_bits \in 0 .. HashBits /\ HashBits \in Nat
    BY HashAssumption DEF HashInv
  <1>4. CASE ~ hashmap_needs_to_grow
    <2>1. buckets # <<>>
      BY <1>4 DEF hashmap_needs_to_grow, cap
    <2>2. buckets \in Chains(cap_bits)
      BY <2>1 DEF HashInv
    <2> QED BY <1>1, <1>2, <1>3, <1>4, <2>2
  <1>5. CASE hashmap_needs_to_grow
    <2>1. new_cap_bits \in 0 .. HashBits
      <3>1. CASE buckets = <<>> /\ cap_bits = 0
        BY <3>1, HashAssumption DEF new_cap_bits, HASHMAP_MIN_CAP_BITS
      <3>2. CASE buckets \in Chains(cap_bits)
        <4>1. cap = Capacity[cap_bits] /\ cap \in Nat \ {0}
          BY <1>3, <3>2, AllEntriesCount, CapacityIs
        <4>2. ((sz + 1) * 4) \div 3 > cap
          BY <1>5, <4>1 DEF hashmap_needs_to_grow
        <4>3. 4 * (sz + 1) <= 3 * Capacity[HashBits] /\ sz \in Int /\ Capacity[HashBits] \in Nat
          BY <1>3, HashAssumption, CapacityIs DEF HashInv
        <4>4. ((sz + 1) * 4) \div 3 <= Capacity[HashBits]
          BY <4>3
        <4>5. cap_bits # HashBits
          BY <4>1, <4>2, <4>3, <4>4
        <4> QED BY <1>3, <4>5, HashAssumption DEF new_cap_bits, HASHMAP_MIN_CAP_BITS
      <3> QED BY <3>1, <3>2 DEF HashInv
    <2>2. AllEntries \in Seq(HashEntries)
          /\ \A q \in HashKeys, w \in HashValues : Count(AllEntries, Entry(q, w)) = Count(ChainOf(q), Entry(q, w))
      <3>1. CASE buckets = <<>> /\ cap_bits = 0
        <4>1. cap = 0
          BY <3>1 DEF cap
        <4>2. PICK f \in [0 .. cap -> Seq(HashEntries)] : f[0] = <<>> /\ AllEntries = f[cap]
          BY <4>1, AllEntriesAre
        <4>3. AllEntries = <<>> /\ <<>> \in Seq(HashEntries)
          BY <4>1, <4>2
        <4>4. \A q \in HashKeys : ChainOf(q) = <<>>
          BY <3>1 DEF ChainOf
        <4> QED BY <4>3, <4>4
      <3>2. CASE buckets \in Chains(cap_bits)
        BY <1>1, <1>2, <1>3, <3>2, AllEntriesCount
      <3> QED BY <3>1, <3>2 DEF HashInv
    <2>3. Grown \in Chains(new_cap_bits)
          /\ \A x \in HashEntries : Count(Grown[hash_bits(x.key, new_cap_bits)], x) = Count(AllEntries, x)
      BY <2>1, <2>2, GrownIs
    <2>4. \A q \in HashKeys, w \in HashValues : Count(Grown[hash_bits(q, new_cap_bits)], Entry(q, w)) = EntryCount(q, w)
      BY <1>1, <2>2, <2>3
    <2> QED BY <1>5, <2>1, <2>3, <2>4
  <1> QED BY <1>4, <1>5

\* What the counts are after a step that leaves chains.
LEMMA CountsAfter ==
  ASSUME cap_bits' \in 0 .. HashBits, buckets' \in Chains(cap_bits')
  PROVE  \A q \in HashKeys, w \in HashValues :
           EntryCount(q, w)' = Count(buckets'[hash_bits(q, cap_bits')], Entry(q, w))
  <1> SUFFICES ASSUME NEW q \in HashKeys, NEW w \in HashValues
               PROVE  EntryCount(q, w)' = Count(buckets'[hash_bits(q, cap_bits')], Entry(q, w))
    OBVIOUS
  <1> DEFINE s == buckets'[hash_bits(q, cap_bits')]
  <1>1. buckets' # <<>> /\ s \in Seq(HashEntries)
    BY ChainIs
  <1>2. ChainOf(q)' = s
    BY <1>1 DEF ChainOf, hash_bits
  <1>3. EntryCount(q, w)' = Cardinality({n \in PlacesOf(q, s) : s[n].value = w})
    BY <1>2 DEF EntryCount, PlacesOf
  <1> HIDE DEF s
  <1>4. Cardinality({n \in PlacesOf(q, s) : s[n].value = w}) = Count(s, Entry(q, w))
    BY <1>1, PlacesAre
  <1> QED BY <1>3, <1>4 DEF s

\* A step that changes no chain leaves the counts.
LEMMA CountsStay ==
  ASSUME UNCHANGED <<buckets, cap_bits>>
  PROVE  \A q \in HashKeys, w \in HashValues : EntryCount(q, w)' = EntryCount(q, w)
  BY DEF EntryCount, PlacesOf, ChainOf, hash_bits

\* The bag of the specification: how often each entry is in the map.
HashBag == [k \in HashKeys |-> [v \in HashValues |-> EntryCount(k, v)]]

\* The counts after a step make the bag that the step of the specification makes.
LEMMA BagPut ==
  ASSUME NEW k \in HashKeys, NEW v \in HashValues,
         \A q \in HashKeys, w \in HashValues :
           EntryCount(q, w)' = EntryCount(q, w) + IF q = k /\ w = v THEN 1 ELSE 0,
         \A q \in HashKeys, w \in HashValues : EntryCount(q, w) \in Nat
  PROVE  Multimap!Put(k, v)
  <1>1. HashBag' = [q \in HashKeys |-> [w \in HashValues |-> IF q = k /\ w = v THEN EntryCount(q, w) + 1 ELSE EntryCount(q, w)]]
    <2>1. \A q \in HashKeys, w \in HashValues :
            EntryCount(q, w)' = IF q = k /\ w = v THEN EntryCount(q, w) + 1 ELSE EntryCount(q, w)
      OBVIOUS
    <2> QED BY <2>1 DEF HashBag
  <1> DEFINE f == HashBag
  <1>2. /\ f = [q \in HashKeys |-> f[q]] /\ \A q \in HashKeys : f[q] = [w \in HashValues |-> f[q][w]]
        /\ \A q \in HashKeys, w \in HashValues : f[q][w] = EntryCount(q, w)
    BY DEF HashBag
  <1> HIDE DEF f
  <1>3. [f EXCEPT ![k][v] = @ + 1]
          = [q \in HashKeys |-> [w \in HashValues |-> IF q = k /\ w = v THEN EntryCount(q, w) + 1 ELSE EntryCount(q, w)]]
    <2> DEFINE h == [f[k] EXCEPT ![v] = f[k][v] + 1]
               g == [f EXCEPT ![k] = h]
               p(q, w) == IF q = k /\ w = v THEN EntryCount(q, w) + 1 ELSE EntryCount(q, w)
    <2>1. [f EXCEPT ![k][v] = @ + 1] = g
      BY <1>2
    <2>2. h = [w \in HashValues |-> p(k, w)]
      BY <1>2
    <2>3. \A q \in HashKeys : q # k => f[q] = [w \in HashValues |-> p(q, w)]
      BY <1>2
    <2> HIDE DEF h, p
    <2>4. g = [q \in HashKeys |-> [w \in HashValues |-> p(q, w)]]
      BY <1>2, <2>2, <2>3
    <2> QED BY <2>1, <2>4 DEF p
  <1> QED BY <1>1, <1>3 DEF Multimap!Put, f, HashBag

\* The values of a key in the bag.
LEMMA ValuesAre ==
  ASSUME HashInv, NEW k \in HashKeys
  PROVE  /\ Multimap!ValuesOf(k) = {v \in HashValues : EntryCount(k, v) > 0}
         /\ Present(k) <=> Multimap!ValuesOf(k) # {}
  <1>1. Multimap!ValuesOf(k) = {v \in HashValues : EntryCount(k, v) > 0}
    BY DEF Multimap!ValuesOf
  <1> QED BY <1>1, EntryCountIs

\* A new entry counts once more, and without memory nothing does.
LEMMA InsertNewStep ==
  ASSUME HashInv, NEW k \in HashKeys, NEW v \in HashValues, InsertNew(k, v)
  PROVE  /\ HashInv'
         /\ \/ hash_ret' = "0" /\ Multimap!Put(k, v)
            \/ hash_ret' = "ENOMEM" /\ HashBag' = HashBag
  <1> DEFINE bits == IF hashmap_needs_to_grow THEN new_cap_bits ELSE cap_bits
             base == IF hashmap_needs_to_grow THEN Grown ELSE buckets
             e == Entry(k, v)
             now == AddedTo(base, hash_bits(k, bits), e)
  <1>1. /\ bits \in 0 .. HashBits /\ base \in Chains(bits)
        /\ \A q \in HashKeys, w \in HashValues : Count(base[hash_bits(q, bits)], Entry(q, w)) = EntryCount(q, w)
    BY BaseIs
  <1>2. \A q \in HashKeys, w \in HashValues :
          /\ Entry(q, w) \in HashEntries /\ Entry(q, w).key = q
          /\ Entry(q, w) = e <=> q = k /\ w = v
    BY EntryIs
  <1>3. \/ /\ sz < MaxEntries /\ sz' = sz + 1 /\ hash_ret' = "0" /\ buckets' = now /\ cap_bits' = bits
        \/ /\ hash_ret' = "ENOMEM" /\ UNCHANGED sz
           /\ \/ UNCHANGED <<buckets, cap_bits>>
              \/ buckets' = base /\ cap_bits' = bits
    BY DEF InsertNew
  <1>4. MaxEntries \in Int
    BY HashAssumption
  <1>5. now \in Chains(bits) /\ \A q \in HashKeys, w \in HashValues :
          Count(now[hash_bits(q, bits)], Entry(q, w)) = EntryCount(q, w) + IF q = k /\ w = v THEN 1 ELSE 0
    <2> HIDE DEF bits, base, e
    <2>1. e \in HashEntries /\ e.key = k
      BY <1>2 DEF e
    <2>2. /\ now \in Chains(bits)
          /\ \A x \in HashEntries : Count(now[hash_bits(x.key, bits)], x)
                                      = Count(base[hash_bits(x.key, bits)], x) + IF x = e THEN 1 ELSE 0
      BY <1>1, <2>1, AddedIs
    <2> HIDE DEF now
    <2> QED BY <1>1, <1>2, <2>2
  <1> HIDE DEF bits, base, e, now
  <1>6. CASE sz < MaxEntries /\ sz' = sz + 1 /\ hash_ret' = "0" /\ buckets' = now /\ cap_bits' = bits
    <2>1. HashInv'
      BY <1>1, <1>4, <1>5, <1>6 DEF HashInv, Chains
    <2>2. \A q \in HashKeys, w \in HashValues :
            EntryCount(q, w)' = EntryCount(q, w) + IF q = k /\ w = v THEN 1 ELSE 0
      BY <1>1, <1>5, <1>6, CountsAfter
    <2>3. Multimap!Put(k, v)
      BY <2>2, EntryCountIs, BagPut
    <2> QED BY <1>6, <2>1, <2>3
  <1>7. CASE hash_ret' = "ENOMEM" /\ UNCHANGED sz /\ UNCHANGED <<buckets, cap_bits>>
    <2>1. HashInv'
      BY <1>7 DEF HashInv, Chains, hash_bits
    <2>2. HashBag' = HashBag
      BY <1>7, CountsStay DEF HashBag
    <2> QED BY <1>7, <2>1, <2>2
  <1>8. CASE hash_ret' = "ENOMEM" /\ UNCHANGED sz /\ buckets' = base /\ cap_bits' = bits
    <2>1. HashInv'
      BY <1>1, <1>8 DEF HashInv, Chains
    <2>2. \A q \in HashKeys, w \in HashValues : EntryCount(q, w)' = EntryCount(q, w)
      BY <1>1, <1>8, CountsAfter
    <2>3. HashBag' = HashBag
      BY <2>2 DEF HashBag
    <2> QED BY <1>8, <2>1, <2>3
  <1> QED BY <1>3, <1>6, <1>7, <1>8

\* The chain of a key changes and no other does: what the counts are then.
LEMMA OneChainChanges ==
  ASSUME HashInv, buckets \in Chains(cap_bits), NEW k \in HashKeys, NEW s \in Seq(HashEntries),
         \A n \in 1 .. Len(s) : hash_bits(s[n].key, cap_bits) = hash_bits(k, cap_bits),
         buckets' = [buckets EXCEPT ![hash_bits(k, cap_bits)] = s], cap_bits' = cap_bits
  PROVE  /\ buckets' \in Chains(cap_bits)
         /\ \A q \in HashKeys, w \in HashValues :
              /\ hash_bits(q, cap_bits) = hash_bits(k, cap_bits) => EntryCount(q, w)' = Count(s, Entry(q, w))
              /\ hash_bits(q, cap_bits) # hash_bits(k, cap_bits) => EntryCount(q, w)' = EntryCount(q, w)
  <1> DEFINE b == hash_bits(k, cap_bits)
             B == 0 .. Capacity[cap_bits] - 1
  <1>1. cap_bits \in 0 .. HashBits
    BY DEF HashInv
  <1>2. buckets \in [B -> Seq(HashEntries)]
    BY DEF Chains
  <1>3. \A c \in B : \A n \in 1 .. Len(buckets[c]) : hash_bits(buckets[c][n].key, cap_bits) = c
    BY DEF Chains
  <1>4. \A q \in HashKeys : hash_bits(q, cap_bits) \in B
    BY <1>1, HashBitsRange
  <1> HIDE DEF B
  <1>5. \A c \in B : buckets'[c] = IF c = b THEN s ELSE buckets[c]
    BY <1>2, <1>4
  <1>6. buckets' \in Chains(cap_bits)
    <2>1. buckets' \in [B -> Seq(HashEntries)]
      BY <1>2, <1>4
    <2>2. \A c \in B : \A n \in 1 .. Len(buckets'[c]) : hash_bits(buckets'[c][n].key, cap_bits) = c
      BY <1>3, <1>5
    <2> QED BY <2>1, <2>2 DEF Chains, B
  <1>7. \A q \in HashKeys, w \in HashValues : EntryCount(q, w)' = Count(buckets'[hash_bits(q, cap_bits)], Entry(q, w))
    BY <1>1, <1>6, CountsAfter
  <1>8. \A q \in HashKeys, w \in HashValues : EntryCount(q, w) = Count(buckets[hash_bits(q, cap_bits)], Entry(q, w))
    BY EntryCountIs
  <1>9. ASSUME NEW q \in HashKeys, NEW w \in HashValues
        PROVE  /\ hash_bits(q, cap_bits) = b => EntryCount(q, w)' = Count(s, Entry(q, w))
               /\ hash_bits(q, cap_bits) # b => EntryCount(q, w)' = EntryCount(q, w)
    <2>1. buckets'[hash_bits(q, cap_bits)] = IF hash_bits(q, cap_bits) = b THEN s ELSE buckets[hash_bits(q, cap_bits)]
      BY <1>4, <1>5
    <2>2. EntryCount(q, w)' = Count(buckets'[hash_bits(q, cap_bits)], Entry(q, w))
      BY <1>7
    <2>3. EntryCount(q, w) = Count(buckets[hash_bits(q, cap_bits)], Entry(q, w))
      BY <1>8
    <2> HIDE DEF b
    <2>4. CASE hash_bits(q, cap_bits) = b
      BY <2>1, <2>2, <2>4
    <2>5. CASE hash_bits(q, cap_bits) # b
      BY <2>1, <2>2, <2>3, <2>5
    <2> QED BY <2>4, <2>5
  <1> QED BY <1>6, <1>9

\* The entry found for a key, which hashmap__insert overwrites and hashmap__delete takes away.
LEMMA FoundIs ==
  ASSUME HashInv, NEW k \in HashKeys, Present(k)
  PROVE  LET s == buckets[hash_bits(k, cap_bits)]
             old == s[FoundAt(k)].value
         IN /\ buckets \in Chains(cap_bits) /\ hash_bits(k, cap_bits) \in DOMAIN buckets
            /\ s \in Seq(HashEntries) /\ FoundAt(k) \in 1 .. Len(s) /\ s[FoundAt(k)] = Entry(k, old)
            /\ \A n \in 1 .. Len(s) : hash_bits(s[n].key, cap_bits) = hash_bits(k, cap_bits)
            /\ old \in Multimap!ValuesOf(k)
            /\ \A w \in HashValues : EntryCount(k, w) = Count(s, Entry(k, w))
            /\ \A q \in HashKeys, w \in HashValues :
                 hash_bits(q, cap_bits) = hash_bits(k, cap_bits) => EntryCount(q, w) = Count(s, Entry(q, w))
  <1> DEFINE s == buckets[hash_bits(k, cap_bits)]
             n == FoundAt(k)
  <1>1. cap_bits \in 0 .. HashBits
    BY DEF HashInv
  <1>2. buckets \in Chains(cap_bits) /\ ChainOf(k) = s /\ s \in Seq(HashEntries) /\ n \in 1 .. Len(s) /\ s[n].key = k
    BY EntryCountIs
  <1>3. hash_bits(k, cap_bits) \in DOMAIN buckets
    BY <1>1, <1>2, ChainIs
  <1>4. \A m \in 1 .. Len(s) : hash_bits(s[m].key, cap_bits) = hash_bits(k, cap_bits)
    BY <1>2, <1>3 DEF Chains
  <1>5. \A q \in HashKeys, w \in HashValues :
          hash_bits(q, cap_bits) = hash_bits(k, cap_bits) => EntryCount(q, w) = Count(s, Entry(q, w))
    BY <1>2, EntryCountIs
  <1> HIDE DEF s, n
  <1>6. s[n] \in HashEntries
    BY <1>2
  <1>7. s[n] = Entry(k, s[n].value) /\ s[n].value \in HashValues
    BY <1>2, <1>6, EntryIs
  <1>8. EntryCount(k, s[n].value) > 0
    <2> DEFINE e == Entry(k, s[n].value)
    <2>1. s[n] = e
      BY <1>7
    <2> HIDE DEF e
    <2>2. Count(s, e) \in Nat /\ Count(s, e) # 0
      BY <1>2, <2>1, CountType
    <2> QED BY <1>5, <1>7, <2>2 DEF e
  <1>9. s[n].value \in Multimap!ValuesOf(k)
    BY <1>7, <1>8, ValuesAre
  <1> QED BY <1>2, <1>3, <1>4, <1>5, <1>7, <1>9 DEF s, n

\* A step that changes the entries of one key changes its row of the bag.
LEMMA BagRow ==
  ASSUME NEW k \in HashKeys, NEW row,
         row = [w \in HashValues |-> EntryCount(k, w)'],
         \A q \in HashKeys, w \in HashValues : q # k => EntryCount(q, w)' = EntryCount(q, w)
  PROVE  HashBag' = [HashBag EXCEPT ![k] = row]
  <1> DEFINE f == HashBag
  <1>1. /\ f = [q \in HashKeys |-> f[q]] /\ \A q \in HashKeys : f[q] = [w \in HashValues |-> EntryCount(q, w)]
    BY DEF HashBag
  <1>2. f' = [q \in HashKeys |-> f'[q]] /\ \A q \in HashKeys : f'[q] = [w \in HashValues |-> EntryCount(q, w)']
    BY DEF HashBag
  <1> HIDE DEF f
  <1>3. \A q \in HashKeys : f'[q] = IF q = k THEN row ELSE f[q]
    <2> SUFFICES ASSUME NEW q \in HashKeys, q # k PROVE f'[q] = f[q]
      BY <1>2
    <2>1. [w \in HashValues |-> EntryCount(q, w)'] = [w \in HashValues |-> EntryCount(q, w)]
      OBVIOUS
    <2> QED BY <1>1, <1>2, <2>1
  <1>4. [f EXCEPT ![k] = row] = [q \in HashKeys |-> IF q = k THEN row ELSE f[q]]
    BY <1>1
  <1>5. f' = [q \in HashKeys |-> IF q = k THEN row ELSE f[q]]
    BY <1>2, <1>3
  <1> QED BY <1>4, <1>5 DEF f

\* SET and UPDATE put another value in the place of the one that is found.
LEMMA OverwriteStep ==
  ASSUME HashInv, NEW k \in HashKeys, NEW v \in HashValues, Present(k),
         buckets' = [buckets EXCEPT ![hash_bits(k, cap_bits)][FoundAt(k)] = Entry(k, v)],
         UNCHANGED <<cap_bits, sz>>
  PROVE  HashInv' /\ \E old \in Multimap!ValuesOf(k) : Multimap!Replace(k, old, v)
  <1> DEFINE b == hash_bits(k, cap_bits)
             s == buckets[b]
             n == FoundAt(k)
             old == s[n].value
             t == [s EXCEPT ![n] = Entry(k, v)]
  <1>1. /\ buckets \in Chains(cap_bits) /\ b \in DOMAIN buckets
        /\ s \in Seq(HashEntries) /\ n \in 1 .. Len(s) /\ s[n] = Entry(k, old)
        /\ \A m \in 1 .. Len(s) : hash_bits(s[m].key, cap_bits) = b
        /\ old \in Multimap!ValuesOf(k)
        /\ \A w \in HashValues : EntryCount(k, w) = Count(s, Entry(k, w))
        /\ \A q \in HashKeys, w \in HashValues :
             hash_bits(q, cap_bits) = b => EntryCount(q, w) = Count(s, Entry(q, w))
    BY FoundIs
  <1>2. buckets' = [buckets EXCEPT ![b] = t]
    BY <1>1
  <1>3. Entry(k, v) \in HashEntries /\ Entry(k, v).key = k
    BY EntryIs
  <1>4. \A q \in HashKeys, w, u \in HashValues : Entry(q, w) = Entry(k, u) <=> q = k /\ w = u
    BY EntryIs
  <1>5. cap_bits' = cap_bits /\ old \in HashValues
    BY <1>1, ValuesAre
  <1> HIDE DEF b, s, n, old
  <1>6. /\ t \in Seq(HashEntries) /\ Len(t) = Len(s)
        /\ \A m \in 1 .. Len(t) : hash_bits(t[m].key, cap_bits) = b
    <2>1. t \in Seq(HashEntries) /\ Len(t) = Len(s) /\ \A m \in 1 .. Len(s) : t[m] = IF m = n THEN Entry(k, v) ELSE s[m]
      BY <1>1, <1>3
    <2> HIDE DEF t
    <2> QED BY <1>1, <1>3, <2>1 DEF b
  <1>7. \A x : Count(t, x) = Count(s, x) - (IF s[n] = x THEN 1 ELSE 0) + (IF Entry(k, v) = x THEN 1 ELSE 0)
    BY <1>1, <1>3, CountReplaced
  <1> HIDE DEF t
  <1>8. /\ buckets' \in Chains(cap_bits)
        /\ \A q \in HashKeys, w \in HashValues :
             /\ hash_bits(q, cap_bits) = b => EntryCount(q, w)' = Count(t, Entry(q, w))
             /\ hash_bits(q, cap_bits) # b => EntryCount(q, w)' = EntryCount(q, w)
    BY <1>1, <1>2, <1>5, <1>6, OneChainChanges DEF b
  <1>9. \A q \in HashKeys, w \in HashValues : EntryCount(q, w) \in Nat
    BY EntryCountIs
  <1>10. \A w \in HashValues :
           EntryCount(k, w)' = EntryCount(k, w) - (IF w = old THEN 1 ELSE 0) + (IF w = v THEN 1 ELSE 0)
    <2> TAKE w \in HashValues
    <2>1. EntryCount(k, w)' = Count(t, Entry(k, w)) /\ EntryCount(k, w) = Count(s, Entry(k, w))
      BY <1>1, <1>8 DEF b
    <2>2. (s[n] = Entry(k, w) <=> w = old) /\ (Entry(k, v) = Entry(k, w) <=> w = v)
      BY <1>1, <1>4, <1>5
    <2> QED BY <1>7, <2>1, <2>2
  <1>11. \A q \in HashKeys, w \in HashValues : q # k => EntryCount(q, w)' = EntryCount(q, w)
    <2> SUFFICES ASSUME NEW q \in HashKeys, NEW w \in HashValues, q # k, hash_bits(q, cap_bits) = b
                 PROVE  EntryCount(q, w)' = EntryCount(q, w)
      BY <1>8
    <2>1. EntryCount(q, w)' = Count(t, Entry(q, w)) /\ EntryCount(q, w) = Count(s, Entry(q, w))
      BY <1>1, <1>8
    <2>2. s[n] # Entry(q, w) /\ Entry(k, v) # Entry(q, w)
      BY <1>1, <1>4, <1>5
    <2> QED BY <1>7, <1>9, <2>1, <2>2
  <1>12. HashInv'
    BY <1>5, <1>8 DEF HashInv, Chains, hash_bits
  <1>13. Multimap!Replace(k, old, v)
    <2> DEFINE f == HashBag[k]
               row == [w \in HashValues |-> f[w] - (IF w = old THEN 1 ELSE 0) + (IF w = v THEN 1 ELSE 0)]
    <2>1. \A w \in HashValues : f[w] = EntryCount(k, w)
      BY DEF HashBag
    <2> HIDE DEF f
    <2>2. row = [w \in HashValues |-> EntryCount(k, w)']
      BY <1>10, <2>1
    <2> HIDE DEF row
    <2>3. HashBag' = [HashBag EXCEPT ![k] = row]
      BY <1>11, <2>2, BagRow
    <2>4. HashBag' = [HashBag EXCEPT ![k] = [w \in HashValues |-> @[w] - (IF w = old THEN 1 ELSE 0) + (IF w = v THEN 1 ELSE 0)]]
      BY <2>3 DEF row, f
    <2> QED BY <2>4 DEF Multimap!Replace, HashBag
  <1> QED BY <1>1, <1>12, <1>13

\* hashmap__delete takes the value that is found.
LEMMA RemoveStep ==
  ASSUME HashInv, NEW k \in HashKeys, Present(k),
         buckets' = [buckets EXCEPT ![hash_bits(k, cap_bits)] = RemoveAt(@, FoundAt(k))],
         sz' = sz - 1, UNCHANGED cap_bits
  PROVE  HashInv' /\ \E old \in Multimap!ValuesOf(k) : Multimap!Take(k, old)
  <1> DEFINE b == hash_bits(k, cap_bits)
             s == buckets[b]
             n == FoundAt(k)
             old == s[n].value
             t == RemoveAt(s, n)
  <1>1. /\ buckets \in Chains(cap_bits) /\ b \in DOMAIN buckets
        /\ s \in Seq(HashEntries) /\ n \in 1 .. Len(s) /\ s[n] = Entry(k, old)
        /\ \A m \in 1 .. Len(s) : hash_bits(s[m].key, cap_bits) = b
        /\ old \in Multimap!ValuesOf(k)
        /\ \A w \in HashValues : EntryCount(k, w) = Count(s, Entry(k, w))
        /\ \A q \in HashKeys, w \in HashValues :
             hash_bits(q, cap_bits) = b => EntryCount(q, w) = Count(s, Entry(q, w))
    BY FoundIs
  <1> HIDE DEF t
  <1>2. buckets' = [buckets EXCEPT ![b] = t]
    BY <1>1 DEF t
  <1>4. \A q \in HashKeys, w, u \in HashValues : Entry(q, w) = Entry(k, u) <=> q = k /\ w = u
    BY EntryIs
  <1>5. cap_bits' = cap_bits /\ old \in HashValues
    BY <1>1, ValuesAre
  <1> HIDE DEF b, s, n, old
  <1>6. /\ t \in Seq(HashEntries)
        /\ \A m \in 1 .. Len(t) : hash_bits(t[m].key, cap_bits) = b
        /\ \A x : Count(t, x) = Count(s, x) - IF s[n] = x THEN 1 ELSE 0
    <2>1. /\ t \in Seq(HashEntries)
          /\ \A m \in 1 .. Len(t) : \E j \in 1 .. Len(s) : t[m] = s[j]
          /\ \A x : Count(t, x) = Count(s, x) - IF s[n] = x THEN 1 ELSE 0
      BY <1>1, CountRemoved DEF t
    <2> QED BY <1>1, <2>1
  <1>8. /\ buckets' \in Chains(cap_bits)
        /\ \A q \in HashKeys, w \in HashValues :
             /\ hash_bits(q, cap_bits) = b => EntryCount(q, w)' = Count(t, Entry(q, w))
             /\ hash_bits(q, cap_bits) # b => EntryCount(q, w)' = EntryCount(q, w)
    BY <1>1, <1>2, <1>5, <1>6, OneChainChanges DEF b
  <1>9. \A q \in HashKeys, w \in HashValues : EntryCount(q, w) \in Nat
    BY EntryCountIs
  <1>10. \A w \in HashValues : EntryCount(k, w)' = EntryCount(k, w) - (IF w = old THEN 1 ELSE 0)
    <2> TAKE w \in HashValues
    <2>1. EntryCount(k, w)' = Count(t, Entry(k, w)) /\ EntryCount(k, w) = Count(s, Entry(k, w))
      BY <1>1, <1>8 DEF b
    <2>2. s[n] = Entry(k, w) <=> w = old
      BY <1>1, <1>4, <1>5
    <2> QED BY <1>6, <2>1, <2>2
  <1>11. \A q \in HashKeys, w \in HashValues : q # k => EntryCount(q, w)' = EntryCount(q, w)
    <2> SUFFICES ASSUME NEW q \in HashKeys, NEW w \in HashValues, q # k, hash_bits(q, cap_bits) = b
                 PROVE  EntryCount(q, w)' = EntryCount(q, w)
      BY <1>8
    <2>1. EntryCount(q, w)' = Count(t, Entry(q, w)) /\ EntryCount(q, w) = Count(s, Entry(q, w))
      BY <1>1, <1>8
    <2>2. s[n] # Entry(q, w)
      BY <1>1, <1>4, <1>5
    <2> QED BY <1>6, <1>9, <2>1, <2>2
  <1>12. HashInv'
    <2>1. sz' \in Int /\ sz' <= MaxEntries
      BY HashAssumption DEF HashInv
    <2> QED BY <1>5, <1>8, <2>1 DEF HashInv, Chains, hash_bits
  <1>13. Multimap!Take(k, old)
    <2> DEFINE f == HashBag[k]
               row == [f EXCEPT ![old] = @ - 1]
    <2>1. f = [w \in HashValues |-> EntryCount(k, w)]
      BY DEF HashBag
    <2> HIDE DEF f
    <2>2. row = [w \in HashValues |-> EntryCount(k, w)']
      <3>1. \A w \in HashValues : row[w] = EntryCount(k, w)'
        BY <1>5, <1>9, <1>10, <2>1
      <3>2. row = [w \in HashValues |-> row[w]]
        BY <2>1
      <3> HIDE DEF row
      <3> QED BY <3>1, <3>2
    <2> HIDE DEF row
    <2>3. HashBag' = [HashBag EXCEPT ![k] = row]
      BY <1>11, <2>2, BagRow
    <2>4. HashBag' = [HashBag EXCEPT ![k][old] = @ - 1]
      BY <2>3 DEF row, f
    <2> QED BY <2>4 DEF Multimap!Take, HashBag
  <1> QED BY <1>1, <1>12, <1>13

\* hashmap__insert does what the specification does, or lacks memory.
LEMMA HashInsertStep ==
  ASSUME HashInv, NEW k \in HashKeys, NEW v \in HashValues, NEW s \in Strategies, hashmap__insert(k, v, s)
  PROVE  HashInv' /\ (Multimap!Insert(k, v, s) \/ Multimap!OutOfMemory)
  <1>1. Present(k) <=> Multimap!ValuesOf(k) # {}
    BY ValuesAre
  <1>2. CASE s = "ADD" /\ Present(k)
    <2>1. hash_ret' = "EEXIST" /\ UNCHANGED <<buckets, cap_bits, sz>>
      BY <1>2 DEF hashmap__insert
    <2>2. HashInv' /\ HashBag' = HashBag
      BY <2>1, CountsStay DEF HashInv, Chains, hash_bits, HashBag
    <2> QED BY <1>1, <1>2, <2>1, <2>2 DEF Multimap!Insert, HashBag
  <1>3. CASE s \in {"SET", "UPDATE"} /\ Present(k)
    <2>1. hash_ret' = "0" /\ UNCHANGED <<cap_bits, sz>>
          /\ buckets' = [buckets EXCEPT ![hash_bits(k, cap_bits)][FoundAt(k)] = Entry(k, v)]
      BY <1>3 DEF hashmap__insert
    <2>2. HashInv' /\ \E old \in Multimap!ValuesOf(k) : Multimap!Replace(k, old, v)
      BY <1>3, <2>1, OverwriteStep
    <2> QED BY <1>3, <2>1, <2>2 DEF Multimap!Insert
  <1>4. CASE s = "UPDATE" /\ ~ Present(k)
    <2>1. hash_ret' = "ENOENT" /\ UNCHANGED <<buckets, cap_bits, sz>>
      BY <1>4 DEF hashmap__insert
    <2>2. HashInv' /\ HashBag' = HashBag
      BY <2>1, CountsStay DEF HashInv, Chains, hash_bits, HashBag
    <2> QED BY <1>1, <1>4, <2>1, <2>2 DEF Multimap!Insert, HashBag
  <1>5. CASE s = "APPEND" \/ (s \in {"ADD", "SET"} /\ ~ Present(k))
    <2>1. InsertNew(k, v)
      BY <1>5 DEF hashmap__insert
    <2>2. HashInv' /\ ((hash_ret' = "0" /\ Multimap!Put(k, v)) \/ (hash_ret' = "ENOMEM" /\ HashBag' = HashBag))
      BY <2>1, InsertNewStep
    <2>3. hash_ret' = "0" /\ Multimap!Put(k, v) => Multimap!Insert(k, v, s)
      BY <1>1, <1>5 DEF Multimap!Insert
    <2>4. hash_ret' = "ENOMEM" /\ HashBag' = HashBag => Multimap!OutOfMemory
      BY DEF Multimap!OutOfMemory, HashBag
    <2> QED BY <2>2, <2>3, <2>4
  <1> QED BY <1>2, <1>3, <1>4, <1>5 DEF Strategies

\* hashmap__delete does what the specification does.
LEMMA HashDeleteStep ==
  ASSUME HashInv, NEW k \in HashKeys, hashmap__delete(k)
  PROVE  HashInv' /\ Multimap!Delete(k)
  <1>1. CASE Present(k)
    <2>1. hash_ret' = "true" /\ UNCHANGED cap_bits /\ sz' = sz - 1
          /\ buckets' = [buckets EXCEPT ![hash_bits(k, cap_bits)] = RemoveAt(@, FoundAt(k))]
      BY <1>1 DEF hashmap__delete
    <2>2. HashInv' /\ \E old \in Multimap!ValuesOf(k) : Multimap!Take(k, old)
      BY <1>1, <2>1, RemoveStep
    <2> QED BY <2>1, <2>2 DEF Multimap!Delete
  <1>2. CASE ~ Present(k)
    <2>1. hash_ret' = "false" /\ UNCHANGED <<buckets, cap_bits, sz>>
      BY <1>2 DEF hashmap__delete
    <2>2. HashInv' /\ HashBag' = HashBag
      BY <2>1, CountsStay DEF HashInv, Chains, hash_bits, HashBag
    <2>3. Multimap!ValuesOf(k) = {}
      BY <1>2, ValuesAre
    <2> QED BY <2>1, <2>2, <2>3 DEF Multimap!Delete, HashBag
  <1> QED BY <1>1, <1>2

\* Hashmap.tla implements KeyValues.tla: for any keys, hash and values and however the array
\* grows, a map of libbpf is the bag of its entries.
THEOREM HashmapAlwaysMap == HashSpec => HashmapIsMap
  <1> DEFINE bag == [k \in HashKeys |-> [v \in HashValues |-> EntryCount(k, v)]]
  <1>1. HashInit => HashInv /\ Multimap!Init
    <2> SUFFICES ASSUME HashInit PROVE HashInv /\ Multimap!Init
      OBVIOUS
    <2>1. HashInv
      BY HashAssumption DEF HashInit, HashInv
    <2>2. \A k \in HashKeys, v \in HashValues : EntryCount(k, v) = 0
      <3>1. \A k \in HashKeys : ChainOf(k) = <<>> /\ PlacesOf(k, <<>>) = {}
        BY DEF HashInit, ChainOf, PlacesOf
      <3>2. Cardinality({}) = 0
        BY FS_EmptySet
      <3> SUFFICES ASSUME NEW k \in HashKeys, NEW v \in HashValues PROVE EntryCount(k, v) = 0
        OBVIOUS
      <3>3. {n \in PlacesOf(k, ChainOf(k)) : ChainOf(k)[n].value = v} = {}
        BY <3>1
      <3> QED BY <3>2, <3>3 DEF EntryCount
    <2>3. bag = [k \in HashKeys |-> [v \in HashValues |-> 0]]
      BY <2>2
    <2> QED BY <2>1, <2>3 DEF Multimap!Init, HashInit
  <1>2. HashInv /\ [HashNext]_hashVars => HashInv' /\ [Multimap!Next]_<<hash_ret, bag>>
    <2> SUFFICES ASSUME HashInv, [HashNext]_hashVars PROVE HashInv' /\ [Multimap!Next]_<<hash_ret, bag>>
      OBVIOUS
    <2>1. CASE UNCHANGED hashVars
      <3>1. HashInv' /\ HashBag' = HashBag
        BY <2>1, CountsStay DEF hashVars, HashInv, Chains, hash_bits, HashBag
      <3> QED BY <2>1, <3>1 DEF hashVars, HashBag
    <2>2. ASSUME NEW k \in HashKeys, NEW v \in HashValues, NEW s \in Strategies, hashmap__insert(k, v, s)
          PROVE  HashInv' /\ Multimap!Next
      BY <2>2, HashInsertStep DEF Multimap!Next, Strategies
    <2>3. ASSUME NEW k \in HashKeys, hashmap__delete(k)
          PROVE  HashInv' /\ Multimap!Next
      BY <2>3, HashDeleteStep DEF Multimap!Next
    <2> QED BY <2>1, <2>2, <2>3 DEF HashNext
  <1> QED BY <1>1, <1>2, PTL DEF HashSpec, HashmapIsMap, Multimap!Spec

-----------------------------------------------------------------------------
(* MapDefs.                                                                *)

\* The sums of equal numbers are their multiples.
LEMMA SumsOfEqual ==
  ASSUME NEW d \in Seq(Nat), NEW s \in Nat, \A n \in 1 .. Len(d) : d[n] = s
  PROVE  \A n \in 0 .. Len(d) : Sums(d)[n] = n * s
  <1> DEFINE f == Sums(d)
             T == {n \in Nat : n <= Len(d) => f[n] = n * s}
  <1>1. f \in [0 .. Len(d) -> Nat] /\ f[0] = 0 /\ \A n \in 1 .. Len(d) : f[n] = f[n - 1] + d[n]
    BY SumsAre
  <1> HIDE DEF f
  <1>2. Len(d) \in Nat
    OBVIOUS
  <1>3. 0 \in T
    BY <1>1
  <1>4. ASSUME NEW n \in T PROVE n + 1 \in T
    <2> SUFFICES ASSUME n + 1 <= Len(d) PROVE f[n + 1] = (n + 1) * s
      OBVIOUS
    <2>1. n + 1 \in 1 .. Len(d) /\ (n + 1) - 1 = n /\ f[n] = n * s
      BY <1>2
    <2>2. f[n + 1] = n * s + s
      BY <1>1, <2>1
    <2> QED BY <2>2
  <1> HIDE DEF T
  <1>5. T = Nat
    <2>1. T \in SUBSET Nat
      BY DEF T
    <2> QED BY <1>3, <1>4, <2>1, SetInduction
  <1> QED BY <1>2, <1>5 DEF T, f

\* A sum of numbers of which none is less than s and one is more.
LEMMA SumsOfMore ==
  ASSUME NEW d \in Seq(Nat), NEW s \in Nat, \A n \in 1 .. Len(d) : d[n] >= s, NEW m \in 1 .. Len(d)
  PROVE  Sums(d)[Len(d)] >= Len(d) * s + (d[m] - s)
  <1> DEFINE f == Sums(d)
             T == {n \in Nat : n <= Len(d) => f[n] >= n * s + (IF m <= n THEN d[m] - s ELSE 0)}
  <1>1. f \in [0 .. Len(d) -> Nat] /\ f[0] = 0 /\ \A n \in 1 .. Len(d) : f[n] = f[n - 1] + d[n]
    BY SumsAre
  <1> HIDE DEF f
  <1>2. Len(d) \in Nat /\ m \in Nat /\ m # 0 /\ d[m] \in Nat /\ d[m] >= s
    OBVIOUS
  <1>3. 0 \in T
    BY <1>1, <1>2
  <1>4. ASSUME NEW n \in T PROVE n + 1 \in T
    <2> SUFFICES ASSUME n + 1 <= Len(d)
                 PROVE  f[n + 1] >= (n + 1) * s + (IF m <= n + 1 THEN d[m] - s ELSE 0)
      OBVIOUS
    <2>1. /\ n + 1 \in 1 .. Len(d) /\ (n + 1) - 1 = n /\ n \in 0 .. Len(d)
          /\ f[n] >= n * s + (IF m <= n THEN d[m] - s ELSE 0)
      BY <1>2
    <2>2. f[n + 1] = f[n] + d[n + 1] /\ d[n + 1] >= s /\ d[n + 1] \in Nat /\ f[n] \in Nat
      <3>1. f[n + 1] = f[n] + d[n + 1]
        BY <1>1, <2>1
      <3>2. d[n + 1] >= s /\ d[n + 1] \in Nat
        BY <2>1
      <3>3. f[n] \in Nat
        BY <1>1, <2>1
      <3> QED BY <3>1, <3>2, <3>3
    <2>3. n * s \in Nat /\ (n + 1) * s = n * s + s
      OBVIOUS
    <2> DEFINE z == n * s
    <2> HIDE DEF z
    <2>4. z \in Nat /\ (n + 1) * s = z + s /\ f[n] >= z + (IF m <= n THEN d[m] - s ELSE 0)
      BY <2>1, <2>3 DEF z
    <2>5. CASE m = n + 1
      BY <1>2, <2>2, <2>4, <2>5
    <2>6. CASE m # n + 1
      <3>1. m <= n <=> m <= n + 1
        BY <1>2, <2>6
      <3> DEFINE e == IF m <= n THEN d[m] - s ELSE 0
      <3>2. e \in Int /\ e = IF m <= n + 1 THEN d[m] - s ELSE 0
        BY <1>2, <3>1
      <3> HIDE DEF e
      <3>3. f[n] >= z + e
        BY <2>4 DEF e
      <3> DEFINE y == f[n]
                 w == d[n + 1]
      <3>4. y \in Nat /\ w \in Nat /\ w >= s /\ z \in Nat /\ e \in Int /\ y >= z + e /\ s \in Nat
        BY <2>2, <2>4, <3>2, <3>3
      <3> HIDE DEF y, w
      <3>5. y + w >= (z + s) + e
        BY ONLY <3>4
      <3>6. f[n + 1] = y + w /\ (n + 1) * s = z + s
        BY <2>2, <2>4 DEF y, w
      <3> QED BY <3>2, <3>5, <3>6
    <2> QED BY <2>5, <2>6
  <1> HIDE DEF T
  <1>5. T = Nat
    <2>1. T \in SUBSET Nat
      BY DEF T
    <2> QED BY <1>3, <1>4, <2>1, SetInduction
  <1>6. Len(d) \in T
    BY <1>2, <1>5
  <1> QED BY <1>2, <1>6 DEF T, f

\* What a sequence's elements are.
LEMMA ImageFinite ==
  ASSUME NEW n \in Nat, NEW f, DOMAIN f = 1 .. n, f = [k \in 1 .. n |-> f[k]]
  PROVE  IsFiniteSet({f[k] : k \in 1 .. n})
  <1> DEFINE R == {f[k] : k \in 1 .. n}
  <1>1. f \in Surjection(1 .. n, R)
    BY DEF Surjection
  <1>2. IsFiniteSet(1 .. n)
    BY FS_Interval
  <1> QED BY <1>1, <1>2, FS_Surjection

\* A set of at most one element.
LEMMA OneElement ==
  ASSUME NEW S, IsFiniteSet(S)
  PROVE  Cardinality(S) <= 1 <=> \A x, y \in S : x = y
  <1>1. CASE S = {}
    BY <1>1, FS_EmptySet
  <1>2. CASE S # {}
    <2>1. PICK x \in S : TRUE
      BY <1>2
    <2>2. /\ IsFiniteSet(S \ {x}) /\ Cardinality(S \ {x}) \in Nat /\ Cardinality(S) = Cardinality(S \ {x}) + 1
      <3>1. IsFiniteSet(S \ {x}) /\ Cardinality(S \ {x}) = Cardinality(S) - 1
        BY <2>1, FS_RemoveElement
      <3> QED BY <3>1, FS_CardinalityType
    <2>3. Cardinality(S \ {x}) = 0 <=> S \ {x} = {}
      BY <2>2, FS_EmptySet
    <2>4. Cardinality(S) <= 1 <=> S \ {x} = {}
      BY <2>2, <2>3
    <2> QED BY <2>1, <2>4
  <1> QED BY <1>1, <1>2

(* The "maps" section.                                                     *)

\* Of the section maps: the definitions made so far are those at the multiples of their size,
\* none of which is beyond the section.
LegacyInv ==
  md_kind = "legacy" =>
    /\ md_strict \in BOOLEAN
    /\ md_syms \in Seq(Nat) /\ md_data \in [1 .. Total(md_syms) -> {0, 1}]
    /\ md_i \in 1 .. nr_maps + 1
    /\ md_maps = [n \in 1 .. md_i - 1 |-> CopyDef(Offset(md_syms, n))]
    /\ \A n \in 1 .. md_i - 1 :
         /\ Offset(md_syms, n) + map_def_sz <= d_size
         /\ md_strict => \A c \in DefSize + 1 .. map_def_sz : md_data[Offset(md_syms, n) + c] # 1
    /\ md_ret = "0" => md_i = nr_maps + 1 /\ ~ SizeUnknown

\* Nothing is read at the start.
LEMMA LegacyInit ==
  ASSUME MdInit PROVE LegacyInv
  <1> SUFFICES ASSUME md_kind = "legacy" PROVE LegacyInv
    BY DEF LegacyInv
  <1>1. md_syms \in Sizes /\ md_data \in Contents(md_syms) /\ MdStart /\ md_strict \in BOOLEAN
    BY DEF MdInit
  <1>2. PICK n \in 0 .. MaxSymbols : md_syms \in [1 .. n -> 1 .. MaxDefSize]
    BY <1>1 DEF Sizes
  <1>3. md_syms \in Seq(Nat) /\ Len(md_syms) = n
    BY <1>2, MapDefsAssumption
  <1>4. md_data \in [1 .. Total(md_syms) -> {0, 1}]
    <2>1. (Len(md_syms) + 1) - 1 = Len(md_syms)
      BY <1>3
    <2> QED BY <1>1, <2>1 DEF Contents, Offset, Total
  <1>5. md_maps = [k \in 1 .. md_i - 1 |-> CopyDef(Offset(md_syms, k))] /\ md_i = 1 /\ md_ret = "running"
    <2>1. md_maps = <<>> /\ md_i = 1 /\ md_ret = "running" /\ 1 .. md_i - 1 = {}
      BY <1>1 DEF MdStart
    <2> QED BY <2>1
  <1> QED BY <1>1, <1>3, <1>4, <1>5 DEF LegacyInv, nr_maps

\* Every step keeps it, the one of another section too.
LEMMA LegacyNext ==
  ASSUME LegacyInv, [MdNext]_mdVars PROVE LegacyInv'
  <1> SUFFICES ASSUME md_kind' = "legacy" PROVE LegacyInv'
    BY DEF LegacyInv
  <1>1. md_kind = "legacy" /\ UNCHANGED mdInput
    BY DEF MdNext, CountMaps, InitUserMap, InitBtfField, EndBtfMap, mdVars, mdInput
  <1>2. UNCHANGED <<nr_maps, d_size, map_def_sz>> /\ (SizeUnknown' <=> SizeUnknown)
        /\ \A n : Offset(md_syms, n)' = Offset(md_syms, n) /\ CopyDef(n)' = CopyDef(n)
    BY <1>1 DEF mdInput, nr_maps, d_size, map_def_sz, SizeUnknown, Offset, CopyDef
  <1>3. nr_maps \in Nat
    BY <1>1 DEF LegacyInv, nr_maps
  <1>4. CASE UNCHANGED mdVars
    BY <1>1, <1>2, <1>4 DEF LegacyInv, mdVars, mdInput
  <1>5. CASE CountMaps
    BY <1>1, <1>2, <1>5 DEF LegacyInv, CountMaps, mdInput
  <1>6. CASE InitUserMap
    <2> DEFINE off == Offset(md_syms, md_i)
               copy(n) == CopyDef(Offset(md_syms, n))
    <2>1. CASE md_i' = md_i
      <3>1. md_maps' = md_maps /\ md_ret' # "0"
        BY <1>6, <2>1, <1>1 DEF InitUserMap, LegacyInv
      <3> QED BY <1>1, <1>2, <2>1, <3>1 DEF LegacyInv, mdInput
    <2>2. CASE md_i' # md_i
      <3>1. /\ md_i' = md_i + 1 /\ md_maps' = Append(md_maps, copy(md_i)) /\ md_i <= nr_maps
            /\ ~ SizeUnknown
            /\ ~ (off + map_def_sz > d_size)
            /\ ~ (md_strict /\ 1 \in {md_data[off + c] : c \in DefSize + 1 .. map_def_sz})
            /\ md_ret' = IF md_i = nr_maps THEN "0" ELSE "running"
        BY <1>6, <2>2 DEF InitUserMap
      <3>2. md_i \in 1 .. nr_maps + 1 /\ md_maps = [n \in 1 .. md_i - 1 |-> copy(n)]
        BY <1>1 DEF LegacyInv
      <3>3. md_i \in 1 .. nr_maps /\ md_i' \in 1 .. nr_maps + 1 /\ md_i \in Nat
        BY <1>3, <3>1, <3>2
      <3>4. md_maps' = [n \in 1 .. md_i' - 1 |-> copy(n)]
        <4> HIDE DEF copy
        <4>1. Len(md_maps) = md_i - 1 /\ md_i - 1 \in Nat
          BY <3>2, <3>3
        <4> QED BY <3>1, <3>2, <3>3, <4>1
      <3>5. off + map_def_sz <= d_size
        <4>1. off \in Nat
          <5>1. Sums(md_syms) \in [0 .. Len(md_syms) -> Nat]
            BY <1>1, SumsAre DEF LegacyInv
          <5> QED BY <3>3, <5>1 DEF Offset, nr_maps
        <4>2. d_size \in Nat /\ map_def_sz \in Int
          <5>1. Total(md_syms) \in Nat
            BY <1>1, TotalIs DEF LegacyInv
          <5>2. d_size \in Nat
            BY <1>1, <5>1 DEF LegacyInv, d_size
          <5>3. nr_maps \in Nat \ {0}
            BY <1>3, <3>3
          <5> QED BY <5>2, <5>3, ModDef DEF map_def_sz
        <4> QED BY <3>1, <4>1, <4>2
      <3>6. \A n \in 1 .. md_i' - 1 : n = md_i \/ n \in 1 .. md_i - 1
        BY <3>1, <3>3
      <3>7. \A n \in 1 .. md_i' - 1 :
              /\ Offset(md_syms, n) + map_def_sz <= d_size
              /\ md_strict => \A c \in DefSize + 1 .. map_def_sz : md_data[Offset(md_syms, n) + c] # 1
        BY <1>1, <3>1, <3>5, <3>6 DEF LegacyInv
      <3>8. md_ret' = "0" => md_i' = nr_maps + 1
        BY <3>1
      <3> QED BY <1>1, <1>2, <3>1, <3>3, <3>4, <3>7, <3>8 DEF LegacyInv, mdInput
    <2> QED BY <2>1, <2>2
  <1>7. CASE InitBtfField \/ EndBtfMap
    BY <1>1, <1>7 DEF InitBtfField, EndBtfMap
  <1> QED BY <1>4, <1>5, <1>6, <1>7 DEF MdNext

\* The average size of a symbol.
LEMMA AverageSize ==
  ASSUME LegacyInv, md_kind = "legacy", md_ret = "0"
  PROVE  /\ nr_maps \in Nat \ {0} /\ map_def_sz \in Nat \ {0} /\ Total(md_syms) = map_def_sz * nr_maps
         /\ \A n \in 1 .. nr_maps : Offset(md_syms, n) \in Nat
         /\ (\A n \in 1 .. nr_maps : md_syms[n] >= DefSize) => map_def_sz >= DefSize
         /\ (\A n \in 1 .. nr_maps : md_syms[n] >= DefSize) /\ map_def_sz = DefSize
              => \A n \in 1 .. nr_maps : md_syms[n] = DefSize
         /\ \A s \in Nat : (\A n \in 1 .. nr_maps : md_syms[n] = s) => s = map_def_sz
  <1>1. md_syms \in Seq(Nat) /\ nr_maps = Len(md_syms) /\ nr_maps \in Nat /\ ~ SizeUnknown
    BY DEF LegacyInv, nr_maps
  <1>2. Total(md_syms) \in Nat /\ d_size = Total(md_syms)
        /\ \A n \in 1 .. nr_maps : Offset(md_syms, n) \in Nat
    <2>1. Sums(md_syms) \in [0 .. Len(md_syms) -> Nat]
      BY <1>1, SumsAre
    <2>2. Total(md_syms) \in Nat /\ \A n \in 1 .. nr_maps : Offset(md_syms, n) \in Nat
      BY <1>1, <2>1 DEF Total, Offset
    <2> QED BY <2>2 DEF LegacyInv, d_size
  <1>3. PICK each \in 1 .. d_size : d_size = each * nr_maps
    BY <1>1 DEF SizeUnknown
  <1>4. each \in Nat \ {0} /\ nr_maps # 0
    BY <1>2, <1>3
  <1>5. (each * nr_maps) \div nr_maps = each
    BY <1>1, <1>4
  <1>6. map_def_sz = each /\ Total(md_syms) = each * nr_maps
    BY <1>2, <1>3, <1>5 DEF map_def_sz
  <1> HIDE DEF nr_maps
  <1>7. ASSUME \A n \in 1 .. nr_maps : md_syms[n] >= DefSize, NEW m \in 1 .. nr_maps
        PROVE  each * nr_maps >= nr_maps * DefSize + (md_syms[m] - DefSize) /\ md_syms[m] \in Nat
    <2>1. Sums(md_syms)[Len(md_syms)] >= Len(md_syms) * DefSize + (md_syms[m] - DefSize)
      BY <1>1, <1>7, SumsOfMore, MapDefsAssumption
    <2> QED BY <1>1, <1>6, <2>1 DEF Total
  <1>8. ASSUME \A n \in 1 .. nr_maps : md_syms[n] >= DefSize
        PROVE  each >= DefSize
    <2>1. 1 \in 1 .. nr_maps
      BY <1>1, <1>4
    <2>2. each * nr_maps >= nr_maps * DefSize
      <3>1. md_syms[1] \in Nat /\ md_syms[1] >= DefSize /\ each * nr_maps >= nr_maps * DefSize + (md_syms[1] - DefSize)
        BY <1>7, <1>8, <2>1
      <3>2. each * nr_maps \in Nat /\ nr_maps * DefSize \in Nat
        BY <1>1, <1>4, MapDefsAssumption
      <3> QED BY ONLY <3>1, <3>2, MapDefsAssumption
    <2> QED BY <1>1, <1>4, <2>2, MapDefsAssumption
  <1>9. ASSUME \A n \in 1 .. nr_maps : md_syms[n] >= DefSize, each = DefSize, NEW m \in 1 .. nr_maps
        PROVE  md_syms[m] = DefSize
    <2>1. md_syms[m] >= DefSize /\ md_syms[m] \in Nat /\ DefSize * nr_maps >= nr_maps * DefSize + (md_syms[m] - DefSize)
      BY <1>7, <1>9
    <2>2. DefSize * nr_maps = nr_maps * DefSize /\ nr_maps * DefSize \in Nat
      BY <1>1, MapDefsAssumption
    <2> QED BY <2>1, <2>2, MapDefsAssumption
  <1>10. ASSUME NEW s \in Nat, \A n \in 1 .. nr_maps : md_syms[n] = s
         PROVE  s = each
    <2>1. Total(md_syms) = nr_maps * s
      <3>1. Len(md_syms) \in 0 .. Len(md_syms)
        BY <1>1
      <3> QED BY <1>1, <1>10, <3>1, SumsOfEqual DEF Total
    <2>2. nr_maps * s = each * nr_maps
      BY <1>6, <2>1
    <2> QED BY <1>1, <1>4, <2>2
  <1> QED BY <1>1, <1>2, <1>4, <1>6, <1>8, <1>9, <1>10

\* The definitions of the maps are their own.
LEMMA LegacyOwn ==
  ASSUME LegacyInv PROVE LegacyDefsAreOwn
  <1> SUFFICES ASSUME md_kind = "legacy", md_ret = "0",
                      \/ Cardinality(Range(md_syms)) = 1
                      \/ \A n \in DOMAIN md_syms : md_syms[n] >= DefSize
               PROVE  md_maps = [n \in DOMAIN md_syms |->
                        [c \in 1 .. DefSize |-> IF c <= md_syms[n] THEN md_data[Offset(md_syms, n) + c] ELSE 0]]
    BY DEF LegacyDefsAreOwn
  <1>1. DOMAIN md_syms = 1 .. nr_maps /\ nr_maps \in Nat /\ md_syms \in [1 .. nr_maps -> Nat]
    BY DEF LegacyInv, nr_maps
  <1>2. md_maps = [n \in 1 .. nr_maps |-> CopyDef(Offset(md_syms, n))]
    <2>1. md_i = nr_maps + 1 /\ md_maps = [n \in 1 .. md_i - 1 |-> CopyDef(Offset(md_syms, n))]
      BY DEF LegacyInv
    <2>2. md_i - 1 = nr_maps
      BY <1>1, <2>1
    <2> QED BY <2>1, <2>2
  <1>3. ASSUME NEW n \in 1 .. nr_maps, NEW c \in 1 .. DefSize
        PROVE  c <= map_def_sz <=> c <= md_syms[n]
    <2>1. CASE \A m \in DOMAIN md_syms : md_syms[m] >= DefSize
      <3>1. map_def_sz >= DefSize /\ map_def_sz \in Nat
        BY <1>1, <2>1, AverageSize
      <3> QED BY <1>1, <2>1, <3>1, MapDefsAssumption
    <2>2. CASE Cardinality(Range(md_syms)) = 1
      <3>1. Range(md_syms) = {md_syms[m] : m \in 1 .. nr_maps}
        BY <1>1 DEF Range
      <3>2. IsFiniteSet(Range(md_syms))
        BY <1>1, <3>1, ImageFinite
      <3>3. \A m \in 1 .. nr_maps : md_syms[m] = md_syms[n]
        <4>1. \A x, y \in Range(md_syms) : x = y
          BY <2>2, <3>2, OneElement
        <4> QED BY <3>1, <4>1
      <3>4. md_syms[n] = map_def_sz
        BY <1>1, <3>3, AverageSize
      <3> QED BY <3>4
    <2> QED BY <2>1, <2>2
  <1>4. ASSUME NEW n \in 1 .. nr_maps
        PROVE  CopyDef(Offset(md_syms, n)) =
                 [c \in 1 .. DefSize |-> IF c <= md_syms[n] THEN md_data[Offset(md_syms, n) + c] ELSE 0]
    BY <1>3 DEF CopyDef
  <1> QED BY <1>1, <1>2, <1>4

\* Maps of several sizes are refused.
LEMMA ArraysRefused ==
  ASSUME LegacyInv PROVE ArraysAreRefused
  <1> SUFFICES ASSUME md_kind = "legacy", md_ret = "0", md_strict,
                      \A n \in DOMAIN md_syms : md_syms[n] >= DefSize,
                      NEW n \in DOMAIN md_syms, md_syms[n] >= 2 * DefSize
               PROVE  md_data[Offset(md_syms, n) + DefSize + 1] = 0
    BY DEF ArraysAreRefused
  <1>1. DOMAIN md_syms = 1 .. nr_maps /\ nr_maps \in Nat /\ md_syms \in [1 .. nr_maps -> Nat]
    BY DEF LegacyInv, nr_maps
  <1>2. map_def_sz >= DefSize /\ map_def_sz \in Nat \ {0} /\ map_def_sz # DefSize /\ Offset(md_syms, n) \in Nat
    <2>1. map_def_sz >= DefSize /\ map_def_sz \in Nat \ {0} /\ Offset(md_syms, n) \in Nat
      BY <1>1, AverageSize
    <2>2. map_def_sz = DefSize => md_syms[n] = DefSize
      BY <1>1, AverageSize
    <2> QED BY <2>1, <2>2, MapDefsAssumption
  <1>3. n \in 1 .. md_i - 1
    BY <1>1 DEF LegacyInv
  <1>4. /\ Offset(md_syms, n) + map_def_sz <= d_size
        /\ \A c \in DefSize + 1 .. map_def_sz : md_data[Offset(md_syms, n) + c] # 1
    BY <1>3 DEF LegacyInv
  <1>5. DefSize + 1 \in DefSize + 1 .. map_def_sz
    BY <1>2, MapDefsAssumption
  <1>6. d_size = Total(md_syms) /\ Total(md_syms) \in Nat
    <2>1. Total(md_syms) \in Nat
      BY TotalIs DEF LegacyInv
    <2> QED BY <2>1 DEF LegacyInv, d_size
  <1> DEFINE x == Offset(md_syms, n)
  <1> HIDE DEF x
  <1>7. x + (DefSize + 1) \in 1 .. Total(md_syms) /\ x + (DefSize + 1) = x + DefSize + 1
    <2>1. x \in Nat /\ x + map_def_sz <= Total(md_syms)
      BY <1>2, <1>4, <1>6 DEF x
    <2> QED BY <1>2, <1>6, <2>1, MapDefsAssumption
  <1>8. md_data[x + (DefSize + 1)] \in {0, 1} /\ md_data[x + (DefSize + 1)] # 1
    BY <1>4, <1>5, <1>7 DEF LegacyInv, x
  <1> QED BY <1>7, <1>8 DEF x

(* A BTF map: the fields before the next one.                              *)

\* The fields that give the size of a key, and of a value.
KeyNames == {"key_size", "key"}
ValueNames == {"value_size", "value"}
\* A size is that of all fields read so far that give it.
SizeFits(names, size) ==
  /\ \A j \in 1 .. md_i - 1 : md_fields[j].name \in names => md_fields[j].value = size \/ 0 \in ValuesOf(names)
  /\ size # 0 => \E j \in 1 .. md_i - 1 : md_fields[j].name \in names /\ md_fields[j].value = size
\* What a definition is.
BtfDefs == [type : Nat, max_entries : Nat, map_flags : Nat, key_size : Nat, value_size : Nat,
            pin_path : BOOLEAN, error : {"0"}]

\* The definition is what the fields before the next one say.
BtfFieldsRead ==
  /\ md_strict \in BOOLEAN /\ BtfDef \in BtfDefs
  /\ Len(md_fields) \in Nat /\ md_fields \in [1 .. Len(md_fields) -> [name : FieldNames, value : Nat \cup {BadValue}]]
  /\ \A j, k \in 1 .. Len(md_fields) : md_fields[j].name = md_fields[k].name => j = k
  /\ md_i \in 1 .. Len(md_fields) + 1
  /\ \A j \in 1 .. md_i - 1 : md_fields[j].name # "other" => md_fields[j].value # BadValue
  /\ \A j \in 1 .. md_i - 1 : md_fields[j].name = "type" => BtfDef.type = md_fields[j].value
  /\ BtfDef.type # 0 => \E j \in 1 .. md_i - 1 : md_fields[j].name = "type"
  /\ SizeFits(KeyNames, BtfDef.key_size) /\ SizeFits(ValueNames, BtfDef.value_size)
  /\ \A j \in 1 .. md_i - 1 : md_fields[j].name = "pinning" => md_fields[j].value \in {0, 1}
  /\ BtfDef.pin_path <=> \E j \in 1 .. md_i - 1 : md_fields[j].name = "pinning" /\ md_fields[j].value = 1
  /\ md_strict => \A j \in 1 .. md_i - 1 : md_fields[j].name # "other"

\* Of the section .maps: the same for its fields, whatever their order.
BtfInv ==
  md_kind = "btf" =>
    /\ BtfFieldsRead
    /\ FieldOrderDoesNotMatter

\* A field that is accepted.
LEMMA FieldAccepted ==
  ASSUME NEW def \in BtfDefs, NEW f \in [name : FieldNames, value : Nat \cup {BadValue}],
         ApplyField(def, f).error = "0"
  PROVE  LET new == ApplyField(def, f) IN
         /\ new \in BtfDefs
         /\ f.name # "other" => f.value # BadValue
         /\ f.name = "other" => ~ md_strict
         /\ new.type = IF f.name = "type" THEN f.value ELSE def.type
         /\ new.key_size = IF f.name \in KeyNames THEN f.value ELSE def.key_size
         /\ new.value_size = IF f.name \in ValueNames THEN f.value ELSE def.value_size
         /\ f.name \in KeyNames => def.key_size = 0 \/ def.key_size = f.value
         /\ f.name \in ValueNames => def.value_size = 0 \/ def.value_size = f.value
         /\ f.name = "pinning" => f.value \in {0, 1}
         /\ new.pin_path <=> def.pin_path \/ (f.name = "pinning" /\ f.value = 1)
  <1> DEFINE new == ApplyField(def, f)
  <1>1. Refused("EINVAL").error = "EINVAL" /\ Refused("ENOTSUP").error = "ENOTSUP"
    BY DEF Refused, NoDef
  <1>2. CASE f.name = "other"
    <2>1. new = def /\ ~ md_strict
      BY <1>1, <1>2 DEF ApplyField
    <2> QED BY <1>2, <2>1 DEF BtfDefs, KeyNames, ValueNames
  <1>3. CASE f.name # "other" /\ f.value = BadValue
    BY <1>1, <1>3 DEF ApplyField
  <1>4. ASSUME f.name # "other", f.value # BadValue
        PROVE  f.value \in Nat
    BY <1>4
  <1>5. CASE f.name = "type" /\ f.value # BadValue
    <2>1. new = [def EXCEPT !["type"] = f.value]
      BY <1>5 DEF ApplyField
    <2> QED BY <1>4, <1>5, <2>1 DEF BtfDefs, KeyNames, ValueNames
  <1>6. CASE f.name = "max_entries" /\ f.value # BadValue
    <2>1. new = [def EXCEPT !["max_entries"] = f.value]
      BY <1>6 DEF ApplyField
    <2> QED BY <1>4, <1>6, <2>1 DEF BtfDefs, KeyNames, ValueNames
  <1>7. CASE f.name = "map_flags" /\ f.value # BadValue
    <2>1. new = [def EXCEPT !["map_flags"] = f.value]
      BY <1>7 DEF ApplyField
    <2> QED BY <1>4, <1>7, <2>1 DEF BtfDefs, KeyNames, ValueNames
  <1>8. CASE f.name \in KeyNames /\ f.value # BadValue
    <2>1. new = SetSize(def, "key_size", f.value)
      BY <1>8 DEF ApplyField, KeyNames
    <2>2. ~ (def.key_size # 0 /\ def.key_size # f.value) /\ new = [def EXCEPT !["key_size"] = f.value]
      BY <1>1, <2>1 DEF SetSize
    <2>3. f.value \in Nat /\ f.name \notin ValueNames /\ f.name \notin {"type", "pinning", "other"}
      BY <1>4, <1>8 DEF KeyNames, ValueNames
    <2> QED BY <1>8, <2>2, <2>3 DEF BtfDefs
  <1>9. CASE f.name \in ValueNames /\ f.value # BadValue
    <2>1. new = SetSize(def, "value_size", f.value)
      BY <1>9 DEF ApplyField, ValueNames
    <2>2. ~ (def.value_size # 0 /\ def.value_size # f.value) /\ new = [def EXCEPT !["value_size"] = f.value]
      BY <1>1, <2>1 DEF SetSize
    <2>3. f.value \in Nat /\ f.name \notin KeyNames /\ f.name \notin {"type", "pinning", "other"}
      BY <1>4, <1>9 DEF KeyNames, ValueNames
    <2> QED BY <1>9, <2>2, <2>3 DEF BtfDefs
  <1>10. CASE f.name = "pinning" /\ f.value # BadValue
    <2>1. new = IF f.value \notin {0, 1} THEN Refused("EINVAL")
                ELSE IF f.value = 1 THEN [def EXCEPT !.pin_path = TRUE] ELSE def
      BY <1>10 DEF ApplyField
    <2>2. f.value \in {0, 1} /\ new = IF f.value = 1 THEN [def EXCEPT !.pin_path = TRUE] ELSE def
      BY <1>1, <2>1
    <2>3. /\ new \in BtfDefs /\ new.type = def.type /\ new.key_size = def.key_size
          /\ new.value_size = def.value_size /\ (new.pin_path <=> def.pin_path \/ f.value = 1)
      BY <2>2 DEF BtfDefs
    <2> QED BY <1>10, <2>2, <2>3 DEF KeyNames, ValueNames
  <1> QED BY <1>2, <1>3, <1>5, <1>6, <1>7, <1>8, <1>9, <1>10 DEF FieldNames, KeyNames, ValueNames

\* A field that is refused.
LEMMA FieldRefused ==
  ASSUME NEW def \in BtfDefs, NEW f \in [name : FieldNames, value : Nat \cup {BadValue}],
         ApplyField(def, f).error # "0"
  PROVE  \/ f.name # "other" /\ f.value = BadValue
         \/ f.name \in KeyNames /\ f.value # BadValue /\ def.key_size # 0 /\ def.key_size # f.value
         \/ f.name \in ValueNames /\ f.value # BadValue /\ def.value_size # 0 /\ def.value_size # f.value
         \/ f.name = "pinning" /\ f.value \notin {0, 1}
         \/ f.name = "other" /\ md_strict
  <1> DEFINE new == ApplyField(def, f)
  <1>1. def.error = "0"
    BY DEF BtfDefs
  <1>2. CASE f.name = "other"
    <2>1. new = IF md_strict THEN Refused("ENOTSUP") ELSE def
      BY <1>2 DEF ApplyField
    <2> QED BY <1>1, <1>2, <2>1
  <1>5. CASE f.name \in {"type", "max_entries", "map_flags"} /\ f.value # BadValue
    <2>1. new = [def EXCEPT ![f.name] = f.value]
      BY <1>5 DEF ApplyField
    <2>2. new.error = "0"
      BY <1>1, <1>5, <2>1 DEF BtfDefs
    <2> QED BY <2>2
  <1>8. CASE f.name \in KeyNames /\ f.value # BadValue
    <2>1. new = SetSize(def, "key_size", f.value)
      BY <1>8 DEF ApplyField, KeyNames
    <2>2. CASE def.key_size = 0 \/ def.key_size = f.value
      <3>1. new = [def EXCEPT !["key_size"] = f.value]
        BY <2>1, <2>2 DEF SetSize
      <3>2. new.error = "0"
        BY <1>1, <3>1 DEF BtfDefs
      <3> QED BY <3>2
    <2> QED BY <1>8, <2>2
  <1>9. CASE f.name \in ValueNames /\ f.value # BadValue
    <2>1. new = SetSize(def, "value_size", f.value)
      BY <1>9 DEF ApplyField, ValueNames
    <2>2. CASE def.value_size = 0 \/ def.value_size = f.value
      <3>1. new = [def EXCEPT !["value_size"] = f.value]
        BY <2>1, <2>2 DEF SetSize
      <3>2. new.error = "0"
        BY <1>1, <3>1 DEF BtfDefs
      <3> QED BY <3>2
    <2> QED BY <1>9, <2>2
  <1>10. CASE f.name = "pinning" /\ f.value # BadValue
    <2>1. new = IF f.value \notin {0, 1} THEN Refused("EINVAL")
                ELSE IF f.value = 1 THEN [def EXCEPT !.pin_path = TRUE] ELSE def
      BY <1>10 DEF ApplyField
    <2>2. CASE f.value \in {0, 1}
      <3>1. new.error = "0"
        BY <1>1, <2>1, <2>2 DEF BtfDefs
      <3> QED BY <3>1
    <2> QED BY <1>10, <2>2
  <1> QED BY <1>2, <1>5, <1>8, <1>9, <1>10 DEF FieldNames, KeyNames, ValueNames

\* No field is read at the start.
LEMMA BtfInit ==
  ASSUME MdInit PROVE BtfInv
  <1> SUFFICES ASSUME md_kind = "btf" PROVE BtfInv
    BY DEF BtfInv
  <1>1. md_fields \in FieldLists /\ MdStart /\ md_strict \in BOOLEAN
    BY DEF MdInit
  <1>2. md_fields \in BoundedSeq(MapFields, MaxFields)
        /\ \A j, k \in DOMAIN md_fields : md_fields[j].name = md_fields[k].name => j = k
    BY <1>1 DEF FieldLists
  <1>3. PICK n \in 0 .. MaxFields : md_fields \in [1 .. n -> MapFields]
    BY <1>2, MapDefsAssumption DEF BoundedSeq, SeqOf
  <1>4. /\ Len(md_fields) = n /\ n \in Nat
        /\ md_fields \in [1 .. Len(md_fields) -> [name : FieldNames, value : Nat \cup {BadValue}]]
        /\ DOMAIN md_fields = 1 .. Len(md_fields)
    BY <1>3, MapDefsAssumption
  <1>5. BtfDef = NoDef /\ md_i = 1 /\ md_ret = "running" /\ 1 .. md_i - 1 = {}
    BY <1>1 DEF MdStart, BtfDef
  <1>6. BtfDef \in BtfDefs /\ BtfDef.type = 0 /\ BtfDef.key_size = 0 /\ BtfDef.value_size = 0 /\ BtfDef.pin_path = FALSE
    BY <1>5 DEF NoDef, BtfDefs
  <1>7. SizeFits(KeyNames, 0) /\ SizeFits(ValueNames, 0)
    BY <1>5 DEF SizeFits
  <1>8. BtfFieldsRead
    <2>1. md_i \in 1 .. Len(md_fields) + 1
      BY <1>4, <1>5
    <2> QED BY <1>1, <1>2, <1>4, <1>5, <1>6, <1>7, <2>1 DEF BtfFieldsRead
  <1> QED BY <1>5, <1>8 DEF BtfInv, FieldOrderDoesNotMatter

\* The sizes that a map's fields give.
LEMMA SizesOfFields ==
  ASSUME BtfFieldsRead, NEW names
  PROVE  /\ IsFiniteSet(ValuesOf(names))
         /\ Cardinality(ValuesOf(names)) <= 1 <=> \A x, y \in ValuesOf(names) : x = y
         /\ \A x : x \in ValuesOf(names) <=>
              \E j \in 1 .. Len(md_fields) : md_fields[j].name \in names /\ md_fields[j].value = x
  <1> DEFINE f == [k \in 1 .. Len(md_fields) |-> md_fields[k].value]
             R == {f[k] : k \in 1 .. Len(md_fields)}
  <1>1. DOMAIN md_fields = 1 .. Len(md_fields) /\ Len(md_fields) \in Nat
    BY DEF BtfFieldsRead
  <1>2. \A x : x \in ValuesOf(names) <=>
          \E j \in 1 .. Len(md_fields) : md_fields[j].name \in names /\ md_fields[j].value = x
    BY <1>1 DEF ValuesOf
  <1>3. ValuesOf(names) \in SUBSET R
    BY <1>2
  <1>4. IsFiniteSet(R)
    <2>1. DOMAIN f = 1 .. Len(md_fields) /\ f = [k \in 1 .. Len(md_fields) |-> f[k]]
      OBVIOUS
    <2> HIDE DEF f
    <2> QED BY <1>1, <2>1, ImageFinite
  <1>5. IsFiniteSet(ValuesOf(names))
    BY <1>3, <1>4, FS_Subset
  <1> QED BY <1>2, <1>5, OneElement

\* A size that is refused is not the only one.
LEMMA SizeRefused ==
  ASSUME BtfFieldsRead, NEW names, NEW size \in Nat, SizeFits(names, size), size # 0,
         NEW j \in 1 .. Len(md_fields), md_fields[j].name \in names, md_fields[j].value # size
  PROVE  ~ (Cardinality(ValuesOf(names)) <= 1)
  <1>1. PICK k \in 1 .. md_i - 1 : md_fields[k].name \in names /\ md_fields[k].value = size
    BY DEF SizeFits
  <1>2. k \in 1 .. Len(md_fields)
    BY DEF BtfFieldsRead
  <1>3. size \in ValuesOf(names) /\ md_fields[j].value \in ValuesOf(names)
    BY <1>1, <1>2, SizesOfFields
  <1> QED BY <1>3, SizesOfFields

\* The sizes after the last field.
LEMMA SizesAtEnd ==
  ASSUME BtfFieldsRead, md_i = Len(md_fields) + 1, NEW names, NEW size \in Nat, SizeFits(names, size),
         ~ (0 \in ValuesOf(names) /\ ValuesOf(names) # {0})
  PROVE  ValuesOf(names) \subseteq {size} /\ Cardinality(ValuesOf(names)) <= 1
  <1>1. md_i - 1 = Len(md_fields)
    BY DEF BtfFieldsRead
  <1>2. ASSUME NEW x \in ValuesOf(names) PROVE x = size
    <2>1. PICK j \in 1 .. Len(md_fields) : md_fields[j].name \in names /\ md_fields[j].value = x
      BY SizesOfFields
    <2>2. x = size \/ 0 \in ValuesOf(names)
      BY <1>1, <2>1 DEF SizeFits
    <2>3. CASE 0 \in ValuesOf(names)
      <3>1. x = 0
        BY <2>3
      <3>2. size # 0 => size \in ValuesOf(names)
        BY <1>1, SizesOfFields DEF SizeFits
      <3> QED BY <2>3, <3>1, <3>2
    <2> QED BY <2>2, <2>3
  <1> QED BY <1>2, SizesOfFields

\* A field that is accepted is in the definition.
LEMMA AcceptedStep ==
  ASSUME BtfFieldsRead, UNCHANGED mdInput, md_i <= Len(md_fields),
         ApplyField(BtfDef, md_fields[md_i]).error = "0",
         md_maps' = <<ApplyField(BtfDef, md_fields[md_i])>>, md_i' = md_i + 1
  PROVE  BtfFieldsRead'
  <1> DEFINE new == ApplyField(BtfDef, md_fields[md_i])
             f == md_fields[md_i]
  <1>1. /\ BtfDef \in BtfDefs /\ Len(md_fields) \in Nat /\ md_i \in 1 .. Len(md_fields)
        /\ f \in [name : FieldNames, value : Nat \cup {BadValue}]
    <2>1. BtfDef \in BtfDefs /\ Len(md_fields) \in Nat /\ md_i \in 1 .. Len(md_fields)
      BY DEF BtfFieldsRead
    <2> QED BY <2>1 DEF BtfFieldsRead
  <1>2. /\ new \in BtfDefs
        /\ f.name # "other" => f.value # BadValue
        /\ f.name = "other" => ~ md_strict
        /\ new.type = IF f.name = "type" THEN f.value ELSE BtfDef.type
        /\ new.key_size = IF f.name \in KeyNames THEN f.value ELSE BtfDef.key_size
        /\ new.value_size = IF f.name \in ValueNames THEN f.value ELSE BtfDef.value_size
        /\ f.name \in KeyNames => BtfDef.key_size = 0 \/ BtfDef.key_size = f.value
        /\ f.name \in ValueNames => BtfDef.value_size = 0 \/ BtfDef.value_size = f.value
        /\ f.name = "pinning" => f.value \in {0, 1}
        /\ new.pin_path <=> BtfDef.pin_path \/ (f.name = "pinning" /\ f.value = 1)
    BY <1>1, FieldAccepted
  <1> HIDE DEF new
  <1>3. BtfDef' = new
    BY DEF BtfDef, new
  <1>4. md_i' - 1 = md_i /\ md_i \in Nat /\ md_i' \in 1 .. Len(md_fields) + 1
        /\ \A j : j \in 1 .. md_i <=> j \in 1 .. md_i - 1 \/ j = md_i
    BY <1>1
  <1>5. md_fields' = md_fields /\ md_strict' = md_strict /\ \A names : ValuesOf(names)' = ValuesOf(names)
    BY DEF mdInput, ValuesOf
  <1> DEFINE Fits(names, size) ==
               /\ \A j \in 1 .. md_i : md_fields[j].name \in names => md_fields[j].value = size \/ 0 \in ValuesOf(names)
               /\ size # 0 => \E j \in 1 .. md_i : md_fields[j].name \in names /\ md_fields[j].value = size
  <1>6. ASSUME NEW names, NEW size \in Nat, NEW size2 \in Nat \cup {BadValue}, SizeFits(names, size),
               size2 = IF f.name \in names THEN f.value ELSE size,
               f.name \in names => size = 0 \/ size = f.value
        PROVE  Fits(names, size2)
    <2>1. ASSUME NEW j \in 1 .. md_i, md_fields[j].name \in names
          PROVE  md_fields[j].value = size2 \/ 0 \in ValuesOf(names)
      <3>1. CASE j = md_i
        BY <1>6, <2>1, <3>1
      <3>2. CASE j \in 1 .. md_i - 1
        <4>1. md_fields[j].value = size \/ 0 \in ValuesOf(names)
          BY <1>6, <2>1, <3>2 DEF SizeFits
        <4>2. size # size2 => size = 0
          BY <1>6
        <4>3. md_fields[j].value = 0 => 0 \in ValuesOf(names)
          <5>1. j \in 1 .. Len(md_fields)
            BY <1>1, <1>4, <3>2
          <5> QED BY <2>1, <5>1, SizesOfFields
        <4> QED BY <4>1, <4>2, <4>3
      <3> QED BY <1>4, <3>1, <3>2
    <2>2. size2 # 0 => \E j \in 1 .. md_i : md_fields[j].name \in names /\ md_fields[j].value = size2
      <3>1. md_i \in 1 .. md_i
        BY <1>4
      <3> QED BY <1>4, <1>6, <3>1 DEF SizeFits
    <2> QED BY <2>1, <2>2
  <1> HIDE DEF Fits
  <1>7. SizeFits(KeyNames, BtfDef.key_size)' /\ SizeFits(ValueNames, BtfDef.value_size)'
    <2>1. SizeFits(KeyNames, BtfDef.key_size) /\ SizeFits(ValueNames, BtfDef.value_size)
      BY DEF BtfFieldsRead
    <2>2. /\ BtfDef.key_size \in Nat /\ new.key_size \in Nat
          /\ BtfDef.value_size \in Nat /\ new.value_size \in Nat
      BY <1>1, <1>2 DEF BtfDefs
    <2>3. Fits(KeyNames, new.key_size) /\ Fits(ValueNames, new.value_size)
      BY <1>2, <1>6, <2>1, <2>2
    <2> QED BY <1>3, <1>4, <1>5, <2>3 DEF SizeFits, Fits
  <1>8. BtfDef'.type # 0 => \E j \in 1 .. md_i : md_fields[j].name = "type"
    <2>1. md_i \in 1 .. md_i
      BY <1>4
    <2> QED BY <1>2, <1>3, <1>4, <2>1 DEF BtfFieldsRead
  <1>9. \A j \in 1 .. md_i : md_fields[j].name = "type" => BtfDef'.type = md_fields[j].value
    <2> SUFFICES ASSUME NEW j \in 1 .. md_i, md_fields[j].name = "type" PROVE new.type = md_fields[j].value
      BY <1>3
    <2>1. CASE j = md_i
      BY <1>2, <2>1
    <2>2. CASE j \in 1 .. md_i - 1
      <3>1. j # md_i /\ j \in 1 .. Len(md_fields)
        BY <1>1, <2>2
      <3>2. f.name # "type"
        BY <1>1, <3>1 DEF BtfFieldsRead
      <3> QED BY <1>2, <2>2, <3>2 DEF BtfFieldsRead
    <2> QED BY <1>4, <2>1, <2>2
  <1>10. BtfDef'.pin_path <=> \E j \in 1 .. md_i : md_fields[j].name = "pinning" /\ md_fields[j].value = 1
    <2>1. BtfDef.pin_path <=> \E j \in 1 .. md_i - 1 : md_fields[j].name = "pinning" /\ md_fields[j].value = 1
      BY DEF BtfFieldsRead
    <2>2. new.pin_path <=> BtfDef.pin_path \/ (f.name = "pinning" /\ f.value = 1)
      BY <1>2
    <2> QED BY <1>3, <1>4, <2>1, <2>2
  <1>11. \A j \in 1 .. md_i :
           /\ md_fields[j].name # "other" => md_fields[j].value # BadValue
           /\ md_fields[j].name = "pinning" => md_fields[j].value \in {0, 1}
           /\ md_strict => md_fields[j].name # "other"
    BY <1>2, <1>4 DEF BtfFieldsRead
  <1>12. BtfDef' \in BtfDefs
    BY <1>2, <1>3
  <1>13. /\ md_strict \in BOOLEAN
         /\ Len(md_fields) \in Nat /\ md_fields \in [1 .. Len(md_fields) -> [name : FieldNames, value : Nat \cup {BadValue}]]
         /\ \A j, k \in 1 .. Len(md_fields) : md_fields[j].name = md_fields[k].name => j = k
    BY DEF BtfFieldsRead
  <1> QED BY <1>3, <1>4, <1>5, <1>7, <1>8, <1>9, <1>10, <1>11, <1>12, <1>13 DEF BtfFieldsRead

\* A field that is refused is not proper.
LEMMA RefusedField ==
  ASSUME BtfFieldsRead, md_i <= Len(md_fields), ApplyField(BtfDef, md_fields[md_i]).error # "0"
  PROVE  ~ ProperFields
  <1> DEFINE f == md_fields[md_i]
  <1>1. /\ BtfDef \in BtfDefs /\ Len(md_fields) \in Nat /\ md_i \in 1 .. Len(md_fields)
        /\ f \in [name : FieldNames, value : Nat \cup {BadValue}] /\ DOMAIN md_fields = 1 .. Len(md_fields)
    <2>1. BtfDef \in BtfDefs /\ Len(md_fields) \in Nat /\ md_i \in 1 .. Len(md_fields)
      BY DEF BtfFieldsRead
    <2> QED BY <2>1 DEF BtfFieldsRead
  <1>2. CASE f.name # "other" /\ f.value = BadValue
    BY <1>1, <1>2 DEF ProperFields
  <1>3. CASE f.name \in KeyNames /\ BtfDef.key_size # 0 /\ BtfDef.key_size # f.value
    <2>1. ~ (Cardinality(ValuesOf(KeyNames)) <= 1)
      <3>1. BtfDef.key_size \in Nat /\ SizeFits(KeyNames, BtfDef.key_size)
        BY <1>1 DEF BtfDefs, BtfFieldsRead
      <3> QED BY <1>1, <1>3, <3>1, SizeRefused
    <2> QED BY <2>1 DEF ProperFields, KeySizes, KeyNames
  <1>4. CASE f.name \in ValueNames /\ BtfDef.value_size # 0 /\ BtfDef.value_size # f.value
    <2>1. ~ (Cardinality(ValuesOf(ValueNames)) <= 1)
      <3>1. BtfDef.value_size \in Nat /\ SizeFits(ValueNames, BtfDef.value_size)
        BY <1>1 DEF BtfDefs, BtfFieldsRead
      <3> QED BY <1>1, <1>4, <3>1, SizeRefused
    <2> QED BY <2>1 DEF ProperFields, ValueSizes, ValueNames
  <1>5. CASE f.name = "pinning" /\ f.value \notin {0, 1}
    <2>1. f.value \in ValuesOf({"pinning"})
      BY <1>1, <1>5, SizesOfFields
    <2> QED BY <1>5, <2>1 DEF ProperFields
  <1>6. CASE f.name = "other" /\ md_strict
    <2>1. f.value \in ValuesOf({"other"})
      BY <1>1, <1>6, SizesOfFields
    <2> QED BY <1>6, <2>1 DEF ProperFields
  <1> QED BY <1>1, <1>2, <1>3, <1>4, <1>5, <1>6, FieldRefused

\* After the last field the definition is what all say.
LEMMA FieldsAtEnd ==
  ASSUME BtfFieldsRead, md_i = Len(md_fields) + 1,
         ~ (0 \in KeySizes /\ KeySizes # {0}), ~ (0 \in ValueSizes /\ ValueSizes # {0})
  PROVE  /\ ProperFields <=> BtfDef.type # 0
         /\ KeySizes \subseteq {BtfDef.key_size} /\ ValueSizes \subseteq {BtfDef.value_size}
         /\ BtfDef.pin_path = (1 \in ValuesOf({"pinning"}))
  <1>1. BtfDef \in BtfDefs /\ md_i - 1 = Len(md_fields) /\ DOMAIN md_fields = 1 .. Len(md_fields)
    BY DEF BtfFieldsRead
  <1>2. /\ KeySizes \subseteq {BtfDef.key_size} /\ Cardinality(KeySizes) <= 1
        /\ ValueSizes \subseteq {BtfDef.value_size} /\ Cardinality(ValueSizes) <= 1
    <2>1. /\ BtfDef.key_size \in Nat /\ SizeFits(KeyNames, BtfDef.key_size)
          /\ BtfDef.value_size \in Nat /\ SizeFits(ValueNames, BtfDef.value_size)
      BY <1>1 DEF BtfDefs, BtfFieldsRead
    <2>2. KeySizes = ValuesOf(KeyNames) /\ ValueSizes = ValuesOf(ValueNames)
      BY DEF KeySizes, ValueSizes, KeyNames, ValueNames
    <2> QED BY <2>1, <2>2, SizesAtEnd
  <1>3. \A k \in DOMAIN md_fields : md_fields[k].name # "other" => md_fields[k].value # BadValue
    BY <1>1 DEF BtfFieldsRead
  <1>4. ValuesOf({"type"}) \notin {{}, {0}} <=> BtfDef.type # 0
    <2>1. \A x \in ValuesOf({"type"}) : x = BtfDef.type
      <3> TAKE x \in ValuesOf({"type"})
      <3>1. PICK j \in 1 .. Len(md_fields) : md_fields[j].name \in {"type"} /\ md_fields[j].value = x
        BY SizesOfFields
      <3> QED BY <1>1, <3>1 DEF BtfFieldsRead
    <2>2. ASSUME BtfDef.type # 0 PROVE BtfDef.type \in ValuesOf({"type"})
      <3>1. PICK j \in 1 .. Len(md_fields) : md_fields[j].name = "type"
        BY <1>1, <2>2 DEF BtfFieldsRead
      <3>2. md_fields[j].value \in ValuesOf({"type"})
        BY <3>1, SizesOfFields
      <3> QED BY <2>1, <3>2
    <2> QED BY <2>1, <2>2
  <1>5. ValuesOf({"pinning"}) \subseteq {0, 1}
    <2> SUFFICES ASSUME NEW x \in ValuesOf({"pinning"}) PROVE x \in {0, 1}
      OBVIOUS
    <2>1. PICK j \in 1 .. Len(md_fields) : md_fields[j].name \in {"pinning"} /\ md_fields[j].value = x
      BY SizesOfFields
    <2> QED BY <1>1, <2>1 DEF BtfFieldsRead
  <1>6. md_strict => ValuesOf({"other"}) = {}
    <2> SUFFICES ASSUME md_strict, NEW x \in ValuesOf({"other"}) PROVE FALSE
      OBVIOUS
    <2>1. PICK j \in 1 .. Len(md_fields) : md_fields[j].name \in {"other"} /\ md_fields[j].value = x
      BY SizesOfFields
    <2> QED BY <1>1, <2>1 DEF BtfFieldsRead
  <1>7. BtfDef.pin_path = (1 \in ValuesOf({"pinning"}))
    <2>1. 1 \in ValuesOf({"pinning"}) <=>
            \E j \in 1 .. Len(md_fields) : md_fields[j].name \in {"pinning"} /\ md_fields[j].value = 1
      BY SizesOfFields
    <2>2. BtfDef.pin_path <=> \E j \in 1 .. Len(md_fields) : md_fields[j].name = "pinning" /\ md_fields[j].value = 1
      BY <1>1 DEF BtfFieldsRead
    <2>3. BtfDef.pin_path \in BOOLEAN
      BY <1>1 DEF BtfDefs
    <2> QED BY <2>1, <2>2, <2>3
  <1> QED BY <1>2, <1>3, <1>4, <1>5, <1>6, <1>7 DEF ProperFields

\* Every step keeps it.
LEMMA BtfNext ==
  ASSUME BtfInv, [MdNext]_mdVars PROVE BtfInv'
  <1> SUFFICES ASSUME md_kind' = "btf" PROVE BtfInv'
    BY DEF BtfInv
  <1>1. md_kind = "btf" /\ UNCHANGED mdInput
    BY DEF MdNext, CountMaps, InitUserMap, InitBtfField, EndBtfMap, mdVars, mdInput
  <1>2. BtfFieldsRead /\ FieldOrderDoesNotMatter
    BY <1>1 DEF BtfInv
  <1>3. UNCHANGED <<KeySizes, ValueSizes, ProperFields>> /\ \A names : ValuesOf(names)' = ValuesOf(names)
    BY <1>1 DEF mdInput, ValuesOf, KeySizes, ValueSizes, ProperFields
  <1>4. ASSUME UNCHANGED <<md_i, md_maps>>
        PROVE  BtfFieldsRead' /\ BtfDef' = BtfDef
    <2>1. BtfDef' = BtfDef
      BY <1>4 DEF BtfDef
    <2>2. md_fields' = md_fields /\ md_strict' = md_strict /\ md_i' = md_i
      BY <1>1, <1>4 DEF mdInput
    <2>3. \A names : ValuesOf(names)' = ValuesOf(names)
      BY <1>3
    <2>4. SizeFits(KeyNames, BtfDef.key_size)' /\ SizeFits(ValueNames, BtfDef.value_size)'
      BY <1>2, <2>1, <2>2, <2>3 DEF SizeFits, BtfFieldsRead
    <2> QED BY <1>2, <2>1, <2>2, <2>4 DEF BtfFieldsRead
  <1>5. CASE UNCHANGED mdVars
    <2>1. BtfFieldsRead' /\ BtfDef' = BtfDef
      BY <1>4, <1>5 DEF mdVars
    <2> QED BY <1>1, <1>2, <1>3, <1>5, <2>1 DEF BtfInv, FieldOrderDoesNotMatter, mdVars, mdInput
  <1>6. CASE InitBtfField
    <2> DEFINE def == ApplyField(BtfDef, md_fields[md_i])
    <2>1. CASE def.error # "0"
      <3>1. md_ret' = def.error /\ UNCHANGED <<md_i, md_maps>> /\ md_i <= Len(md_fields)
        BY <1>6, <2>1 DEF InitBtfField
      <3>2. BtfFieldsRead' /\ ~ ProperFields'
        BY <1>2, <1>3, <1>4, <2>1, <3>1, RefusedField
      <3>3. md_ret' # "0"
        BY <2>1, <3>1
      <3>4. FieldOrderDoesNotMatter'
        <4>1. (md_ret' = "0") = ProperFields'
          <5>1. ProperFields' \in BOOLEAN
            BY DEF ProperFields
          <5> QED BY <3>2, <3>3, <5>1
        <4> QED BY <3>3, <4>1 DEF FieldOrderDoesNotMatter
      <3> QED BY <3>2, <3>4 DEF BtfInv
    <2>2. CASE def.error = "0"
      <3>1. md_maps' = <<def>> /\ md_i' = md_i + 1 /\ md_ret' = "running" /\ md_i <= Len(md_fields)
        BY <1>6, <2>2 DEF InitBtfField
      <3>2. BtfFieldsRead'
        BY <1>1, <1>2, <2>2, <3>1, AcceptedStep
      <3> QED BY <3>1, <3>2 DEF BtfInv, FieldOrderDoesNotMatter
    <2> QED BY <2>1, <2>2
  <1>7. CASE EndBtfMap
    <2>1. /\ md_i = Len(md_fields) + 1 /\ UNCHANGED <<md_i, md_maps>>
          /\ md_ret' = IF BtfDef.type = 0 THEN "EINVAL" ELSE "0"
      BY <1>7 DEF EndBtfMap
    <2>2. BtfFieldsRead' /\ BtfDef' = BtfDef
      BY <1>4, <2>1
    <2>3. (md_ret' = "0") <=> BtfDef.type # 0
      BY <2>1
    <2>4. FieldOrderDoesNotMatter'
      <3> SUFFICES ASSUME ~ (0 \in KeySizes /\ KeySizes # {0}), ~ (0 \in ValueSizes /\ ValueSizes # {0})
                   PROVE  /\ (md_ret' = "0") = ProperFields
                          /\ md_ret' = "0" => /\ KeySizes \subseteq {BtfDef.key_size}
                                              /\ ValueSizes \subseteq {BtfDef.value_size}
                                              /\ BtfDef.pin_path = (1 \in ValuesOf({"pinning"}))
        BY <1>3, <2>2 DEF FieldOrderDoesNotMatter
      <3>1. /\ ProperFields <=> BtfDef.type # 0
            /\ KeySizes \subseteq {BtfDef.key_size} /\ ValueSizes \subseteq {BtfDef.value_size}
            /\ BtfDef.pin_path = (1 \in ValuesOf({"pinning"}))
        BY <1>2, <2>1, FieldsAtEnd
      <3>2. ProperFields \in BOOLEAN
        BY DEF ProperFields
      <3> QED BY <2>3, <3>1, <3>2
    <2> QED BY <2>2, <2>4 DEF BtfInv
  <1>8. CASE CountMaps \/ InitUserMap
    BY <1>1, <1>8 DEF CountMaps, InitUserMap
  <1> QED BY <1>5, <1>6, <1>7, <1>8 DEF MdNext

\* MapDefs.tla: for any symbols of a section of maps and any fields of one of .maps, strict or
\* not, each definition is read from its own bytes, and the order of the fields does not matter.
THEOREM DefinitionsAlwaysRead == MdSpec => []DefinitionsAreRead
  <1>1. MdInit => LegacyInv /\ BtfInv /\ md_kind \in {"legacy", "btf"}
    <2>1. MdInit => md_kind \in {"legacy", "btf"}
      BY DEF MdInit
    <2> QED BY <2>1, LegacyInit, BtfInit
  <1>2. LegacyInv /\ BtfInv /\ md_kind \in {"legacy", "btf"} /\ [MdNext]_mdVars
          => LegacyInv' /\ BtfInv' /\ (md_kind \in {"legacy", "btf"})'
    <2>1. ASSUME [MdNext]_mdVars PROVE md_kind' = md_kind
      BY <2>1 DEF MdNext, CountMaps, InitUserMap, InitBtfField, EndBtfMap, mdVars, mdInput
    <2> QED BY <2>1, LegacyNext, BtfNext
  <1>3. LegacyInv /\ BtfInv /\ md_kind \in {"legacy", "btf"} => DefinitionsAreRead
    <2> SUFFICES ASSUME LegacyInv, BtfInv PROVE DefinitionsAreRead
      OBVIOUS
    <2>1. LegacyDefsAreOwn /\ ArraysAreRefused
      BY LegacyOwn, ArraysRefused
    <2>2. FieldOrderDoesNotMatter
      BY DEF BtfInv, FieldOrderDoesNotMatter
    <2> QED BY <2>1, <2>2 DEF DefinitionsAreRead
  <1> QED BY <1>1, <1>2, <1>3, PTL DEF MdSpec

-----------------------------------------------------------------------------
(* BtfExt.                                                                 *)

\* What a section of a part is, and a part.
InfoSecs == [sec : SecNames, offs : Seq(Nat)]
\* The records of a section rise, and those of the program are in it.
ProperSecs(secs) ==
  /\ secs \in Seq(InfoSecs)
  /\ \A k \in DOMAIN secs : /\ RiseStrictly(secs[k].offs)
                            /\ secs[k].sec = "main" =>
                                 \A j \in DOMAIN secs[k].offs : secs[k].offs[j] < MainInsns
\* A part of any length whose sections are proper.
PartIs(part) ==
  part \in [len : Nat, rec_size : Nat, secs : Seq(InfoSecs)] /\ ProperSecs(part.secs)

\* A part ends behind one of its sections, and these have records.
EndsBehind(part, n) ==
  /\ n \in 0 .. part.len /\ LeftBehind(part, n) = 0
  /\ \A k \in 1 .. n : SectionAt(part, k).offs # <<>>
\* A part that btf_ext_setup_info has accepted.
Accepted(part) == PartIs(part) /\ \E n \in 0 .. part.len : EndsBehind(part, n)

\* What is at a place in a part.
LEMMA SectionIs ==
  ASSUME NEW part, PartIs(part), NEW k \in Nat
  PROVE  LET sec == SectionAt(part, k) IN
         /\ sec \in InfoSecs /\ RiseStrictly(sec.offs)
         /\ sec.sec = "main" => \A j \in DOMAIN sec.offs : sec.offs[j] < MainInsns
         /\ SecLen(sec, part.rec_size) \in Nat /\ SecLen(sec, part.rec_size) >= 2
  <1> DEFINE sec == SectionAt(part, k)
  <1>1. part.secs \in Seq(InfoSecs) /\ part.rec_size \in Nat
    BY DEF PartIs
  <1>2. /\ sec \in InfoSecs /\ RiseStrictly(sec.offs)
        /\ sec.sec = "main" => \A j \in DOMAIN sec.offs : sec.offs[j] < MainInsns
    <2>1. CASE k \in DOMAIN part.secs
      <3>1. sec = part.secs[k]
        BY <2>1 DEF SectionAt
      <3>2. part.secs[k] \in InfoSecs
        BY <1>1, <2>1
      <3> HIDE DEF sec
      <3> QED BY <2>1, <3>1, <3>2 DEF PartIs, ProperSecs
    <2>2. CASE k \notin DOMAIN part.secs
      <3>1. sec = [sec |-> "other", offs |-> <<0>>]
        BY <2>2 DEF SectionAt
      <3>2. Len(<<0>>) = 1 /\ <<0>> \in Seq(Nat)
        OBVIOUS
      <3>3. RiseStrictly(<<0>>)
        BY <3>2 DEF RiseStrictly
      <3> HIDE DEF sec
      <3>4. sec.sec = "other" /\ sec.offs = <<0>> /\ sec \in InfoSecs
        <4> DEFINE zero == <<0>>
        <4>1. zero \in Seq(Nat) /\ sec = [sec |-> "other", offs |-> zero]
          BY <3>1, <3>2
        <4> HIDE DEF zero
        <4>2. sec.sec = "other" /\ sec.offs = zero
          BY <4>1
        <4>4. sec \in InfoSecs
          BY <4>1 DEF InfoSecs, SecNames
        <4> QED BY <4>2, <4>4 DEF zero
      <3> QED BY <3>3, <3>4
    <2> QED BY <2>1, <2>2
  <1> HIDE DEF sec
  <1>3. SecLen(sec, part.rec_size) \in Nat /\ SecLen(sec, part.rec_size) >= 2
    <2>1. Len(sec.offs) \in Nat
      BY <1>2 DEF InfoSecs
    <2>2. Len(sec.offs) * part.rec_size \in Nat
      BY <1>1, <2>1
    <2> QED BY <2>2 DEF SecLen, SecHdrLen
  <1> QED BY <1>2, <1>3 DEF sec

\* What is left behind the first sections falls with each of them.
LEMMA LengthsAre ==
  ASSUME NEW part, PartIs(part)
  PROVE  /\ part.len \in Nat
         /\ \A n \in 0 .. part.len : LeftBehind(part, n) \in Int /\ n + LeftBehind(part, n) <= part.len
         /\ LeftBehind(part, 0) = part.len
         /\ \A n \in 0 .. part.len : n + 1 <= part.len =>
              LeftBehind(part, n + 1) = LeftBehind(part, n) - SecLen(SectionAt(part, n + 1), part.rec_size)
         /\ \A m, n \in 0 .. part.len :
              m <= n => LeftBehind(part, m) >= LeftBehind(part, n)
                        /\ (m < n => LeftBehind(part, m) > LeftBehind(part, n))
  <1> DEFINE d == Lengths(part)
             s == Sums(d)
  <1>1. part.len \in Nat
    BY DEF PartIs
  <1>2. /\ d \in Seq(Nat) /\ Len(d) = part.len
        /\ \A n \in 1 .. part.len : d[n] = SecLen(SectionAt(part, n), part.rec_size) /\ d[n] > 0
    <2>1. d = [k \in 1 .. part.len |-> SecLen(SectionAt(part, k), part.rec_size)]
      BY DEF Lengths
    <2>2. \A k \in 1 .. part.len : SecLen(SectionAt(part, k), part.rec_size) \in Nat
                                   /\ SecLen(SectionAt(part, k), part.rec_size) >= 2
      BY <1>1, SectionIs
    <2> HIDE DEF d
    <2> QED BY <1>1, <2>1, <2>2
  <1> HIDE DEF d
  <1>3. s \in [0 .. part.len -> Nat] /\ s[0] = 0 /\ \A n \in 1 .. part.len : s[n] = s[n - 1] + d[n]
    BY <1>2, SumsAre
  <1>4. /\ \A n \in 0 .. part.len : s[n] >= n
        /\ \A m, n \in 0 .. part.len : m <= n => s[m] <= s[n] /\ (m < n => s[m] < s[n])
    BY <1>2, SumsOfPositive
  <1>5. \A n : LeftBehind(part, n) = part.len - s[n]
    BY DEF LeftBehind, s, d
  <1> HIDE DEF s
  <1>6. \A n \in 0 .. part.len : s[n] \in Nat
    BY <1>3
  <1>7. \A n \in 0 .. part.len : LeftBehind(part, n) \in Int /\ n + LeftBehind(part, n) <= part.len
    BY <1>1, <1>4, <1>5, <1>6
  <1>8. LeftBehind(part, 0) = part.len
    BY <1>1, <1>3, <1>5
  <1>9. ASSUME NEW n \in 0 .. part.len, n + 1 <= part.len
        PROVE  LeftBehind(part, n + 1) = LeftBehind(part, n) - SecLen(SectionAt(part, n + 1), part.rec_size)
    <2>1. n + 1 \in 1 .. part.len /\ (n + 1) - 1 = n
      BY <1>1, <1>9
    <2>2. s[n + 1] = s[n] + d[n + 1] /\ d[n + 1] = SecLen(SectionAt(part, n + 1), part.rec_size)
      BY <1>2, <1>3, <2>1
    <2>3. d[n + 1] \in Nat /\ s[n] \in Nat
      BY <1>2, <1>6, <2>1
    <2> QED BY <1>1, <1>5, <2>2, <2>3
  <1>10. ASSUME NEW m \in 0 .. part.len, NEW n \in 0 .. part.len, m <= n
         PROVE  LeftBehind(part, m) >= LeftBehind(part, n)
                /\ (m < n => LeftBehind(part, m) > LeftBehind(part, n))
    BY <1>1, <1>4, <1>5, <1>6, <1>10
  <1> QED BY <1>1, <1>7, <1>8, <1>9, <1>10

\* The second walk over a part that was accepted stays inside, and finds what is in it.
LEMMA WalkOf ==
  ASSUME NEW part, Accepted(part), NEW sec_name
  PROVE  LET walk == WalkFor(part, sec_name) IN
         /\ walk.beyond = FALSE /\ walk.found \in BOOLEAN
         /\ walk.found => /\ walk.offs \in Seq(Nat) /\ walk.offs # <<>> /\ RiseStrictly(walk.offs)
                          /\ sec_name = "main" => \A j \in DOMAIN walk.offs : walk.offs[j] < MainInsns
  <1> DEFINE Stops(n) == StopsAt(part, sec_name, n) /\ \A m \in 0 .. n - 1 : ~ StopsAt(part, sec_name, m)
             x == CHOOSE n \in 0 .. part.len : Stops(n)
             sec == SectionAt(part, x + 1)
             remain == LeftBehind(part, x)
  <1>1. PartIs(part)
    BY DEF Accepted
  <1>2. PICK e \in 0 .. part.len : EndsBehind(part, e)
    BY DEF Accepted
  <1>3. part.len \in Nat
    BY <1>1, LengthsAre
  <1>4. \E n \in 0 .. part.len : Stops(n) /\ n <= e
    <2> DEFINE S == {n \in 0 .. part.len : StopsAt(part, sec_name, n)}
    <2>1. e \in S
      BY <1>2, <1>3 DEF StopsAt, EndsBehind
    <2>2. S \in SUBSET Nat
      BY <1>3
    <2>3. PICK n \in S : \A m \in S : n <= m
      BY <2>1, <2>2, LeastElement
    <2>4. \A m \in 0 .. n - 1 : m \in 0 .. part.len /\ m < n
      BY <1>3, <2>3
    <2>5. \A m \in 0 .. n - 1 : ~ StopsAt(part, sec_name, m)
      BY <2>2, <2>3, <2>4
    <2> QED BY <2>1, <2>3, <2>5
  <1>5. x \in 0 .. part.len /\ Stops(x)
    <2> HIDE DEF Stops
    <2> QED BY <1>4
  <1>6. x <= e
    <2>1. PICK n \in 0 .. part.len : Stops(n) /\ n <= e
      BY <1>4
    <2> HIDE DEF x
    <2>2. x <= n
      <3> SUFFICES ASSUME n < x PROVE FALSE
        BY <1>5, <1>3, <2>1
      <3>1. n \in 0 .. x - 1
        BY <1>3, <1>5, <2>1
      <3> QED BY <1>5, <2>1, <3>1
    <2> QED BY <1>3, <1>5, <2>1, <2>2
  <1> DEFINE walk == WalkFor(part, sec_name)
  <1>7. walk = IF remain <= 0 THEN [found |-> FALSE, offs |-> <<>>, beyond |-> remain < 0]
               ELSE [found |-> TRUE, offs |-> sec.offs, beyond |-> remain < SecLen(sec, part.rec_size)]
    BY DEF WalkFor
  <1>8. x \in Nat /\ remain \in Int /\ LeftBehind(part, e) = 0 /\ remain >= 0 /\ (x < e => remain > 0)
    <2>1. LeftBehind(part, e) = 0
      BY <1>2 DEF EndsBehind
    <2> HIDE DEF x
    <2> QED BY <1>1, <1>3, <1>5, <1>6, <2>1, LengthsAre
  <1> HIDE DEF x
  <1>9. /\ sec \in InfoSecs /\ RiseStrictly(sec.offs)
        /\ sec.sec = "main" => \A j \in DOMAIN sec.offs : sec.offs[j] < MainInsns
        /\ SecLen(sec, part.rec_size) \in Nat
    BY <1>1, <1>8, SectionIs
  <1>10. CASE remain <= 0
    <2>1. remain = 0
      BY <1>8, <1>10
    <2>2. walk = [found |-> FALSE, offs |-> <<>>, beyond |-> FALSE]
      <3>1. (remain < 0) = FALSE /\ remain <= 0
        BY <2>1
      <3> HIDE DEF walk, remain, sec
      <3> QED BY <1>7, <3>1
    <2> QED BY <2>2
  <1>11. CASE ~ (remain <= 0)
    <2>1. x # e /\ x < e
      <3>1. x # e
        BY <1>8, <1>11
      <3> QED BY <1>3, <1>6, <1>8, <3>1
    <2>2. x + 1 <= e /\ x + 1 \in 0 .. part.len /\ x + 1 <= part.len /\ x + 1 \in 1 .. e
      BY <1>3, <1>8, <2>1
    <2>3. LeftBehind(part, x + 1) = remain - SecLen(sec, part.rec_size)
      BY <1>1, <1>5, <2>2, LengthsAre
    <2>4. LeftBehind(part, x + 1) >= 0
      BY <1>1, <1>8, <2>2, LengthsAre
    <2>5. ~ (remain < SecLen(sec, part.rec_size))
      BY <1>8, <1>9, <2>3, <2>4
    <2>6. walk = [found |-> TRUE, offs |-> sec.offs, beyond |-> FALSE]
      <3>1. (remain < SecLen(sec, part.rec_size)) = FALSE
        BY <2>5
      <3> HIDE DEF walk, remain, sec
      <3> QED BY <1>7, <1>11, <3>1
    <2>7. sec.offs # <<>>
      BY <1>2, <2>2 DEF EndsBehind
    <2>8. sec.sec = sec_name
      BY <1>5, <1>11 DEF StopsAt
    <2> QED BY <1>9, <2>6, <2>7, <2>8 DEF InfoSecs
  <1> QED BY <1>10, <1>11

\* The parts of .BTF.ext.
BothParts == {"func_info", "line_info"}
\* The one that is walked, without the word of the record size.
PartNow == [Current EXCEPT !.len = @ - 1]
\* How far the walk is.
Walked ==
  /\ be_k \in 0 .. PartNow.len /\ be_left = LeftBehind(PartNow, be_k) /\ be_left >= 0
  /\ \A k \in 1 .. be_k : SectionAt(PartNow, k).offs # <<>>
\* Records of the program alone, and with those of .text behind them.
FromMain(recs) ==
  recs \in Seq(Nat) /\ recs # <<>> /\ RiseStrictly(recs) /\ \A k \in DOMAIN recs : recs[k] < MainInsns
\* Records of both.
WithText(recs) ==
  /\ RiseStrictly(recs)
  /\ \E k \in DOMAIN recs : recs[k] < MainInsns
  /\ \E k \in DOMAIN recs : recs[k] >= MainInsns

\* The invariant.
BeInv ==
  /\ be_ext \in [BothParts -> ExtParts] /\ be_part \in 1 .. 2
  /\ be_pc \in {"start", "walk", "main", "text", "done"}
  /\ be_set \in [BothParts -> {part : part \in {be_set["func_info"], be_set["line_info"]}}]
  /\ \A p \in BothParts : Accepted(be_set[p])
  /\ be_prog \in [BothParts -> {recs : recs \in {be_prog["func_info"], be_prog["line_info"]}}]
  /\ be_pc = "walk" => Walked /\ Current.len # 0
  /\ be_pc \in {"start", "walk", "main"} => \A p \in BothParts : be_prog[p] = <<>>
  /\ be_pc = "text" => \A p \in BothParts : be_prog[p] = <<>> \/ FromMain(be_prog[p])
  /\ be_ret = "0" => /\ be_pc = "done"
                     /\ \A p \in BothParts : be_prog[p] = <<>> \/ WithText(be_prog[p])
  /\ be_beyond = FALSE

\* The two parts.
LEMMA PartsAre ==
  /\ Range(Parts) = BothParts /\ Len(Parts) = 2
  /\ \A n \in 1 .. 2 : Parts[n] \in BothParts
  <1>1. DOMAIN Parts = 1 .. 2 /\ Parts[1] = "func_info" /\ Parts[2] = "line_info" /\ Len(Parts) = 2
    BY DEF Parts
  <1>2. Range(Parts) = {Parts[k] : k \in 1 .. 2}
    BY <1>1 DEF Range
  <1>3. \A n \in 1 .. 2 : n = 1 \/ n = 2
    OBVIOUS
  <1> QED BY <1>1, <1>2, <1>3 DEF BothParts

\* A part that is not there is accepted.
LEMMA EmptyAccepted == Accepted(EmptyPart)
  <1> DEFINE part == EmptyPart
  <1>1. part = [len |-> 0, rec_size |-> 0, secs |-> <<>>]
    BY DEF EmptyPart
  <1>2. part.len = 0 /\ part.rec_size = 0 /\ part.secs = <<>> /\ part \in [len : Nat, rec_size : Nat, secs : Seq(InfoSecs)]
    BY <1>1
  <1> HIDE DEF part
  <1>3. PartIs(part)
    BY <1>2 DEF PartIs, ProperSecs
  <1>4. LeftBehind(part, 0) = 0 /\ 0 \in 0 .. part.len
    BY <1>2, <1>3, LengthsAre
  <1>5. EndsBehind(part, 0)
    BY <1>4 DEF EndsBehind
  <1> QED BY <1>3, <1>4, <1>5 DEF Accepted, part

\* What a file's part is, without the word of its record size.
LEMMA PartNowIs ==
  ASSUME BeInv, Current.len # 0
  PROVE  /\ PartIs(PartNow) /\ PartNow.len = Current.len - 1 /\ Current.len \in Nat
         /\ PartNow.rec_size = Current.rec_size
         /\ \A k : SectionAt(PartNow, k) = SectionAt(Current, k)
  <1> DEFINE cur == Current
  <1>1. cur \in ExtParts
    BY PartsAre DEF BeInv, Current
  <1>2. /\ cur \in [len : Nat, rec_size : Nat, secs : Seq(InfoSecs)]
        /\ \A k \in DOMAIN cur.secs :
             /\ RiseStrictly(cur.secs[k].offs)
             /\ cur.secs[k].sec = "main" => \A j \in DOMAIN cur.secs[k].offs : cur.secs[k].offs[j] < MainInsns
    BY <1>1, BtfExtAssumption DEF InfoSecs
  <1>3. cur.len # 0 /\ PartNow = [cur EXCEPT !.len = @ - 1]
    BY DEF PartNow
  <1> HIDE DEF cur
  <1>4. /\ PartNow.len = cur.len - 1 /\ cur.len \in Nat /\ PartNow.rec_size = cur.rec_size /\ PartNow.secs = cur.secs
        /\ PartNow \in [len : Nat, rec_size : Nat, secs : Seq(InfoSecs)]
    BY <1>2, <1>3
  <1>5. PartIs(PartNow)
    BY <1>2, <1>4 DEF PartIs, ProperSecs
  <1>6. \A k : SectionAt(PartNow, k) = SectionAt(cur, k)
    BY <1>4 DEF SectionAt
  <1> QED BY <1>4, <1>5, <1>6 DEF cur

\* The invariant at the start.
LEMMA BeInitInv ==
  ASSUME BeInit PROVE BeInv
  <1>1. /\ be_ext \in [BothParts -> ExtParts] /\ be_part = 1 /\ be_pc = "start" /\ be_ret = "none"
        /\ be_beyond = FALSE
        /\ be_set = [p \in BothParts |-> EmptyPart] /\ be_prog = [p \in BothParts |-> <<>>]
    BY PartsAre DEF BeInit, BeStart
  <1>2. \A p \in BothParts : be_set[p] = EmptyPart /\ be_prog[p] = <<>>
    BY <1>1
  <1> QED BY <1>1, <1>2, EmptyAccepted DEF BeInv, BothParts

\* btf_ext_setup_info begins with the whole part.
LEMMA SetupStartStep ==
  ASSUME BeInv, SetupStart PROVE BeInv'
  <1>1. /\ be_pc = "start" /\ be_pc' \in {"start", "main", "done", "walk"}
        /\ UNCHANGED <<be_ext, be_set, be_prog, be_beyond>> /\ be_part' \in 1 .. 2 /\ be_ret' # "0"
    <2>1. be_part \in 1 .. 2 /\ be_ret # "0"
      BY DEF BeInv, SetupStart
    <2> QED BY <2>1, PartsAre DEF SetupStart, NextPart, BeReturn
  <1>2. ASSUME be_pc' = "walk" PROVE Walked' /\ Current'.len # 0
    <2>1. /\ Current.len # 0 /\ ~ (Current.rec_size < MinRecSize \/ Current.len = 1)
          /\ be_left' = Current.len - 1 /\ be_k' = 0 /\ be_part' = be_part
      BY <1>2 DEF SetupStart, NextPart, BeReturn
    <2>2. PartIs(PartNow) /\ PartNow.len = Current.len - 1 /\ Current.len \in Nat
      BY <2>1, PartNowIs
    <2>3. LeftBehind(PartNow, 0) = PartNow.len /\ PartNow.len \in Nat /\ 0 \in 0 .. PartNow.len
      BY <2>2, LengthsAre
    <2>4. Current' = Current /\ PartNow' = PartNow
      BY <1>1, <2>1 DEF Current, PartNow
    <2> QED BY <2>1, <2>2, <2>3, <2>4 DEF Walked
  <1> QED BY <1>1, <1>2 DEF BeInv

\* A turn of its loop takes one section off what is left, and the last leaves nothing.
LEMMA SetupWalkStep ==
  ASSUME BeInv, SetupWalk PROVE BeInv'
  <1>1. be_pc = "walk" /\ UNCHANGED <<be_ext, be_prog, be_beyond>>
    BY DEF SetupWalk
  <1>2. Walked /\ Current.len # 0 /\ be_ret # "0" /\ be_part \in 1 .. 2
    BY <1>1 DEF BeInv
  <1>3. /\ PartIs(PartNow) /\ PartNow.rec_size = Current.rec_size
        /\ \A k : SectionAt(PartNow, k) = SectionAt(Current, k)
    BY <1>2, PartNowIs
  <1> DEFINE sec == SectionAt(Current, be_k + 1)
  <1>4. CASE PartEnds
    <2>1. /\ be_set' = [be_set EXCEPT ![Parts[be_part]] = PartNow] /\ be_ret' = be_ret
          /\ be_pc' \in {"start", "main"} /\ be_part' \in 1 .. 2
      BY <1>2, <1>4, PartsAre DEF SetupWalk, NextPart, PartNow
    <2>2. Accepted(PartNow)
      <3>1. EndsBehind(PartNow, be_k) /\ be_k \in 0 .. PartNow.len
        BY <1>2, <1>4 DEF Walked, PartEnds, EndsBehind
      <3> QED BY <1>3, <3>1 DEF Accepted
    <2>3. \A p \in BothParts : be_set'[p] = be_set[p] \/ be_set'[p] = PartNow
      BY <2>1, PartsAre DEF BeInv
    <2>4. be_set' \in [BothParts -> {part : part \in {be_set'["func_info"], be_set'["line_info"]}}]
      BY <2>1, <2>3 DEF BeInv, BothParts
    <2>5. \A p \in BothParts : Accepted(be_set'[p])
      BY <2>2, <2>3 DEF BeInv
    <2> QED BY <1>1, <1>2, <2>1, <2>4, <2>5 DEF BeInv
  <1>5. CASE ~ PartEnds /\ TooShort(sec)
    <2>1. be_pc' = "done" /\ be_ret' = "EINVAL" /\ UNCHANGED <<be_part, be_set>>
      BY <1>5 DEF SetupWalk, BeReturn
    <2> QED BY <1>1, <2>1 DEF BeInv
  <1>6. CASE ~ PartEnds /\ ~ TooShort(sec)
    <2>1. /\ be_left' = be_left - SecLen(sec, Current.rec_size) /\ be_k' = be_k + 1
          /\ UNCHANGED <<be_pc, be_ret, be_part, be_set>>
      BY <1>6 DEF SetupWalk
    <2>2. Current' = Current /\ PartNow' = PartNow
      BY <1>1, <2>1 DEF Current, PartNow
    <2>3. be_k \in 0 .. PartNow.len /\ be_left = LeftBehind(PartNow, be_k) /\ be_left >= 0 /\ be_left # 0
      BY <1>2, <1>6 DEF Walked, PartEnds
    <2>4. PartNow.len \in Nat /\ be_k + 1 \in 0 .. PartNow.len /\ be_left \in Int
      <3>1. PartNow.len \in Nat /\ LeftBehind(PartNow, be_k) \in Int /\ be_k + LeftBehind(PartNow, be_k) <= PartNow.len
        BY <1>3, <2>3, LengthsAre
      <3> QED BY <2>3, <3>1
    <2>5. be_left' = LeftBehind(PartNow, be_k + 1)
      <3>1. LeftBehind(PartNow, be_k + 1) =
              LeftBehind(PartNow, be_k) - SecLen(SectionAt(PartNow, be_k + 1), PartNow.rec_size)
        BY <1>3, <2>3, <2>4, LengthsAre
      <3> QED BY <1>3, <2>1, <2>3, <3>1
    <2>6. SecLen(sec, Current.rec_size) \in Nat /\ be_left >= SecLen(sec, Current.rec_size) /\ Len(sec.offs) # 0
      <3>1. SecLen(sec, Current.rec_size) \in Nat
        <4>1. be_k + 1 \in Nat
          BY <2>4
        <4> QED BY <1>3, <4>1, SectionIs
      <3> QED BY <1>6, <2>4, <3>1 DEF TooShort
    <2>7. be_left' >= 0
      BY <2>1, <2>4, <2>6
    <2>8. \A k \in 1 .. be_k + 1 : SectionAt(PartNow, k).offs # <<>>
      <3> SUFFICES ASSUME NEW k \in 1 .. be_k + 1 PROVE SectionAt(PartNow, k).offs # <<>>
        OBVIOUS
      <3>1. CASE k = be_k + 1
        <4>1. SectionAt(PartNow, k) = sec
          BY <1>3, <3>1
        <4>2. Len(<<>>) = 0
          OBVIOUS
        <4> QED BY <2>6, <4>1, <4>2
      <3>2. CASE k # be_k + 1
        <4>1. k \in 1 .. be_k
          BY <2>3, <2>4, <3>2
        <4> QED BY <1>2, <4>1 DEF Walked
      <3> QED BY <3>1, <3>2
    <2>9. Walked'
      BY <2>1, <2>2, <2>4, <2>5, <2>7, <2>8 DEF Walked
    <2> QED BY <1>1, <1>2, <2>1, <2>2, <2>9 DEF BeInv
  <1> QED BY <1>4, <1>5, <1>6

(* bpf_program_reloc_btf_ext.                                              *)

\* Records moved behind the main section.
LEMMA MovedRecords ==
  ASSUME NEW offs \in Seq(Nat), NEW n \in Nat, RiseStrictly(offs)
  PROVE  /\ InsnOff(offs, n) \in Seq(Nat) /\ Len(InsnOff(offs, n)) = Len(offs)
         /\ \A k \in 1 .. Len(offs) : InsnOff(offs, n)[k] = offs[k] + n
         /\ RiseStrictly(InsnOff(offs, n))
  <1> DEFINE t == InsnOff(offs, n)
  <1>1. t = [k \in 1 .. Len(offs) |-> offs[k] + n] /\ Len(offs) \in Nat
    BY DEF InsnOff
  <1>2. t \in Seq(Nat) /\ Len(t) = Len(offs) /\ \A k \in 1 .. Len(offs) : t[k] = offs[k] + n
    BY <1>1
  <1> HIDE DEF t
  <1>3. ASSUME NEW k \in 2 .. Len(t) PROVE t[k - 1] < t[k]
    <2>1. k \in 1 .. Len(offs) /\ k - 1 \in 1 .. Len(offs) /\ k \in 2 .. Len(offs)
      BY <1>1, <1>2
    <2>2. offs[k - 1] < offs[k] /\ offs[k] \in Nat /\ offs[k - 1] \in Nat
      BY <2>1 DEF RiseStrictly
    <2>3. t[k] = offs[k] + n
      BY <1>2, <2>1
    <2>4. t[k - 1] = offs[k - 1] + n
      BY <1>2, <2>1
    <2> QED BY <2>2, <2>3, <2>4
  <1> QED BY <1>2, <1>3 DEF RiseStrictly, t

\* Sequences that rise, one behind the other.
LEMMA RiseTogether ==
  ASSUME NEW s \in Seq(Nat), NEW t \in Seq(Nat), RiseStrictly(s), RiseStrictly(t),
         \A j \in 1 .. Len(s), k \in 1 .. Len(t) : s[j] < t[k]
  PROVE  RiseStrictly(s \o t)
  <1> DEFINE c == s \o t
  <1>1. /\ c \in Seq(Nat) /\ Len(c) = Len(s) + Len(t) /\ Len(s) \in Nat /\ Len(t) \in Nat
        /\ \A k \in 1 .. Len(s) : c[k] = s[k]
        /\ \A k \in Len(s) + 1 .. Len(s) + Len(t) : c[k] = t[k - Len(s)]
    BY ConcatIs
  <1> HIDE DEF c
  <1> SUFFICES ASSUME NEW k \in 2 .. Len(c) PROVE c[k - 1] < c[k]
    BY DEF RiseStrictly, c
  <1>2. CASE k <= Len(s)
    <2>1. k \in 2 .. Len(s) /\ k \in 1 .. Len(s) /\ k - 1 \in 1 .. Len(s)
      BY <1>1, <1>2
    <2>2. s[k - 1] < s[k]
      BY <2>1 DEF RiseStrictly
    <2> QED BY <1>1, <2>1, <2>2
  <1>3. CASE k = Len(s) + 1
    <2>1. k - 1 \in 1 .. Len(s) /\ k - 1 = Len(s) /\ k - Len(s) = 1 /\ 1 \in 1 .. Len(t)
          /\ k \in Len(s) + 1 .. Len(s) + Len(t)
      BY <1>1, <1>3
    <2>2. c[k - 1] = s[k - 1] /\ c[k] = t[1]
      BY <1>1, <2>1
    <2> QED BY <2>1, <2>2
  <1>4. CASE k > Len(s) + 1
    <2>1. /\ k \in Len(s) + 1 .. Len(s) + Len(t) /\ k - 1 \in Len(s) + 1 .. Len(s) + Len(t)
          /\ k - Len(s) \in 2 .. Len(t) /\ (k - 1) - Len(s) = (k - Len(s)) - 1
      BY <1>1, <1>4
    <2> DEFINE j == k - Len(s)
    <2>2. t[j - 1] < t[j]
      <3>1. j \in 2 .. Len(t)
        BY <2>1
      <3> HIDE DEF j
      <3> QED BY <3>1 DEF RiseStrictly
    <2>3. c[k] = t[j] /\ c[k - 1] = t[j - 1]
      <3>1. c[k] = t[k - Len(s)] /\ c[k - 1] = t[(k - 1) - Len(s)]
        BY <1>1, <2>1
      <3> QED BY <2>1, <3>1
    <2> QED BY <2>2, <2>3
  <1> QED BY <1>1, <1>2, <1>3, <1>4

\* btf_ext_reloc_info for the program.
LEMMA MainRecords ==
  ASSUME BeInv, be_pc = "main", NEW p \in BothParts
  PROVE  LET part == RelocPart(p, "main", 0) IN
         /\ part.beyond = FALSE /\ part.ret \in {"go", "0"}
         /\ part.recs = <<>> \/ FromMain(part.recs)
  <1> DEFINE walk == btf_ext_reloc_info(p, "main")
             part == RelocPart(p, "main", 0)
  <1>1. be_prog[p] = <<>> /\ Accepted(be_set[p])
    BY DEF BeInv
  <1>2. /\ walk.beyond = FALSE /\ walk.found \in BOOLEAN
        /\ walk.found => /\ walk.offs \in Seq(Nat) /\ walk.offs # <<>> /\ RiseStrictly(walk.offs)
                         /\ \A j \in DOMAIN walk.offs : walk.offs[j] < MainInsns
    BY <1>1, WalkOf DEF btf_ext_reloc_info
  <1> HIDE DEF walk
  <1>3. part = IF walk.found THEN [recs |-> <<>> \o InsnOff(walk.offs, 0), ret |-> "go", beyond |-> walk.beyond]
               ELSE [recs |-> <<>>, ret |-> "0", beyond |-> walk.beyond]
    BY <1>1 DEF RelocPart, walk
  <1> HIDE DEF part
  <1>4. CASE walk.found
    <2> DEFINE offs == walk.offs
               t == InsnOff(offs, 0)
               c == <<>> \o t
    <2>1. offs \in Seq(Nat) /\ offs # <<>> /\ RiseStrictly(offs) /\ \A j \in DOMAIN offs : offs[j] < MainInsns
      BY <1>2, <1>4
    <2> HIDE DEF offs
    <2>2. /\ t \in Seq(Nat) /\ Len(t) = Len(offs) /\ RiseStrictly(t)
          /\ \A k \in 1 .. Len(offs) : t[k] = offs[k] + 0
      BY <2>1, MovedRecords
    <2> HIDE DEF t
    <2>3. c = t
      BY <2>2
    <2>4. part = [recs |-> c, ret |-> "go", beyond |-> FALSE]
      BY <1>2, <1>3, <1>4 DEF t, offs
    <2> HIDE DEF c
    <2>5. Len(offs) # 0 /\ Len(<<>>) = 0
      BY <2>1
    <2>6. \A k \in DOMAIN t : t[k] < MainInsns
      BY <2>1, <2>2
    <2>7. FromMain(t)
      BY <2>2, <2>5, <2>6 DEF FromMain
    <2> QED BY <2>3, <2>4, <2>7 DEF part
  <1>5. CASE ~ walk.found
    <2>1. part = [recs |-> <<>>, ret |-> "0", beyond |-> FALSE]
      BY <1>2, <1>3, <1>5
    <2> QED BY <2>1 DEF part
  <1> QED BY <1>2, <1>4, <1>5

\* btf_ext_reloc_info for .text.
LEMMA TextRecords ==
  ASSUME BeInv, be_pc = "text", NEW p \in BothParts
  PROVE  LET part == RelocPart(p, ".text", MainInsns) IN
         /\ part.beyond = FALSE /\ part.ret \in {"go", "ENOENT"}
         /\ part.ret = "go" => part.recs = <<>> \/ WithText(part.recs)
  <1> DEFINE walk == btf_ext_reloc_info(p, ".text")
             part == RelocPart(p, ".text", MainInsns)
             recs == be_prog[p]
  <1>1. (recs = <<>> \/ FromMain(recs)) /\ Accepted(be_set[p]) /\ MainInsns \in Nat /\ MainInsns # 0
    BY BtfExtAssumption DEF BeInv
  <1>2. /\ walk.beyond = FALSE /\ walk.found \in BOOLEAN
        /\ walk.found => walk.offs \in Seq(Nat) /\ walk.offs # <<>> /\ RiseStrictly(walk.offs)
    BY <1>1, WalkOf DEF btf_ext_reloc_info
  <1> HIDE DEF walk
  <1>3. part = IF recs = <<>> THEN [recs |-> recs, ret |-> "go", beyond |-> FALSE]
               ELSE IF walk.found
               THEN [recs |-> recs \o InsnOff(walk.offs, MainInsns), ret |-> "go", beyond |-> walk.beyond]
               ELSE [recs |-> recs, ret |-> "ENOENT", beyond |-> walk.beyond]
    BY <1>1 DEF RelocPart, walk
  <1> HIDE DEF part
  <1>4. CASE recs = <<>>
    <2>1. part = [recs |-> recs, ret |-> "go", beyond |-> FALSE]
      BY <1>3, <1>4
    <2> HIDE DEF recs
    <2>2. part.recs = recs /\ part.ret = "go" /\ part.beyond = FALSE
      BY <2>1
    <2> QED BY <1>4, <2>2 DEF part
  <1>5. CASE recs # <<>> /\ walk.found
    <2> DEFINE offs == walk.offs
               t == InsnOff(offs, MainInsns)
               c == recs \o t
    <2>1. offs \in Seq(Nat) /\ offs # <<>> /\ RiseStrictly(offs) /\ FromMain(recs)
      BY <1>1, <1>2, <1>5
    <2>2. part = [recs |-> c, ret |-> "go", beyond |-> FALSE]
      BY <1>2, <1>3, <1>5
    <2> HIDE DEF c
    <2>3. part.recs = c /\ part.ret = "go" /\ part.beyond = FALSE
      BY <2>2
    <2> HIDE DEF offs, recs
    <2>4. /\ t \in Seq(Nat) /\ Len(t) = Len(offs) /\ RiseStrictly(t)
          /\ \A k \in 1 .. Len(offs) : t[k] = offs[k] + MainInsns
      BY <1>1, <2>1, MovedRecords
    <2> HIDE DEF t
    <2>5. Len(offs) # 0 /\ Len(offs) \in Nat /\ Len(recs) # 0 /\ Len(recs) \in Nat /\ recs \in Seq(Nat) /\ RiseStrictly(recs)
          /\ \A j \in 1 .. Len(recs) : recs[j] < MainInsns
      BY <2>1 DEF FromMain
    <2>6. \A k \in 1 .. Len(t) : t[k] \in Nat /\ t[k] >= MainInsns
      BY <1>1, <2>1, <2>4
    <2>7. \A j \in 1 .. Len(recs), k \in 1 .. Len(t) : recs[j] < t[k]
      <3> SUFFICES ASSUME NEW j \in 1 .. Len(recs), NEW k \in 1 .. Len(t) PROVE recs[j] < t[k]
        OBVIOUS
      <3>1. recs[j] \in Nat /\ recs[j] < MainInsns
        BY <2>5
      <3> QED BY <1>1, <2>6, <3>1
    <2>8. RiseStrictly(c)
      BY <2>4, <2>5, <2>7, RiseTogether DEF c
    <2>9. /\ c \in Seq(Nat) /\ Len(c) = Len(recs) + Len(t)
          /\ \A k \in 1 .. Len(recs) : c[k] = recs[k]
          /\ \A k \in Len(recs) + 1 .. Len(recs) + Len(t) : c[k] = t[k - Len(recs)]
      <3>1. t \in Seq(Nat) /\ recs \in Seq(Nat)
        BY <2>4, <2>5
      <3> QED BY ONLY <3>1, ConcatIs DEF c
    <2>10. DOMAIN c = 1 .. Len(c) /\ 1 \in 1 .. Len(recs) /\ 1 \in 1 .. Len(c)
      BY <2>4, <2>5, <2>9
    <2>11. c[1] < MainInsns
      BY <2>5, <2>9, <2>10
    <2>12. /\ Len(recs) + 1 \in Len(recs) + 1 .. Len(recs) + Len(t) /\ Len(recs) + 1 \in 1 .. Len(c)
           /\ (Len(recs) + 1) - Len(recs) = 1 /\ 1 \in 1 .. Len(t)
      BY <2>4, <2>5, <2>9
    <2>13. c[Len(recs) + 1] = t[1]
      BY <2>9, <2>12
    <2>14. WithText(c)
      BY <2>6, <2>8, <2>10, <2>11, <2>12, <2>13 DEF WithText
    <2> QED BY <2>3, <2>14 DEF part
  <1>6. CASE recs # <<>> /\ ~ walk.found
    <2>1. part = [recs |-> recs, ret |-> "ENOENT", beyond |-> FALSE]
      BY <1>2, <1>3, <1>6
    <2> HIDE DEF recs
    <2>2. part.recs = recs /\ part.ret = "ENOENT" /\ part.beyond = FALSE
      BY <2>1
    <2> QED BY <2>2 DEF part
  <1> QED BY <1>2, <1>4, <1>5, <1>6

\* The step for the program.
LEMMA RelocMainStep ==
  ASSUME BeInv, RelocMain PROVE BeInv'
  <1> DEFINE func == RelocPart("func_info", "main", 0)
             line == RelocPart("line_info", "main", 0)
             both == func.ret = "go"
  <1>1. be_pc = "main" /\ be_ret # "0" /\ be_beyond = FALSE /\ \A p \in BothParts : be_prog[p] = <<>>
    BY DEF RelocMain, BeInv
  <1>2. /\ func.beyond = FALSE /\ func.ret \in {"go", "0"} /\ (func.recs = <<>> \/ FromMain(func.recs))
        /\ line.beyond = FALSE /\ line.ret \in {"go", "0"} /\ (line.recs = <<>> \/ FromMain(line.recs))
    BY <1>1, MainRecords DEF BothParts
  <1>3. /\ be_prog' = [be_prog EXCEPT !["func_info"] = func.recs, !["line_info"] = IF both THEN line.recs ELSE @]
        /\ be_beyond' = (be_beyond \/ func.beyond \/ (both /\ line.beyond))
        /\ be_pc' = "text" /\ be_ret' = "none"
        /\ UNCHANGED <<be_ext, be_part, be_k, be_left, be_set>>
    <2> HIDE DEF func, line
    <2>1. (IF both THEN line.ret ELSE func.ret) \in {"go", "0"}
      BY <1>2
    <2> QED BY <2>1 DEF RelocMain, bpf_program_reloc_btf_ext, func, line
  <1> HIDE DEF func, line
  <1>4. be_beyond' = FALSE
    BY <1>1, <1>2, <1>3
  <1>5. DOMAIN be_prog = BothParts
    BY DEF BeInv
  <1>6. /\ be_prog' = [p \in BothParts |-> be_prog'[p]]
        /\ \A p \in BothParts : be_prog'[p] = <<>> \/ FromMain(be_prog'[p])
    <2>1. be_prog'["func_info"] = func.recs /\ be_prog'["line_info"] = IF both THEN line.recs ELSE <<>>
      BY <1>1, <1>3, <1>5 DEF BothParts
    <2>2. be_prog' = [p \in BothParts |-> be_prog'[p]]
      BY <1>3, <1>5
    <2> QED BY <1>2, <2>1, <2>2 DEF BothParts
  <1>7. be_prog' \in [BothParts -> {recs : recs \in {be_prog'["func_info"], be_prog'["line_info"]}}]
    BY <1>6 DEF BothParts
  <1> QED BY <1>3, <1>4, <1>6, <1>7 DEF BeInv

\* The step for .text.
LEMMA RelocTextStep ==
  ASSUME BeInv, RelocText PROVE BeInv'
  <1> DEFINE func == RelocPart("func_info", ".text", MainInsns)
             line == RelocPart("line_info", ".text", MainInsns)
             both == func.ret = "go"
  <1>1. be_pc = "text" /\ be_beyond = FALSE
    BY DEF RelocText, BeInv
  <1>2. /\ func.beyond = FALSE /\ func.ret \in {"go", "ENOENT"}
        /\ (func.ret = "go" => func.recs = <<>> \/ WithText(func.recs))
        /\ line.beyond = FALSE /\ line.ret \in {"go", "ENOENT"}
        /\ (line.ret = "go" => line.recs = <<>> \/ WithText(line.recs))
    BY <1>1, TextRecords DEF BothParts
  <1>3. /\ be_prog' = [be_prog EXCEPT !["func_info"] = func.recs, !["line_info"] = IF both THEN line.recs ELSE @]
        /\ be_beyond' = (be_beyond \/ func.beyond \/ (both /\ line.beyond))
        /\ be_pc' = "done"
        /\ be_ret' = "0" => func.ret = "go" /\ line.ret = "go"
        /\ UNCHANGED <<be_ext, be_part, be_k, be_left, be_set>>
    <2> HIDE DEF func, line
    <2> DEFINE ret == IF both THEN line.ret ELSE func.ret
    <2>1. IF ret \in {"go", "0"} THEN be_pc' = "done" /\ be_ret' = "0" ELSE be_pc' = "done" /\ be_ret' = ret
      BY DEF RelocText, bpf_program_reloc_btf_ext, BeReturn, func, line
    <2>2. ret \in {"go", "ENOENT"} /\ (ret = "go" => func.ret = "go" /\ line.ret = "go")
      BY <1>2
    <2>3. /\ be_prog' = [be_prog EXCEPT !["func_info"] = func.recs, !["line_info"] = IF both THEN line.recs ELSE @]
          /\ be_beyond' = (be_beyond \/ func.beyond \/ (both /\ line.beyond))
          /\ UNCHANGED <<be_ext, be_part, be_k, be_left, be_set>>
      BY DEF RelocText, bpf_program_reloc_btf_ext, func, line
    <2> HIDE DEF ret
    <2> QED BY <2>1, <2>2, <2>3
  <1> HIDE DEF func, line
  <1>4. be_beyond' = FALSE
    BY <1>1, <1>2, <1>3
  <1>5. DOMAIN be_prog = BothParts
    BY DEF BeInv
  <1>6. be_prog' = [p \in BothParts |-> be_prog'[p]]
    BY <1>3, <1>5
  <1>7. be_ret' = "0" => \A p \in BothParts : be_prog'[p] = <<>> \/ WithText(be_prog'[p])
    <2> SUFFICES ASSUME be_ret' = "0", NEW p \in BothParts PROVE be_prog'[p] = <<>> \/ WithText(be_prog'[p])
      OBVIOUS
    <2>1. be_prog'["func_info"] = func.recs /\ be_prog'["line_info"] = line.recs
      BY <1>3, <1>5 DEF BothParts
    <2> QED BY <1>2, <1>3, <2>1 DEF BothParts
  <1>8. be_prog' \in [BothParts -> {recs : recs \in {be_prog'["func_info"], be_prog'["line_info"]}}]
    BY <1>6 DEF BothParts
  <1> QED BY <1>3, <1>4, <1>7, <1>8 DEF BeInv

\* BtfExt.tla: for any parts of .BTF.ext, the records of a loaded program rise and are of its
\* own instructions, and no walk over a part that was accepted leaves it.
THEOREM RecordsAlwaysFit == BeSpec => []RecordsAreFit
  <1>1. BeInit => BeInv
    BY BeInitInv
  <1>2. BeInv /\ [BeNext]_beVars => BeInv'
    <2>1. ASSUME BeInv, UNCHANGED beVars PROVE BeInv'
      BY <2>1 DEF BeInv, beVars, Walked, Current, PartNow
    <2> QED BY <2>1, SetupStartStep, SetupWalkStep, RelocMainStep, RelocTextStep DEF BeNext
  <1>3. BeInv => RecordsAreFit
    <2> SUFFICES ASSUME BeInv PROVE RecordsAreFit
      OBVIOUS
    <2>1. WalksStayInside
      BY DEF BeInv, WalksStayInside
    <2>2. ASSUME be_ret = "0", NEW p \in BothParts PROVE be_prog[p] = <<>> \/ WithText(be_prog[p])
      BY <2>2 DEF BeInv
    <2>3. RiseStrictly(<<>>)
      BY DEF RiseStrictly
    <2>4. RecordsRise
      BY <2>2, <2>3, PartsAre DEF RecordsRise, WithText
    <2>5. AllOrNothing
      BY <2>2, PartsAre DEF AllOrNothing, WithText
    <2> QED BY <2>1, <2>4, <2>5 DEF RecordsAreFit
  <1> QED BY <1>1, <1>2, <1>3, PTL DEF BeSpec

-----------------------------------------------------------------------------
(* BtfStrings.                                                             *)

\* Where the strings of a section are.
LEMMA StartsAre ==
  ASSUME NEW strs \in Seq(Nat)
  PROVE  /\ DOMAIN strs = 1 .. Len(strs) /\ SizeOf(strs) \in Nat
         /\ \A k \in 1 .. Len(strs) : StartOf(strs, k) \in Nat /\ Bytes(strs[k]) \in Nat \ {0}
         /\ Len(strs) > 0 => StartOf(strs, 1) = 0
         /\ \A j, k \in 1 .. Len(strs) :
              j < k => StartOf(strs, j) + Bytes(strs[j]) <= StartOf(strs, k)
         /\ \A j, k \in 1 .. Len(strs) : StartOf(strs, j) = StartOf(strs, k) => j = k
  <1> DEFINE d == AllBytes(strs)
             s == Sums(d)
  <1>1. /\ DOMAIN strs = 1 .. Len(strs) /\ Len(strs) \in Nat
        /\ \A k \in 1 .. Len(strs) : strs[k] \in Nat /\ Bytes(strs[k]) \in Nat \ {0}
    BY DEF Bytes
  <1>2. d \in Seq(Nat) /\ Len(d) = Len(strs) /\ \A k \in 1 .. Len(d) : d[k] = Bytes(strs[k]) /\ d[k] > 0
    <2>1. d = [k \in 1 .. Len(strs) |-> Bytes(strs[k])]
      BY <1>1 DEF AllBytes
    <2> HIDE DEF d
    <2> QED BY <1>1, <2>1
  <1>3. SizeOf(strs) \in Nat
    BY <1>2, TotalIs DEF SizeOf
  <1> HIDE DEF d
  <1>4. s \in [0 .. Len(d) -> Nat] /\ s[0] = 0 /\ \A n \in 1 .. Len(d) : s[n] = s[n - 1] + d[n]
    BY <1>2, SumsAre
  <1>5. \A m, n \in 0 .. Len(d) : m <= n => s[m] <= s[n] /\ (m < n => s[m] < s[n])
    BY <1>2, SumsOfPositive
  <1>6. \A k : StartOf(strs, k) = s[k - 1]
    BY DEF StartOf, s, d
  <1> HIDE DEF s
  <1>7. ASSUME NEW k \in 1 .. Len(strs)
        PROVE  /\ k - 1 \in 0 .. Len(d) /\ k \in 0 .. Len(d) /\ StartOf(strs, k) \in Nat
               /\ StartOf(strs, k) + Bytes(strs[k]) = s[k] /\ s[k] \in Nat
    <2>1. k - 1 \in 0 .. Len(d) /\ k \in 0 .. Len(d) /\ k \in 1 .. Len(d)
      BY <1>1, <1>2
    <2>2. s[k] = s[k - 1] + d[k] /\ s[k - 1] \in Nat /\ s[k] \in Nat /\ d[k] = Bytes(strs[k])
      BY <1>2, <1>4, <2>1
    <2> QED BY <1>6, <2>1, <2>2
  <1>8. Len(strs) > 0 => StartOf(strs, 1) = 0
    BY <1>4, <1>6
  <1>9. ASSUME NEW j \in 1 .. Len(strs), NEW k \in 1 .. Len(strs), j < k
        PROVE  StartOf(strs, j) + Bytes(strs[j]) <= StartOf(strs, k)
    <2>1. j <= k - 1
      BY <1>1, <1>9
    <2>2. s[j] <= s[k - 1]
      BY <1>5, <1>7, <2>1
    <2> QED BY <1>6, <1>7, <2>2
  <1>10. ASSUME NEW j \in 1 .. Len(strs), NEW k \in 1 .. Len(strs), j < k
         PROVE  StartOf(strs, j) # StartOf(strs, k)
    <2>1. /\ StartOf(strs, j) + Bytes(strs[j]) <= StartOf(strs, k)
          /\ StartOf(strs, j) \in Nat /\ StartOf(strs, k) \in Nat /\ Bytes(strs[j]) \in Nat \ {0}
      BY <1>1, <1>7, <1>9, <1>10
    <2> QED BY <2>1
  <1>11. ASSUME NEW j \in 1 .. Len(strs), NEW k \in 1 .. Len(strs), StartOf(strs, j) = StartOf(strs, k)
         PROVE  j = k
    BY <1>1, <1>10, <1>11
  <1> QED BY <1>1, <1>3, <1>7, <1>8, <1>9, <1>11

\* A string is read at its start.
LEMMA ReadsString ==
  ASSUME NEW strs \in Seq(Nat), NEW k \in 1 .. Len(strs)
  PROVE  ReadAt(strs, StartOf(strs, k)) = <<strs[k], 0>>
  <1> DEFINE off == StartOf(strs, k)
             in == {j \in DOMAIN strs : StartOf(strs, j) <= off /\ off < StartOf(strs, j) + Bytes(strs[j])}
  <1>1. /\ DOMAIN strs = 1 .. Len(strs)
        /\ \A j \in 1 .. Len(strs) : StartOf(strs, j) \in Nat /\ Bytes(strs[j]) \in Nat \ {0}
        /\ \A i, j \in 1 .. Len(strs) : i < j => StartOf(strs, i) + Bytes(strs[i]) <= StartOf(strs, j)
    BY StartsAre
  <1>2. ASSUME NEW j \in 1 .. Len(strs), j # k PROVE j \notin in
    <2>1. CASE j < k
      <3>1. StartOf(strs, j) + Bytes(strs[j]) <= off
        BY <1>1, <2>1
      <3> QED BY <1>1, <3>1
    <2>2. CASE k < j
      <3>1. off + Bytes(strs[k]) <= StartOf(strs, j)
        BY <1>1, <2>2
      <3>2. ~ (StartOf(strs, j) <= off)
        BY <1>1, <3>1
      <3> QED BY <3>2
    <2> QED BY <1>2, <2>1, <2>2
  <1>3. k \in in
    BY <1>1
  <1>4. in = {k}
    <2>1. \A j \in in : j \in 1 .. Len(strs)
      BY <1>1
    <2> HIDE DEF in
    <2> QED BY <1>2, <1>3, <2>1
  <1>5. off - StartOf(strs, k) = 0
    BY <1>1
  <1>6. ReadAt(strs, off) = IF in = {} THEN <<-1, 0>>
          ELSE <<strs[CHOOSE j \in in : TRUE], off - StartOf(strs, CHOOSE j \in in : TRUE)>>
    BY DEF ReadAt
  <1> HIDE DEF in
  <1>7. (CHOOSE j \in in : TRUE) = k
    BY <1>4
  <1> QED BY <1>3, <1>5, <1>6, <1>7

\* A string put behind the others leaves them where they are.
LEMMA AppendedString ==
  ASSUME NEW strs \in Seq(Nat), NEW str \in Nat
  PROVE  /\ Append(strs, str) \in Seq(Nat) /\ Len(Append(strs, str)) = Len(strs) + 1
         /\ \A k \in 1 .. Len(strs) : Append(strs, str)[k] = strs[k]
                                      /\ StartOf(Append(strs, str), k) = StartOf(strs, k)
         /\ Append(strs, str)[Len(strs) + 1] = str
         /\ StartOf(Append(strs, str), Len(strs) + 1) = SizeOf(strs)
  <1> DEFINE t == Append(strs, str)
             d == AllBytes(strs)
             e == AllBytes(t)
  <1>1. /\ t \in Seq(Nat) /\ Len(t) = Len(strs) + 1 /\ t[Len(strs) + 1] = str /\ Len(strs) \in Nat
        /\ \A k \in 1 .. Len(strs) : t[k] = strs[k] /\ strs[k] \in Nat
    OBVIOUS
  <1> HIDE DEF t
  <1>2. d \in Seq(Nat) /\ Len(d) = Len(strs) /\ \A k \in 1 .. Len(strs) : d[k] = Bytes(strs[k])
    <2>1. d = [k \in 1 .. Len(strs) |-> Bytes(strs[k])] /\ \A k \in 1 .. Len(strs) : Bytes(strs[k]) \in Nat
      BY <1>1 DEF AllBytes, Bytes
    <2> HIDE DEF d
    <2> QED BY <1>1, <2>1
  <1>3. e \in Seq(Nat) /\ Len(e) = Len(t) /\ \A k \in 1 .. Len(t) : e[k] = Bytes(t[k])
    <2>1. e = [k \in 1 .. Len(t) |-> Bytes(t[k])] /\ \A k \in 1 .. Len(t) : Bytes(t[k]) \in Nat
      BY <1>1 DEF AllBytes, Bytes
    <2> HIDE DEF e
    <2> QED BY <1>1, <2>1
  <1> HIDE DEF d, e
  <1>4. \A n \in 0 .. Len(strs) : Sums(d)[n] = Sums(e)[n]
    <2>1. \A n \in 1 .. Len(strs) : d[n] = e[n]
      BY <1>1, <1>2, <1>3
    <2>2. Len(strs) <= Len(d) /\ Len(strs) <= Len(e)
      BY <1>1, <1>2, <1>3
    <2> QED BY <1>1, <1>2, <1>3, <2>1, <2>2, SumsAgree
  <1>5. \A k \in 1 .. Len(strs) : StartOf(t, k) = StartOf(strs, k)
    <2>1. \A k \in 1 .. Len(strs) : k - 1 \in 0 .. Len(strs)
      BY <1>1
    <2> QED BY <1>4, <2>1 DEF StartOf, d, e
  <1>6. StartOf(t, Len(strs) + 1) = SizeOf(strs)
    <2>1. (Len(strs) + 1) - 1 = Len(strs) /\ Len(strs) \in 0 .. Len(strs)
      BY <1>1
    <2> QED BY <1>2, <1>4, <2>1 DEF StartOf, SizeOf, Total, d, e
  <1> QED BY <1>1, <1>5, <1>6 DEF t

(* The groups.                                                             *)

\* struct btf_str_ptr.
StrPtrs == [at : Nat, str : Nat, used : BOOLEAN, new_off : Nat]
\* How many there are.
NrPtrs == Len(bs_ptrs)
\* The index has each string once, in the order of their text, and knows which are used.
IndexIs ==
  /\ bs_ptrs \in [1 .. NrPtrs -> StrPtrs] /\ NrPtrs \in Nat
  /\ \A k \in 1 .. NrPtrs : \E m \in 1 .. Len(bs_in.strs) :
       bs_ptrs[k].at = StartOf(bs_in.strs, m) /\ bs_ptrs[k].str = bs_in.strs[m]
  /\ \A j, k \in 1 .. NrPtrs : bs_ptrs[j].at = bs_ptrs[k].at => j = k
  /\ \A k \in 1 .. NrPtrs :
       bs_ptrs[k].used <=> bs_ptrs[k].at = 0 \/ \E r \in btf_for_each_str_off : bs_in.refs[r] = bs_ptrs[k].at
  /\ \E k \in 1 .. NrPtrs : bs_ptrs[k].at = 0
  /\ \A r \in btf_for_each_str_off : bs_in.refs[r] = 0 \/ \E k \in 1 .. NrPtrs : bs_ptrs[k].at = bs_in.refs[r]
  /\ \A j, k \in 1 .. NrPtrs : j < k => bs_ptrs[j].str <= bs_ptrs[k].str

\* The strings up to a place are in the new section.
TmpIs(done) ==
  /\ bs_tmp \in Seq(Nat) /\ \A j, k \in 1 .. Len(bs_tmp) : j < k => bs_tmp[j] < bs_tmp[k]
  /\ \A j \in 1 .. Len(bs_tmp) : \E k \in 1 .. done : bs_ptrs[k].used /\ bs_ptrs[k].str = bs_tmp[j]
  /\ \A k \in 1 .. done : bs_ptrs[k].used =>
       \E j \in 1 .. Len(bs_tmp) : bs_tmp[j] = bs_ptrs[k].str /\ bs_ptrs[k].new_off = StartOf(bs_tmp, j)

\* The group that is looked at begins at bs_grp and has one text.
GroupIs ==
  /\ bs_i \in 2 .. NrPtrs + 1 /\ bs_grp \in 1 .. bs_i - 1
  /\ \A k \in bs_grp .. bs_i - 1 : bs_ptrs[k].str = bs_ptrs[bs_grp].str
  /\ \A k \in 1 .. bs_grp - 1 : bs_ptrs[k].str < bs_ptrs[bs_grp].str
  /\ bs_grp_used <=> \E k \in bs_grp .. bs_i - 1 : bs_ptrs[k].used

\* The invariant.
BsInv ==
  /\ bs_in.strs \in Seq(Nat) /\ bs_in.strs # <<>> /\ bs_in.strs[1] = 0
  /\ bs_pc \in {"index", "groups", "remap", "done"}
  /\ bs_pc # "done" => bs_strs = bs_in.strs /\ bs_refs = bs_in.refs /\ bs_ret = "none"
  /\ bs_pc = "index" => bs_tmp = <<>>
  /\ bs_pc = "groups" => IndexIs /\ GroupIs /\ TmpIs(bs_grp - 1)
  /\ bs_pc = "remap" => IndexIs /\ TmpIs(NrPtrs)
  /\ StringsAreDeduplicated

\* The invariant at the start.
LEMMA BsInitInv ==
  ASSUME BsInit PROVE BsInv
  <1>1. /\ bs_strs \in StrSections /\ bs_in = [strs |-> bs_strs, refs |-> bs_refs] /\ bs_tmp = <<>>
        /\ bs_pc = "index" /\ bs_ret = "none"
    BY DEF BsInit, BsStart
  <1>2. bs_in.strs = bs_strs /\ bs_in.refs = bs_refs
    BY <1>1
  <1>3. bs_strs \in Seq(Nat) /\ bs_strs # <<>> /\ bs_strs[1] = 0
    BY <1>1, BtfStringsAssumption
  <1> QED BY <1>1, <1>2, <1>3 DEF BsInv, StringsAreDeduplicated, NamesAreKept, StringsOnce

\* The strings are indexed, marked and sorted.
LEMMA BuildIndexStep ==
  ASSUME BsInv, BuildIndex PROVE BsInv'
  <1> DEFINE strs == bs_in.strs
             n == Len(strs)
             ptrs == [k \in DOMAIN bs_strs |->
                        [at |-> StartOf(bs_strs, k), str |-> bs_strs[k], new_off |-> 0,
                         used |-> k = 1 \/ \E r \in btf_for_each_str_off : bs_refs[r] = StartOf(bs_strs, k)]]
  <1>1. /\ bs_pc = "index" /\ bs_strs = strs /\ bs_refs = bs_in.refs /\ bs_tmp = <<>> /\ bs_ret = "none"
        /\ UNCHANGED <<bs_in, bs_strs, bs_refs, bs_tmp>>
        /\ strs \in Seq(Nat) /\ strs # <<>> /\ strs[1] = 0
    BY DEF BuildIndex, BsInv
  <1>2. /\ DOMAIN strs = 1 .. n /\ n \in Nat /\ n > 0
        /\ \A k \in 1 .. n : StartOf(strs, k) \in Nat /\ strs[k] \in Nat
        /\ StartOf(strs, 1) = 0
        /\ \A j, k \in 1 .. n : StartOf(strs, j) = StartOf(strs, k) => j = k
    BY <1>1, StartsAre
  <1>3. DOMAIN ptrs = 1 .. n
    BY <1>1, <1>2
  <1>4. ASSUME NEW k \in 1 .. n
        PROVE  /\ ptrs[k] \in StrPtrs /\ ptrs[k].at = StartOf(strs, k) /\ ptrs[k].str = strs[k]
               /\ ptrs[k].used <=> ptrs[k].at = 0 \/ \E r \in btf_for_each_str_off : bs_in.refs[r] = ptrs[k].at
    <2>1. StartOf(strs, k) \in Nat /\ strs[k] \in Nat /\ (StartOf(strs, k) = 0 <=> k = 1)
      BY <1>2
    <2> DEFINE u == k = 1 \/ \E r \in btf_for_each_str_off : bs_in.refs[r] = StartOf(strs, k)
    <2>2. ptrs[k] = [at |-> StartOf(strs, k), str |-> strs[k], new_off |-> 0, used |-> u]
      BY <1>1, <1>2
    <2>3. u \in BOOLEAN
      OBVIOUS
    <2> HIDE DEF u, ptrs
    <2>4. ptrs[k] \in StrPtrs /\ ptrs[k].at = StartOf(strs, k) /\ ptrs[k].str = strs[k] /\ ptrs[k].used = u
      BY <2>1, <2>2, <2>3 DEF StrPtrs
    <2> QED BY <2>1, <2>4 DEF u
  <1> HIDE DEF ptrs
  <1>5. CASE NotFound(ptrs)
    <2>1. bs_ret' = "EINVAL" /\ bs_pc' = "done"
      BY <1>5 DEF BuildIndex, ptrs
    <2> QED BY <1>1, <2>1 DEF BsInv, StringsAreDeduplicated, NamesAreKept, StringsOnce
  <1>6. CASE ~ NotFound(ptrs)
    <2>1. PICK order \in Bijection(1 .. n, 1 .. n) :
            /\ \A j, k \in 1 .. n : j < k => ptrs[order[j]].str <= ptrs[order[k]].str
            /\ bs_ptrs' = [k \in 1 .. n |-> ptrs[order[k]]]
            /\ bs_i' = 2 /\ bs_grp' = 1 /\ bs_grp_used' = ptrs[order[1]].used
            /\ bs_pc' = "groups" /\ bs_ret' = bs_ret
      <3>1. \E order \in Bijection(DOMAIN ptrs, DOMAIN ptrs) :
              /\ \A j, k \in DOMAIN ptrs : j < k => ptrs[order[j]].str <= ptrs[order[k]].str
              /\ bs_ptrs' = [k \in DOMAIN ptrs |-> ptrs[order[k]]]
              /\ bs_i' = 2 /\ bs_grp' = 1 /\ bs_grp_used' = ptrs[order[1]].used
              /\ bs_pc' = "groups" /\ UNCHANGED bs_ret
        BY <1>6, Zenon DEF BuildIndex, ptrs
      <3> QED BY <1>3, <3>1
    <2>2. /\ order \in [1 .. n -> 1 .. n] /\ \A j, k \in 1 .. n : order[j] = order[k] => j = k
          /\ \A m \in 1 .. n : \E k \in 1 .. n : order[k] = m
      BY DEF Bijection, Injection, Surjection, IsInjective
    <2>3. /\ bs_ptrs' \in [1 .. n -> StrPtrs] /\ NrPtrs' = n
          /\ \A k \in 1 .. n : /\ order[k] \in 1 .. n /\ bs_ptrs'[k] = ptrs[order[k]]
                               /\ bs_ptrs'[k].at = StartOf(strs, order[k]) /\ bs_ptrs'[k].str = strs[order[k]]
                               /\ bs_ptrs'[k].used <=> bs_ptrs'[k].at = 0
                                    \/ \E r \in btf_for_each_str_off : bs_in.refs[r] = bs_ptrs'[k].at
      <3>1. \A k \in 1 .. n : order[k] \in 1 .. n /\ bs_ptrs'[k] = ptrs[order[k]]
        BY <2>1, <2>2
      <3>2. bs_ptrs' \in [1 .. n -> StrPtrs]
        BY <1>4, <2>1, <3>1
      <3>3. NrPtrs' = n
        <4>1. Len(bs_ptrs') = n
          BY <1>2, <2>1
        <4> QED BY <4>1 DEF NrPtrs
      <3> QED BY <1>4, <3>1, <3>2, <3>3
    <2>4. \A r \in btf_for_each_str_off : bs_in.refs[r] = 0 \/ \E k \in 1 .. n : bs_ptrs'[k].at = bs_in.refs[r]
      <3> SUFFICES ASSUME NEW r \in btf_for_each_str_off, bs_in.refs[r] # 0
                   PROVE  \E k \in 1 .. n : bs_ptrs'[k].at = bs_in.refs[r]
        OBVIOUS
      <3>1. PICK m \in 1 .. n : ptrs[m].at = bs_in.refs[r]
        BY <1>1, <1>3, <1>6 DEF NotFound
      <3>2. PICK k \in 1 .. n : order[k] = m
        BY <2>2
      <3> QED BY <2>3, <3>1, <3>2
    <2>5. \E k \in 1 .. n : bs_ptrs'[k].at = 0
      <3>0. 1 \in 1 .. n
        BY <1>2
      <3>1. PICK k \in 1 .. n : order[k] = 1
        BY <2>2, <3>0
      <3>2. bs_ptrs'[k].at = StartOf(strs, 1)
        BY <2>3, <3>1
      <3> QED BY <1>2, <3>2
    <2>6. ASSUME NEW j \in 1 .. n, NEW k \in 1 .. n, bs_ptrs'[j].at = bs_ptrs'[k].at PROVE j = k
      <3>1. order[j] \in 1 .. n /\ order[k] \in 1 .. n /\ StartOf(strs, order[j]) = StartOf(strs, order[k])
        BY <2>3, <2>6
      <3>2. order[j] = order[k]
        BY <1>2, <3>1
      <3> QED BY <2>2, <3>2
    <2>7. \A j, k \in 1 .. n : j < k => bs_ptrs'[j].str <= bs_ptrs'[k].str
      BY <2>1, <2>3
    <2>8. \A k \in 1 .. n : \E m \in 1 .. n : bs_ptrs'[k].at = StartOf(strs, m) /\ bs_ptrs'[k].str = strs[m]
      BY <2>3
    <2>9. IndexIs'
      <3>1. bs_in' = bs_in
        BY <1>1
      <3>2. \A k \in 1 .. n : bs_ptrs'[k].used <=> bs_ptrs'[k].at = 0
                                    \/ \E r \in btf_for_each_str_off : bs_in.refs[r] = bs_ptrs'[k].at
        BY <2>3
      <3>3. bs_ptrs' \in [1 .. n -> StrPtrs] /\ NrPtrs' = n /\ n \in Nat
        BY <1>2, <2>3
      <3> QED BY <2>4, <2>5, <2>6, <2>7, <2>8, <3>1, <3>2, <3>3 DEF IndexIs
    <2>10. GroupIs'
      <3>1. bs_i' \in 2 .. NrPtrs' + 1 /\ bs_grp' \in 1 .. bs_i' - 1 /\ bs_grp' - 1 = 0 /\ bs_i' - 1 = 1
        BY <1>2, <2>1, <2>3
      <3>2. bs_grp_used' <=> bs_ptrs'[1].used
        BY <1>2, <2>1, <2>3
      <3>3. \A k \in 1 .. 1 : k = 1
        OBVIOUS
      <3>4. \A k \in 1 .. 0 : FALSE
        OBVIOUS
      <3> QED BY <2>1, <3>1, <3>2, <3>3, <3>4 DEF GroupIs
    <2>11. TmpIs(bs_grp - 1)'
      <3>1. bs_tmp' = <<>> /\ bs_grp' - 1 = 0 /\ Len(<<>>) = 0 /\ <<>> \in Seq(Nat)
        BY <1>1, <2>1
      <3>2. \A k \in 1 .. 0 : FALSE
        OBVIOUS
      <3> QED BY <3>1, <3>2 DEF TmpIs
    <2> QED BY <1>1, <2>1, <2>9, <2>10, <2>11 DEF BsInv, StringsAreDeduplicated, NamesAreKept, StringsOnce
  <1> QED BY <1>5, <1>6

\* Another string of the same text joins the group.
LEMMA SameGroupStep ==
  ASSUME BsInv, SameGroup PROVE BsInv'
  <1>1. /\ bs_pc = "groups" /\ bs_i <= NrPtrs /\ bs_ptrs[bs_i].str = bs_ptrs[bs_grp].str
        /\ bs_grp_used' = (bs_grp_used \/ bs_ptrs[bs_i].used) /\ bs_i' = bs_i + 1
        /\ UNCHANGED <<bs_in, bs_strs, bs_refs, bs_ptrs, bs_grp, bs_tmp, bs_pc, bs_ret>>
    BY DEF SameGroup, NrPtrs
  <1>2. IndexIs /\ GroupIs /\ TmpIs(bs_grp - 1)
    BY <1>1 DEF BsInv
  <1>3. NrPtrs \in Nat /\ bs_i \in 2 .. NrPtrs + 1 /\ bs_grp \in 1 .. bs_i - 1 /\ bs_i \in Nat
    BY <1>2 DEF IndexIs, GroupIs
  <1>4. /\ bs_i' \in 2 .. NrPtrs + 1 /\ bs_i' - 1 = bs_i /\ bs_grp \in 1 .. bs_i
        /\ \A k : k \in bs_grp .. bs_i <=> k \in bs_grp .. bs_i - 1 \/ k = bs_i
    BY <1>1, <1>3
  <1>5. NrPtrs' = NrPtrs
    BY <1>1 DEF NrPtrs
  <1>6. GroupIs'
    <2>1. \A k \in bs_grp .. bs_i : bs_ptrs[k].str = bs_ptrs[bs_grp].str
      BY <1>1, <1>2, <1>4 DEF GroupIs
    <2>2. bs_grp_used' <=> \E k \in bs_grp .. bs_i : bs_ptrs[k].used
      BY <1>1, <1>2, <1>4 DEF GroupIs
    <2> QED BY <1>1, <1>2, <1>4, <1>5, <2>1, <2>2 DEF GroupIs
  <1>7. IndexIs' /\ TmpIs(bs_grp - 1)'
    <2>1. IndexIs'
      BY <1>1, <1>2, <1>5 DEF IndexIs
    <2>2. TmpIs(bs_grp - 1)'
      BY <1>1, <1>2 DEF TmpIs
    <2> QED BY <2>1, <2>2
  <1> QED BY <1>1, <1>6, <1>7 DEF BsInv, StringsAreDeduplicated, NamesAreKept, StringsOnce, ReadsTheSame

\* A group that is used is written once, and its strings get one offset.
LEMMA NextGroupStep ==
  ASSUME BsInv, NextGroup PROVE BsInv'
  <1>1. /\ bs_pc = "groups" /\ UNCHANGED <<bs_in, bs_strs, bs_refs, bs_ret>>
        /\ bs_i <= NrPtrs => bs_ptrs[bs_i].str # bs_ptrs[bs_grp].str
    BY DEF NextGroup, NrPtrs
  <1>2. IndexIs /\ GroupIs /\ TmpIs(bs_grp - 1) /\ bs_ret = "none" /\ bs_strs = bs_in.strs /\ bs_refs = bs_in.refs
    BY <1>1 DEF BsInv
  <1>3. /\ NrPtrs \in Nat /\ bs_i \in 2 .. NrPtrs + 1 /\ bs_grp \in 1 .. bs_i - 1 /\ bs_i \in Nat /\ bs_grp \in Nat
        /\ bs_ptrs \in [1 .. NrPtrs -> StrPtrs] /\ bs_tmp \in Seq(Nat) /\ SizeOf(bs_tmp) \in Nat
    BY <1>2, StartsAre DEF IndexIs, GroupIs, TmpIs
  <1>4. /\ \A k : k \in 1 .. bs_i - 1 <=> k \in 1 .. bs_grp - 1 \/ k \in bs_grp .. bs_i - 1
        /\ \A k \in 1 .. bs_i - 1 : k \in 1 .. NrPtrs
        /\ \A k \in 1 .. bs_grp - 1 : k \notin bs_grp .. bs_i - 1
        /\ bs_grp \in 1 .. NrPtrs
    BY <1>3
  <1> DEFINE s == bs_ptrs[bs_grp].str
             grp == bs_grp .. bs_i - 1
             new == SizeOf(bs_tmp)
  <1>5. s \in Nat
    BY <1>3, <1>4 DEF StrPtrs

\* The entries keep their strings and places.
<1>6. /\ bs_ptrs' \in [1 .. NrPtrs -> StrPtrs] /\ NrPtrs' = NrPtrs
      /\ \A k \in 1 .. NrPtrs : /\ bs_ptrs'[k].at = bs_ptrs[k].at /\ bs_ptrs'[k].str = bs_ptrs[k].str
                                /\ bs_ptrs'[k].used = bs_ptrs[k].used
                                /\ k \notin grp => bs_ptrs'[k].new_off = bs_ptrs[k].new_off
                                /\ k \in grp /\ bs_grp_used => bs_ptrs'[k].new_off = new
  <2>1. CASE bs_grp_used
    <3>1. bs_ptrs' = [k \in 1 .. NrPtrs |-> IF k \in grp THEN [bs_ptrs[k] EXCEPT !.new_off = new] ELSE bs_ptrs[k]]
      BY <1>3, <2>1 DEF NextGroup
    <3>2. \A k \in 1 .. NrPtrs : bs_ptrs[k] \in StrPtrs
      BY <1>3
    <3> HIDE DEF grp
    <3>3. ASSUME NEW k \in 1 .. NrPtrs
          PROVE  /\ bs_ptrs'[k] \in StrPtrs
                 /\ bs_ptrs'[k].at = bs_ptrs[k].at /\ bs_ptrs'[k].str = bs_ptrs[k].str
                 /\ bs_ptrs'[k].used = bs_ptrs[k].used
                 /\ k \notin grp => bs_ptrs'[k].new_off = bs_ptrs[k].new_off
                 /\ k \in grp => bs_ptrs'[k].new_off = new
      <4>1. bs_ptrs'[k] = IF k \in grp THEN [bs_ptrs[k] EXCEPT !.new_off = new] ELSE bs_ptrs[k]
        BY <3>1
      <4> HIDE DEF new
      <4>2. new \in Nat
        BY <1>3 DEF new
      <4> QED BY <3>2, <4>1, <4>2 DEF StrPtrs
    <3>4. bs_ptrs' \in [1 .. NrPtrs -> StrPtrs]
      BY <3>1, <3>3
    <3>5. NrPtrs' = NrPtrs
      BY <1>3, <3>1 DEF NrPtrs
    <3> QED BY <3>3, <3>4, <3>5
  <2>2. CASE ~ bs_grp_used
    <3>1. bs_ptrs' = bs_ptrs
      BY <2>2 DEF NextGroup
    <3> QED BY <1>3, <2>2, <3>1 DEF NrPtrs
  <2> QED BY <2>1, <2>2
<1>7. IndexIs'
  <2>1. bs_in' = bs_in
    BY <1>1
  <2>2. bs_ptrs' \in [1 .. NrPtrs -> StrPtrs] /\ NrPtrs' = NrPtrs /\ NrPtrs \in Nat
    BY <1>3, <1>6
  <2>3. \A k \in 1 .. NrPtrs : \E m \in 1 .. Len(bs_in.strs) :
          bs_ptrs'[k].at = StartOf(bs_in.strs, m) /\ bs_ptrs'[k].str = bs_in.strs[m]
    BY <1>2, <1>6 DEF IndexIs
  <2>4. \A j, k \in 1 .. NrPtrs : bs_ptrs'[j].at = bs_ptrs'[k].at => j = k
    BY <1>2, <1>6 DEF IndexIs
  <2>5. \A k \in 1 .. NrPtrs : bs_ptrs'[k].used <=> bs_ptrs'[k].at = 0
          \/ \E r \in btf_for_each_str_off : bs_in.refs[r] = bs_ptrs'[k].at
    <3> TAKE k \in 1 .. NrPtrs
    <3>1. bs_ptrs'[k].used = bs_ptrs[k].used /\ bs_ptrs'[k].at = bs_ptrs[k].at
      BY <1>6
    <3>2. bs_ptrs[k].used <=> bs_ptrs[k].at = 0 \/ \E r \in btf_for_each_str_off : bs_in.refs[r] = bs_ptrs[k].at
      BY <1>2 DEF IndexIs
    <3> QED BY <3>1, <3>2, Zenon
  <2>6. \E k \in 1 .. NrPtrs : bs_ptrs'[k].at = 0
    BY <1>2, <1>6 DEF IndexIs
  <2>7. \A r \in btf_for_each_str_off :
          bs_in.refs[r] = 0 \/ \E k \in 1 .. NrPtrs : bs_ptrs'[k].at = bs_in.refs[r]
    BY <1>2, <1>6 DEF IndexIs
  <2>8. \A j, k \in 1 .. NrPtrs : j < k => bs_ptrs'[j].str <= bs_ptrs'[k].str
    BY <1>2, <1>6 DEF IndexIs
  <2> QED BY <2>1, <2>2, <2>3, <2>4, <2>5, <2>6, <2>7, <2>8 DEF IndexIs

\* The new section has what is used up to the end of the group.
<1> DEFINE TmpDone ==
             /\ bs_tmp' \in Seq(Nat) /\ \A j, k \in 1 .. Len(bs_tmp') : j < k => bs_tmp'[j] < bs_tmp'[k]
             /\ \A j \in 1 .. Len(bs_tmp') : \E k \in 1 .. bs_i - 1 : bs_ptrs[k].used /\ bs_ptrs[k].str = bs_tmp'[j]
             /\ \A k \in 1 .. bs_i - 1 : bs_ptrs[k].used =>
                  \E j \in 1 .. Len(bs_tmp') : bs_tmp'[j] = bs_ptrs[k].str /\ bs_ptrs'[k].new_off = StartOf(bs_tmp', j)
<1>9. TmpDone
  <2>1. CASE bs_grp_used
    <3>1. bs_tmp' = Append(bs_tmp, s)
      BY <2>1 DEF NextGroup
    <3>2. /\ bs_tmp' \in Seq(Nat) /\ Len(bs_tmp') = Len(bs_tmp) + 1 /\ Len(bs_tmp) \in Nat
          /\ \A k \in 1 .. Len(bs_tmp) : bs_tmp'[k] = bs_tmp[k] /\ StartOf(bs_tmp', k) = StartOf(bs_tmp, k)
          /\ bs_tmp'[Len(bs_tmp) + 1] = s /\ StartOf(bs_tmp', Len(bs_tmp) + 1) = new
      BY <1>3, <1>5, <3>1, AppendedString
    <3>3. ASSUME NEW j \in 1 .. Len(bs_tmp) PROVE bs_tmp[j] < s
      <4>1. PICK k \in 1 .. bs_grp - 1 : bs_ptrs[k].str = bs_tmp[j]
        BY <1>2 DEF TmpIs
      <4> QED BY <1>2, <4>1 DEF GroupIs
    <3>4. \A k : k \in 1 .. Len(bs_tmp') <=> k \in 1 .. Len(bs_tmp) \/ k = Len(bs_tmp) + 1
      BY <3>2
    <3>5. ASSUME NEW j \in 1 .. Len(bs_tmp'), NEW k \in 1 .. Len(bs_tmp'), j < k
          PROVE  bs_tmp'[j] < bs_tmp'[k]
      <4>1. j \in 1 .. Len(bs_tmp)
        BY <3>2, <3>5
      <4>2. CASE k \in 1 .. Len(bs_tmp)
        BY <1>2, <3>2, <3>5, <4>1, <4>2 DEF TmpIs
      <4>3. CASE k = Len(bs_tmp) + 1
        BY <3>2, <3>3, <4>1, <4>3
      <4> QED BY <3>4, <4>2, <4>3
    <3>6. ASSUME NEW j \in 1 .. Len(bs_tmp')
          PROVE  \E k \in 1 .. bs_i - 1 : bs_ptrs[k].used /\ bs_ptrs[k].str = bs_tmp'[j]
      <4>1. CASE j \in 1 .. Len(bs_tmp)
        <5>1. PICK k \in 1 .. bs_grp - 1 : bs_ptrs[k].used /\ bs_ptrs[k].str = bs_tmp[j]
          BY <1>2, <4>1 DEF TmpIs
        <5>2. k \in 1 .. bs_i - 1 /\ bs_tmp'[j] = bs_tmp[j]
          BY <1>4, <3>2, <4>1
        <5> QED BY <5>1, <5>2
      <4>2. CASE j = Len(bs_tmp) + 1
        <5>1. PICK k \in grp : bs_ptrs[k].used
          BY <1>2, <2>1 DEF GroupIs
        <5>2. bs_ptrs[k].str = s
          BY <1>2, <5>1 DEF GroupIs
        <5> QED BY <1>4, <3>2, <4>2, <5>1, <5>2
      <4> QED BY <3>4, <4>1, <4>2
    <3>7. ASSUME NEW k \in 1 .. bs_i - 1, bs_ptrs[k].used
          PROVE  \E j \in 1 .. Len(bs_tmp') : bs_tmp'[j] = bs_ptrs[k].str /\ bs_ptrs'[k].new_off = StartOf(bs_tmp', j)
      <4>1. CASE k \in 1 .. bs_grp - 1
        <5>1. PICK j \in 1 .. Len(bs_tmp) : bs_tmp[j] = bs_ptrs[k].str /\ bs_ptrs[k].new_off = StartOf(bs_tmp, j)
          BY <1>2, <3>7, <4>1 DEF TmpIs
        <5>2. bs_ptrs'[k].new_off = bs_ptrs[k].new_off
          BY <1>4, <1>6, <4>1
        <5> QED BY <3>2, <3>4, <5>1, <5>2
      <4>2. CASE k \in grp
        <5>1. bs_ptrs'[k].new_off = new
          BY <1>4, <1>6, <2>1, <4>2
        <5>2. bs_ptrs[k].str = s
          BY <1>2, <4>2 DEF GroupIs
        <5> QED BY <3>2, <3>4, <5>1, <5>2
      <4> QED BY <1>4, <4>1, <4>2
    <3> QED BY <3>2, <3>5, <3>6, <3>7
  <2>2. CASE ~ bs_grp_used
    <3>1. bs_tmp' = bs_tmp /\ bs_ptrs' = bs_ptrs
      BY <2>2 DEF NextGroup
    <3>2. \A k \in grp : ~ bs_ptrs[k].used
      BY <1>2, <2>2 DEF GroupIs
    <3> QED BY <1>2, <1>4, <3>1, <3>2 DEF TmpIs
  <2> QED BY <2>1, <2>2
<1>13. ASSUME NEW n, n = bs_i - 1
       PROVE  /\ \A j \in 1 .. Len(bs_tmp') : \E k \in 1 .. n : bs_ptrs'[k].used /\ bs_ptrs'[k].str = bs_tmp'[j]
              /\ \A k \in 1 .. n : bs_ptrs'[k].used =>
                   \E j \in 1 .. Len(bs_tmp') : bs_tmp'[j] = bs_ptrs'[k].str /\ bs_ptrs'[k].new_off = StartOf(bs_tmp', j)
              /\ bs_tmp' \in Seq(Nat) /\ \A j, k \in 1 .. Len(bs_tmp') : j < k => bs_tmp'[j] < bs_tmp'[k]
  <2>1. \A k \in 1 .. n : bs_ptrs'[k].used = bs_ptrs[k].used /\ bs_ptrs'[k].str = bs_ptrs[k].str
    BY <1>4, <1>6, <1>13
  <2>2. \A j \in 1 .. Len(bs_tmp') : \E k \in 1 .. n : bs_ptrs'[k].used /\ bs_ptrs'[k].str = bs_tmp'[j]
    <3> TAKE j \in 1 .. Len(bs_tmp')
    <3>1. PICK k \in 1 .. n : bs_ptrs[k].used /\ bs_ptrs[k].str = bs_tmp'[j]
      BY <1>9, <1>13
    <3>2. bs_ptrs'[k].used = bs_ptrs[k].used /\ bs_ptrs'[k].str = bs_ptrs[k].str
      BY <2>1
    <3>3. bs_ptrs'[k].used /\ bs_ptrs'[k].str = bs_tmp'[j]
      BY <3>1, <3>2, Zenon
    <3> QED BY <3>3
  <2>3. \A k \in 1 .. n : bs_ptrs'[k].used =>
          \E j \in 1 .. Len(bs_tmp') : bs_tmp'[j] = bs_ptrs'[k].str /\ bs_ptrs'[k].new_off = StartOf(bs_tmp', j)
    <3> SUFFICES ASSUME NEW k \in 1 .. n, bs_ptrs'[k].used
                 PROVE  \E j \in 1 .. Len(bs_tmp') :
                          bs_tmp'[j] = bs_ptrs'[k].str /\ bs_ptrs'[k].new_off = StartOf(bs_tmp', j)
      OBVIOUS
    <3>1. bs_ptrs'[k].used = bs_ptrs[k].used /\ bs_ptrs'[k].str = bs_ptrs[k].str
      BY <2>1
    <3>2. bs_ptrs[k].used
      BY <3>1, Zenon
    <3>3. \E j \in 1 .. Len(bs_tmp') : bs_tmp'[j] = bs_ptrs[k].str /\ bs_ptrs'[k].new_off = StartOf(bs_tmp', j)
      BY <1>9, <1>13, <3>2
    <3> QED BY <3>1, <3>3
  <2> QED BY <1>9, <2>2, <2>3
<1> HIDE DEF TmpDone
<1>10. CASE bs_i <= NrPtrs
  <2>1. bs_grp' = bs_i /\ bs_grp_used' = bs_ptrs[bs_i].used /\ bs_i' = bs_i + 1 /\ bs_pc' = bs_pc
    BY <1>10 DEF NextGroup, NrPtrs
  <2>2. bs_i \in 1 .. NrPtrs /\ bs_i' \in 2 .. NrPtrs + 1 /\ bs_grp' \in 1 .. bs_i' - 1 /\ bs_i' - 1 = bs_i
        /\ bs_grp' - 1 = bs_i - 1
    BY <1>3, <1>10, <2>1
  <2>3. ASSUME NEW k \in 1 .. bs_i - 1 PROVE bs_ptrs[k].str < bs_ptrs[bs_i].str
    <3>1. bs_ptrs[k].str \in Nat /\ bs_ptrs[bs_i].str \in Nat /\ k \in 1 .. NrPtrs /\ k < bs_i /\ bs_grp < bs_i
      BY <1>3, <1>4, <2>2 DEF StrPtrs
    <3>2. s <= bs_ptrs[bs_i].str /\ s # bs_ptrs[bs_i].str
      BY <1>1, <1>2, <1>4, <1>10, <2>2, <3>1 DEF IndexIs
    <3>3. bs_ptrs[k].str <= s
      <4>1. CASE k \in 1 .. bs_grp - 1
        <5>1. bs_ptrs[k].str < s
          BY <1>2, <4>1 DEF GroupIs
        <5> QED BY <1>5, <3>1, <5>1
      <4>2. CASE k \in grp
        <5>1. bs_ptrs[k].str = s
          BY <1>2, <4>2 DEF GroupIs
        <5> QED BY <1>5, <5>1
      <4> QED BY <1>4, <4>1, <4>2
    <3> HIDE DEF s
    <3> QED BY <1>5, <3>1, <3>2, <3>3
  <2>4. GroupIs'
    <3>1. \A k \in bs_i .. bs_i : k = bs_i
      BY <1>3
    <3>2. bs_i \in bs_i .. bs_i
      BY <1>3
    <3>3. \A k \in 1 .. bs_i - 1 : bs_ptrs'[k].str < bs_ptrs'[bs_i].str
      BY <1>4, <1>6, <2>2, <2>3
    <3>4. bs_grp_used' <=> bs_ptrs'[bs_i].used
      BY <1>6, <2>1, <2>2
    <3> QED BY <1>6, <2>1, <2>2, <3>1, <3>2, <3>3, <3>4 DEF GroupIs
  <2>5. TmpIs(bs_grp - 1)'
    BY <1>6, <1>13, <2>2 DEF TmpIs
  <2> QED BY <1>1, <1>2, <1>7, <2>1, <2>4, <2>5 DEF BsInv, StringsAreDeduplicated, NamesAreKept, StringsOnce
<1>11. CASE ~ (bs_i <= NrPtrs)
  <2>1. bs_pc' = "remap"
    BY <1>11 DEF NextGroup, NrPtrs
  <2>2. bs_i - 1 = NrPtrs
    BY <1>3, <1>11
  <2>3. TmpIs(NrPtrs)'
    BY <1>6, <1>13, <2>2 DEF TmpIs
  <2> QED BY <1>1, <1>2, <1>7, <2>1, <2>3 DEF BsInv, StringsAreDeduplicated, NamesAreKept, StringsOnce
<1> QED BY <1>10, <1>11

\* The strings that the references name after the remapping.
LEMMA RemapStep ==
  ASSUME BsInv, RemapOffsets PROVE BsInv'
  <1> DEFINE strs == bs_in.strs
             refs == bs_in.refs
  <1>1. /\ bs_pc = "remap" /\ bs_strs' = bs_tmp /\ bs_pc' = "done" /\ bs_ret' = "0"
        /\ bs_refs' = [r \in Referrers |->
                         IF r \in btf_for_each_str_off THEN btf_str_remap_offset(bs_refs[r]) ELSE bs_refs[r]]
        /\ bs_in' = bs_in
    BY DEF RemapOffsets
  <1>2. /\ IndexIs /\ TmpIs(NrPtrs) /\ bs_refs = refs
        /\ strs \in Seq(Nat) /\ strs # <<>> /\ strs[1] = 0
    BY <1>1 DEF BsInv
  <1>3. /\ bs_ptrs \in [1 .. NrPtrs -> StrPtrs] /\ bs_tmp \in Seq(Nat)
        /\ \A j, k \in 1 .. Len(bs_tmp) : j < k => bs_tmp[j] < bs_tmp[k]
    BY <1>2 DEF IndexIs, TmpIs
  <1>4. /\ \A k \in 1 .. Len(strs) : StartOf(strs, k) \in Nat
        /\ StartOf(strs, 1) = 0 /\ 1 \in 1 .. Len(strs) /\ strs \in Seq(Nat)
        /\ \A j, k \in 1 .. Len(strs) : StartOf(strs, j) = StartOf(strs, k) => j = k
    <2>1. Len(strs) \in Nat /\ Len(strs) # 0
      BY <1>2
    <2> QED BY <1>2, <2>1, StartsAre
  <1>5. \A r \in btf_for_each_str_off : bs_refs'[r] = btf_str_remap_offset(refs[r])
    BY <1>1, <1>2 DEF Referrers, btf_for_each_str_off

\* The empty string is the first one.
<1>6. Len(bs_tmp) \in Nat /\ 1 \in 1 .. Len(bs_tmp) /\ bs_tmp[1] = 0 /\ StartOf(bs_tmp, 1) = 0
  <2>1. PICK k \in 1 .. NrPtrs : bs_ptrs[k].at = 0
    BY <1>2 DEF IndexIs
  <2>2. bs_ptrs[k].str = 0
    <3>1. PICK m \in 1 .. Len(strs) : bs_ptrs[k].at = StartOf(strs, m) /\ bs_ptrs[k].str = strs[m]
      BY <1>2 DEF IndexIs
    <3>2. m = 1
      BY <1>4, <2>1, <3>1
    <3> QED BY <1>2, <3>1, <3>2
  <2>3. bs_ptrs[k].used
    BY <1>2, <2>1 DEF IndexIs
  <2>4. PICK j \in 1 .. Len(bs_tmp) : bs_tmp[j] = 0
    BY <1>2, <2>2, <2>3 DEF TmpIs
  <2>5. Len(bs_tmp) \in Nat /\ 1 \in 1 .. Len(bs_tmp)
    BY <1>3
  <2>6. j = 1
    <3> SUFFICES ASSUME 1 < j PROVE FALSE
      BY <2>5
    <3>1. bs_tmp[1] < bs_tmp[j] /\ bs_tmp[1] \in Nat
      BY <1>3, <2>5
    <3> QED BY <2>4, <3>1
  <2>7. StartOf(bs_tmp, 1) = 0
    BY <1>3, <2>5, StartsAre
  <2> QED BY <2>4, <2>5, <2>6, <2>7

\* A reference that is not 0 is to an entry, and to its new place after.
<1>7. ASSUME NEW r \in btf_for_each_str_off, refs[r] # 0, NEW k \in 1 .. NrPtrs, bs_ptrs[k].at = refs[r]
      PROVE  bs_refs'[r] = bs_ptrs[k].new_off
  <2>1. DOMAIN bs_ptrs = 1 .. NrPtrs
    BY <1>3
  <2>2. \A j \in 1 .. NrPtrs : bs_ptrs[j].at = refs[r] <=> j = k
    BY <1>2, <1>7 DEF IndexIs
  <2>3. (CHOOSE j \in DOMAIN bs_ptrs : bs_ptrs[j].at = refs[r]) = k
    BY <2>1, <2>2
  <2> QED BY <1>5, <1>7, <2>3 DEF btf_str_remap_offset
<1>8. \A r \in btf_for_each_str_off : refs[r] = 0 => bs_refs'[r] = 0
  BY <1>5 DEF btf_str_remap_offset
<1>9. ASSUME NEW r \in btf_for_each_str_off
      PROVE  ReadAt(bs_tmp, bs_refs'[r]) = ReadAt(strs, refs[r])
  <2>1. CASE refs[r] = 0
    <3>1. ReadAt(bs_tmp, 0) = <<bs_tmp[1], 0>>
      BY <1>3, <1>6, ReadsString
    <3>2. ReadAt(strs, 0) = <<strs[1], 0>>
      BY <1>4, ReadsString
    <3> QED BY <1>2, <1>6, <1>8, <2>1, <3>1, <3>2
  <2>2. CASE refs[r] # 0
    <3>1. PICK k \in 1 .. NrPtrs : bs_ptrs[k].at = refs[r]
      BY <1>2, <2>2 DEF IndexIs
    <3>2. bs_ptrs[k].used
      BY <1>2, <3>1 DEF IndexIs
    <3>3. PICK j \in 1 .. Len(bs_tmp) : bs_tmp[j] = bs_ptrs[k].str /\ bs_ptrs[k].new_off = StartOf(bs_tmp, j)
      BY <1>2, <3>2 DEF TmpIs
    <3>4. PICK m \in 1 .. Len(strs) : bs_ptrs[k].at = StartOf(strs, m) /\ bs_ptrs[k].str = strs[m]
      BY <1>2 DEF IndexIs
    <3>5. ReadAt(bs_tmp, StartOf(bs_tmp, j)) = <<bs_tmp[j], 0>>
      BY <1>3, ReadsString
    <3>6. ReadAt(strs, StartOf(strs, m)) = <<strs[m], 0>>
      BY <1>4, ReadsString
    <3>7. bs_refs'[r] = StartOf(bs_tmp, j) /\ refs[r] = StartOf(strs, m) /\ bs_tmp[j] = strs[m]
      BY <1>7, <2>2, <3>1, <3>3, <3>4
    <3> QED BY <3>5, <3>6, <3>7
  <2> QED BY <2>1, <2>2
<1>10. NamesAreKept'
  <2>1. "type" \in btf_for_each_str_off /\ "line_info" \in btf_for_each_str_off
    BY DEF btf_for_each_str_off
  <2> QED BY <1>1, <1>9, <2>1 DEF NamesAreKept, ReadsTheSame
<1>11. \A j, k \in 1 .. Len(bs_tmp) : bs_tmp[j] = bs_tmp[k] => j = k
  <2> SUFFICES ASSUME NEW j \in 1 .. Len(bs_tmp), NEW k \in 1 .. Len(bs_tmp), j # k PROVE bs_tmp[j] # bs_tmp[k]
    OBVIOUS
  <2>1. bs_tmp[j] \in Nat /\ bs_tmp[k] \in Nat
    BY <1>3
  <2>2. CASE j < k
    <3>1. bs_tmp[j] < bs_tmp[k]
      BY <1>3, <2>2
    <3> QED BY <2>1, <3>1
  <2>3. CASE k < j
    <3>1. bs_tmp[k] < bs_tmp[j]
      BY <1>3, <2>3
    <3> QED BY <2>1, <3>1
  <2> QED BY <1>6, <2>2, <2>3
<1>12. Cardinality(Range(bs_tmp)) = Len(bs_tmp)
  <2> DEFINE S == 1 .. Len(bs_tmp)
             R == Range(bs_tmp)
  <2>1. DOMAIN bs_tmp = S /\ bs_tmp \in [S -> Nat] /\ R = {bs_tmp[k] : k \in S}
    BY <1>3 DEF Range
  <2>2. bs_tmp \in [S -> R] /\ \A x \in R : \E k \in S : bs_tmp[k] = x
    BY <2>1
  <2>3. bs_tmp \in Surjection(S, R)
    BY <2>2 DEF Surjection
  <2>4. bs_tmp \in Injection(S, R)
    BY <1>11, <2>2 DEF Injection, IsInjective
  <2>5. IsFiniteSet(S) /\ Cardinality(S) = Len(bs_tmp)
    <3> DEFINE n == Len(bs_tmp)
    <3>1. n \in Int /\ n >= 1
      BY <1>6
    <3> HIDE DEF n
    <3>2. IsFiniteSet(1 .. n) /\ Cardinality(1 .. n) = n - 1 + 1
      BY <3>1, FS_Interval
    <3> QED BY <3>1, <3>2 DEF n
  <2> HIDE DEF S, R
  <2>6. Cardinality(R) = Cardinality(S)
    BY <2>3, <2>4, <2>5, FS_Surjection
  <2> QED BY <2>5, <2>6 DEF R
<1>13. ASSUME NEW j \in 1 .. Len(bs_tmp), bs_tmp[j] # 0
       PROVE  \E r \in btf_for_each_str_off : bs_refs'[r] = StartOf(bs_tmp, j)
  <2>1. PICK k \in 1 .. NrPtrs : bs_ptrs[k].used /\ bs_ptrs[k].str = bs_tmp[j]
    BY <1>2 DEF TmpIs
  <2>2. PICK m \in 1 .. Len(strs) : bs_ptrs[k].at = StartOf(strs, m) /\ bs_ptrs[k].str = strs[m]
    BY <1>2 DEF IndexIs
  <2>3. bs_ptrs[k].at # 0
    <3> SUFFICES ASSUME bs_ptrs[k].at = 0 PROVE FALSE
      OBVIOUS
    <3>1. m = 1
      BY <1>4, <2>2
    <3> QED BY <1>2, <1>13, <2>1, <2>2, <3>1
  <2>4. PICK r \in btf_for_each_str_off : refs[r] = bs_ptrs[k].at
    BY <1>2, <2>1, <2>3 DEF IndexIs
  <2>5. bs_refs'[r] = bs_ptrs[k].new_off
    BY <1>7, <2>3, <2>4
  <2>6. PICK i \in 1 .. Len(bs_tmp) : bs_tmp[i] = bs_ptrs[k].str /\ bs_ptrs[k].new_off = StartOf(bs_tmp, i)
    BY <1>2, <2>1 DEF TmpIs
  <2>7. i = j
    BY <1>11, <2>1, <2>6
  <2> QED BY <2>5, <2>6, <2>7
<1>14. StringsOnce'
  <2>1. DOMAIN bs_tmp = 1 .. Len(bs_tmp)
    BY <1>3
  <2> QED BY <1>1, <1>12, <1>13, <2>1 DEF StringsOnce
<1> QED BY <1>1, <1>2, <1>10, <1>14 DEF BsInv, StringsAreDeduplicated

\* BtfStrings.tla: for any strings and references and any order that qsort leaves equal strings
\* in, each reference names the same text afterwards, and no text is there twice.
THEOREM StringsAlwaysDeduplicated == BsSpec => []StringsAreDeduplicated
  <1>1. BsInit => BsInv
    BY BsInitInv
  <1>2. BsInv /\ [BsNext]_bsVars => BsInv'
    <2>1. ASSUME BsInv, UNCHANGED bsVars PROVE BsInv'
      <3>1. UNCHANGED <<bs_in, bs_strs, bs_refs, bs_ptrs, bs_i, bs_grp, bs_grp_used, bs_tmp, bs_pc, bs_ret>>
        BY <2>1 DEF bsVars
      <3>2. (IndexIs => IndexIs') /\ (GroupIs => GroupIs') /\ (TmpIs(bs_grp - 1) => TmpIs(bs_grp - 1)')
            /\ (TmpIs(NrPtrs) => TmpIs(NrPtrs)')
        BY <3>1 DEF IndexIs, GroupIs, TmpIs, NrPtrs
      <3>3. StringsAreDeduplicated => StringsAreDeduplicated'
        BY <3>1 DEF StringsAreDeduplicated, NamesAreKept, StringsOnce, ReadsTheSame
      <3> QED BY <2>1, <3>1, <3>2, <3>3 DEF BsInv
    <2> QED BY <2>1, BuildIndexStep, SameGroupStep, NextGroupStep, RemapStep DEF BsNext
  <1>3. BsInv => StringsAreDeduplicated
    BY DEF BsInv
  <1> QED BY <1>1, <1>2, <1>3, PTL DEF BsSpec

-----------------------------------------------------------------------------
(* BtfRead.                                                                *)

\* The index has descriptors whose fields are numbers.
IndexTyped(types) ==
  /\ Len(types) \in Nat
  /\ \A k \in 1 .. Len(types) : types[k].type \in Nat /\ types[k].n \in Nat

\* The type of a number is a descriptor, void or none.
LEMMA TypeOfId ==
  ASSUME NEW types, IndexTyped(types), NEW id \in Nat
  PROVE  btf__type_by_id(types, id).type \in Nat /\ btf__type_by_id(types, id).n \in Nat
  <1>1. CASE id >= Len(types)
    <2>1. btf__type_by_id(types, id) = NULL
      BY <1>1 DEF btf__type_by_id
    <2>2. NULL.type = 0 /\ NULL.n = 0
      BY DEF NULL
    <2> QED BY <2>1, <2>2
  <1>2. CASE ~ (id >= Len(types))
    <2>1. btf__type_by_id(types, id) = types[id + 1] /\ id + 1 \in 1 .. Len(types)
      BY <1>2 DEF btf__type_by_id, IndexTyped
    <2> QED BY <2>1 DEF IndexTyped
  <1> QED BY <1>1, <1>2

\* The check of the product is exact.
LEMMA OverflowIsExact ==
  ASSUME NEW nelems \in Nat, NEW more \in Nat
  PROVE  ElementsOverflow(nelems, more) <=> nelems * more > UINT32_MAX
  <1>1. UINT32_MAX \in Nat
    BY BtfReadAssumption
  <1>2. CASE nelems = 0
    BY <1>1, <1>2 DEF ElementsOverflow
  <1>3. CASE nelems # 0
    <2> DEFINE q == UINT32_MAX \div nelems
               r == UINT32_MAX % nelems
    <2>1. q \in Nat /\ r \in 0 .. nelems - 1 /\ UINT32_MAX = nelems * q + r
      BY <1>1, <1>3
    <2>2. ElementsOverflow(nelems, more) <=> more > q
      BY <1>3 DEF ElementsOverflow
    <2> HIDE DEF q, r
    <2>3. ASSUME more > q PROVE nelems * more > UINT32_MAX
      <3>1. PICK d \in Nat : more = q + 1 + d
        <4>1. more - q - 1 \in Nat /\ more = q + 1 + (more - q - 1)
          BY <2>1, <2>3
        <4> QED BY <4>1
      <3>2. nelems * (q + 1 + d) = nelems * q + nelems + nelems * d
        BY <2>1
      <3>3. nelems * q \in Nat /\ nelems * d \in Nat
        BY <2>1
      <3> QED BY <2>1, <3>1, <3>2, <3>3
    <2>4. ASSUME ~ more > q PROVE ~ nelems * more > UINT32_MAX
      <3>1. PICK d \in Nat : q = more + d
        <4>1. q - more \in Nat /\ q = more + (q - more)
          BY <2>1, <2>4
        <4> QED BY <4>1
      <3>2. nelems * (more + d) = nelems * more + nelems * d
        OBVIOUS
      <3>3. nelems * more \in Nat /\ nelems * d \in Nat
        OBVIOUS
      <3> QED BY <2>1, <3>1, <3>2, <3>3
    <2> QED BY <2>2, <2>3, <2>4
  <1> QED BY <1>2, <1>3

\* Where a walk over references is.
Walks == [id : Nat, nelems : 0 .. UINT32_MAX, done : BOOLEAN, ret : Int]
\* Where it begins.
WalkStart(id) == [id |-> id, nelems |-> 1, done |-> FALSE, ret |-> minus_EINVAL]
\* The size of a type that has one, and how often an array has its elements.
SizeOfType(t) == IF t.kind = "ptr" THEN 8 ELSE t.n
Dim(t) == IF t.kind = "array" THEN t.n ELSE 1
\* A type of its own size; the path to it leads on, and no product of the way is too large.
HasSize(t) == t.kind \in Sized \cup {"ptr"}

\* What a turn does where the walk stands on t.
TurnAt(t, s, n) ==
  /\ n \in Walks
  /\ s.done => n = s
  /\ ~ s.done /\ HasSize(t) =>
       n = [s EXCEPT !.done = TRUE,
                     !.ret = IF s.nelems * SizeOfType(t) > UINT32_MAX THEN minus_E2BIG
                             ELSE s.nelems * SizeOfType(t)]
  /\ ~ s.done /\ LeadsOn(t) =>
       n = IF s.nelems * Dim(t) > UINT32_MAX
           THEN [s EXCEPT !.done = TRUE, !.ret = minus_E2BIG]
           ELSE [s EXCEPT !.id = t.type, !.nelems = s.nelems * Dim(t)]
  /\ ~ s.done /\ ~ HasSize(t) /\ ~ LeadsOn(t) => n = [s EXCEPT !.done = TRUE, !.ret = minus_EINVAL]

\* What one turn does.
LEMMA SizeTurnIs ==
  ASSUME NEW types, IndexTyped(types), NEW s \in Walks, NEW t, t = btf__type_by_id(types, s.id)
  PROVE  TurnAt(t, s, SizeTurn(types, s))
  <1> SUFFICES /\ SizeTurn(types, s) \in Walks
               /\ s.done => SizeTurn(types, s) = s
               /\ ~ s.done /\ t.kind \in Sized \cup {"ptr"} =>
                    SizeTurn(types, s) = [s EXCEPT !.done = TRUE,
                                            !.ret = IF s.nelems * SizeOfType(t) > UINT32_MAX THEN minus_E2BIG
                                                    ELSE s.nelems * SizeOfType(t)]
               /\ ~ s.done /\ LeadsOn(t) =>
                    SizeTurn(types, s) = IF s.nelems * Dim(t) > UINT32_MAX
                                  THEN [s EXCEPT !.done = TRUE, !.ret = minus_E2BIG]
                                  ELSE [s EXCEPT !.id = t.type, !.nelems = s.nelems * Dim(t)]
               /\ ~ s.done /\ t.kind \notin Sized \cup {"ptr"} /\ ~ LeadsOn(t) =>
                    SizeTurn(types, s) = [s EXCEPT !.done = TRUE, !.ret = minus_EINVAL]
    BY DEF TurnAt, HasSize
  <1>1. /\ UINT32_MAX \in Nat /\ s.id \in Nat /\ s.nelems \in 0 .. UINT32_MAX /\ s.done \in BOOLEAN
        /\ s.ret \in Int
    BY BtfReadAssumption DEF Walks
  <1>2. t.type \in Nat /\ t.n \in Nat
    BY <1>1, TypeOfId
  <1>3. SizeOfType(t) \in Nat /\ Dim(t) \in Nat /\ s.nelems \in Nat
    BY <1>1, <1>2 DEF SizeOfType, Dim
  <1>4. /\ ElementsOverflow(s.nelems, SizeOfType(t)) <=> s.nelems * SizeOfType(t) > UINT32_MAX
        /\ ElementsOverflow(s.nelems, t.n) <=> s.nelems * t.n > UINT32_MAX
    BY <1>2, <1>3, OverflowIsExact
  <1>5. minus_EINVAL \in Int /\ minus_E2BIG \in Int /\ s.nelems * SizeOfType(t) \in Int /\ s.nelems * t.n \in Nat
    BY <1>2, <1>3 DEF minus_EINVAL, minus_E2BIG
  <1>6. \A ret \in Int : [s EXCEPT !.done = TRUE, !.ret = ret] \in Walks
    BY DEF Walks
  <1>7. \A i \in Nat, e \in 0 .. UINT32_MAX : [s EXCEPT !.id = i, !.nelems = e] \in Walks
    BY DEF Walks
  <1>8. CASE s.done
    <2>1. SizeTurn(types, s) = s
      BY <1>8 DEF SizeTurn
    <2> QED BY <1>8, <2>1
  <1>9. CASE ~ s.done /\ t.kind \in Sized \cup {"ptr"}
    <2>1. SizeTurn(types, s) = [s EXCEPT !.done = TRUE,
                                  !.ret = IF ElementsOverflow(s.nelems, SizeOfType(t)) THEN minus_E2BIG
                                          ELSE s.nelems * SizeOfType(t)]
      BY <1>9 DEF SizeTurn, SizeOfType
    <2>2. ~ LeadsOn(t)
      BY <1>9 DEF LeadsOn, Sized, Modifiers
    <2> QED BY <1>4, <1>5, <1>6, <1>9, <2>1, <2>2
  <1>10. CASE ~ s.done /\ t.kind \in Modifiers
    <2>1. t.kind \notin Sized \cup {"ptr"} /\ t.kind # "array" /\ LeadsOn(t)
      BY <1>10 DEF LeadsOn, Sized, Modifiers
    <2>2. SizeTurn(types, s) = [s EXCEPT !.id = t.type]
      BY <1>10, <2>1 DEF SizeTurn
    <2>3. Dim(t) = 1 /\ s.nelems * Dim(t) = s.nelems /\ ~ s.nelems > UINT32_MAX
      BY <1>1, <1>3, <2>1 DEF Dim
    <2>4. [s EXCEPT !.id = t.type, !.nelems = s.nelems] = [s EXCEPT !.id = t.type]
      BY DEF Walks
    <2> DEFINE x == s.nelems * Dim(t)
    <2>5. ~ x > UINT32_MAX /\ [s EXCEPT !.id = t.type, !.nelems = x] = [s EXCEPT !.id = t.type]
      BY <2>3, <2>4
    <2>6. [s EXCEPT !.id = t.type] \in Walks
      BY <1>1, <1>2, <1>7, <2>4
    <2> HIDE DEF x
    <2>7. SizeTurn(types, s) = IF x > UINT32_MAX THEN [s EXCEPT !.done = TRUE, !.ret = minus_E2BIG]
                        ELSE [s EXCEPT !.id = t.type, !.nelems = x]
      BY <2>2, <2>5
    <2>8. SizeTurn(types, s) \in Walks /\ ~ s.done /\ t.kind \notin Sized \cup {"ptr"} /\ LeadsOn(t)
      BY <1>10, <2>1, <2>2, <2>6
    <2> QED BY ONLY <2>7, <2>8 DEF x
  <1>11. CASE ~ s.done /\ t.kind = "array"
    <2>1. t.kind \notin Sized \cup {"ptr"} /\ t.kind \notin Modifiers /\ LeadsOn(t)
      BY <1>11 DEF LeadsOn, Sized, Modifiers
    <2>2. SizeTurn(types, s) = IF ElementsOverflow(s.nelems, t.n) THEN [s EXCEPT !.done = TRUE, !.ret = minus_E2BIG]
                        ELSE [s EXCEPT !.id = t.type, !.nelems = (s.nelems * t.n) % (UINT32_MAX + 1)]
      BY <1>11, <2>1 DEF SizeTurn
    <2>3. Dim(t) = t.n
      BY <1>11 DEF Dim
    <2>4. CASE ElementsOverflow(s.nelems, t.n)
      BY <1>4, <1>5, <1>6, <1>11, <2>1, <2>2, <2>3, <2>4
    <2>5. CASE ~ ElementsOverflow(s.nelems, t.n)
      <3> DEFINE e == s.nelems * t.n
      <3>1. e \in 0 .. UINT32_MAX
        BY <1>1, <1>4, <1>5, <2>5
      <3> HIDE DEF e
      <3>2. e % (UINT32_MAX + 1) = e
        BY <1>1, <3>1
      <3>3. SizeTurn(types, s) = [s EXCEPT !.id = t.type, !.nelems = e]
        <4>1. SizeTurn(types, s) = [s EXCEPT !.id = t.type, !.nelems = e % (UINT32_MAX + 1)]
          BY <2>2, <2>5 DEF e
        <4> QED BY <3>2, <4>1
      <3>4. ~ e > UINT32_MAX
        BY <1>1, <3>1
      <3>5. e = s.nelems * Dim(t)
        BY <2>3 DEF e
      <3>6. SizeTurn(types, s) \in Walks
        BY <1>2, <1>7, <3>1, <3>3
      <3>7. ~ s.done /\ t.kind \notin Sized \cup {"ptr"} /\ LeadsOn(t)
        BY <1>11, <2>1
      <3>8. SizeTurn(types, s) = IF e > UINT32_MAX THEN [s EXCEPT !.done = TRUE, !.ret = minus_E2BIG]
                          ELSE [s EXCEPT !.id = t.type, !.nelems = e]
        BY <3>3, <3>4
      <3> QED BY ONLY <3>5, <3>6, <3>7, <3>8
    <2> QED BY <2>4, <2>5
  <1>12. CASE ~ s.done /\ t.kind \notin Sized \cup {"ptr"} /\ ~ LeadsOn(t)
    <2>1. t.kind \notin Modifiers /\ t.kind # "array"
      BY <1>12 DEF LeadsOn
    <2>2. SizeTurn(types, s) = [s EXCEPT !.done = TRUE, !.ret = minus_EINVAL]
      BY <1>12, <2>1 DEF SizeTurn
    <2> QED BY <1>5, <1>6, <1>12, <2>2
  <1>13. LeadsOn(t) => t.kind \in Modifiers \/ t.kind = "array"
    BY DEF LeadsOn
  <1> QED BY <1>1, <1>8, <1>9, <1>10, <1>11, <1>12, <1>13

\* A turn leads from walk to walk, and none leads on from the end of one.
LEMMA SizeTurnStays ==
  ASSUME NEW types, IndexTyped(types)
  PROVE  \A s \in Walks : SizeTurn(types, s) \in Walks /\ (s.done => SizeTurn(types, s) = s)
  <1> SUFFICES ASSUME NEW s \in Walks PROVE SizeTurn(types, s) \in Walks /\ (s.done => SizeTurn(types, s) = s)
    OBVIOUS
  <1> DEFINE t == btf__type_by_id(types, s.id)
  <1>1. t = btf__type_by_id(types, s.id)
    OBVIOUS
  <1> HIDE DEF t
  <1>2. TurnAt(t, s, SizeTurn(types, s))
    BY <1>1, SizeTurnIs
  <1> QED BY <1>2 DEF TurnAt

\* The bound of the loops.
Depth == MAX_RESOLVE_DEPTH
\* The type behind k references.
TypeAt(types, p, k) == btf__type_by_id(types, p[k].id)

\* The walk of btf__resolve_size.
SizeWalk(types, id, f) ==
  /\ f \in [0 .. Depth -> Walks] /\ f[0] = WalkStart(id)
  /\ \A i \in 1 .. Depth : f[i] = SizeTurn(types, f[i - 1])

\* The loop is such a walk.
LEMMA SizeLoop ==
  ASSUME NEW types, IndexTyped(types), NEW id \in Nat
  PROVE  \E f : SizeWalk(types, id, f) /\ btf__resolve_size(types, id) = f[Depth].ret
  <1> DEFINE F == [p \in Nat \X Walks |-> SizeTurn(types, p[2])]
             x == WalkStart(id)
             D(f) == f = [i \in 0 .. Depth |-> IF i = 0 THEN x ELSE SizeTurn(types, f[i - 1])]
  <1>1. Depth \in Nat /\ UINT32_MAX \in Nat \ {0}
    BY BtfReadAssumption DEF Depth
  <1>2. x \in Walks
    BY <1>1 DEF Walks, WalkStart, minus_EINVAL
  <1>3. F \in [Nat \X Walks -> Walks] /\ \A n \in Nat, y \in Walks : F[<<n, y>>] = SizeTurn(types, y)
    BY SizeTurnStays
  <1> HIDE DEF F, x
  <1>4. PICK f \in [0 .. Depth -> Walks] : Steps(f, Depth, x, F)
    BY <1>1, <1>2, <1>3, StepsExist
  <1>5. f[0] = x /\ \A i \in 1 .. Depth : i - 1 \in 0 .. Depth /\ f[i] = SizeTurn(types, f[i - 1])
    <2>1. \A i \in 1 .. Depth : i - 1 \in 0 .. Depth /\ i \in Nat
      BY <1>1
    <2> QED BY <1>3, <1>4, <2>1 DEF Steps
  <1>6. D(f)
    <2>1. \A i \in 0 .. Depth : f[i] = IF i = 0 THEN x ELSE SizeTurn(types, f[i - 1])
      BY <1>1, <1>5
    <2> QED BY <2>1
  <1> DEFINE g == CHOOSE h : D(h)
  <1>7. D(g)
    <2> HIDE DEF D
    <2> QED BY <1>6
  <1>8. btf__resolve_size(types, id) = g[Depth].ret
    BY DEF btf__resolve_size, WalkStart, x, Depth
  <1> HIDE DEF g
  <1>9. g[0] = x /\ \A i \in 1 .. Depth : g[i] = SizeTurn(types, g[i - 1])
    BY <1>1, <1>7
  <1> HIDE DEF D
  <1>10. \A i \in 0 .. Depth : g[i] \in Walks
    <2> DEFINE T == {i \in Nat : i <= Depth => g[i] \in Walks}
    <2>1. 0 \in T
      BY <1>2, <1>9
    <2>2. ASSUME NEW i \in T PROVE i + 1 \in T
      <3> SUFFICES ASSUME i + 1 <= Depth PROVE g[i + 1] \in Walks
        OBVIOUS
      <3>1. i + 1 \in 1 .. Depth /\ (i + 1) - 1 = i /\ g[i] \in Walks
        BY <1>1
      <3>2. SizeTurn(types, g[i]) \in Walks
        BY <3>1, SizeTurnStays
      <3> QED BY <1>9, <3>1, <3>2
    <2> HIDE DEF T
    <2>3. T = Nat
      <3>1. T \in SUBSET Nat
        BY DEF T
      <3> QED BY <2>1, <2>2, <3>1, SetInduction
    <2> QED BY <1>1, <2>3 DEF T
  <1>11. g \in [0 .. Depth -> Walks]
    <2>1. \E e : g = [i \in 0 .. Depth |-> e[i]]
      <3>1. g = [i \in 0 .. Depth |-> IF i = 0 THEN x ELSE SizeTurn(types, g[i - 1])]
        BY <1>7 DEF D
      <3>2. g = [i \in 0 .. Depth |-> g[i]]
        BY <3>1
      <3> QED BY <3>2
    <2> QED BY <1>10, <2>1
  <1> QED BY <1>8, <1>9, <1>11 DEF SizeWalk, x

\* Where the references lead.
Places == [id : Nat, elems : Nat]
\* The reference path, step by step.
LEMMA PathIs ==
  ASSUME NEW types, IndexTyped(types), NEW id \in Nat
  PROVE  /\ Path(types, id) \in [0 .. Depth -> Places] /\ Path(types, id)[0] = [id |-> id, elems |-> 1]
         /\ \A k \in 1 .. Depth :
              LET t == TypeAt(types, Path(types, id), k - 1)
              IN Path(types, id)[k] = [id |-> t.type, elems |-> Path(types, id)[k - 1].elems * Dim(t)]
  <1> DEFINE N(s) == LET t == btf__type_by_id(types, s.id) IN [id |-> t.type, elems |-> s.elems * Dim(t)]
             F == [p \in Nat \X Places |-> N(p[2])]
             x == [id |-> id, elems |-> 1]
             D(f) == f = [i \in 0 .. Depth |-> IF i = 0 THEN x ELSE N(f[i - 1])]
  <1>1. Depth \in Nat
    BY BtfReadAssumption DEF Depth
  <1>2. x \in Places
    BY DEF Places
  <1>3. ASSUME NEW s \in Places PROVE N(s) \in Places
    <2>1. s.id \in Nat /\ s.elems \in Nat
      BY DEF Places
    <2>2. btf__type_by_id(types, s.id).type \in Nat /\ Dim(btf__type_by_id(types, s.id)) \in Nat
      BY <2>1, TypeOfId DEF Dim
    <2>3. s.elems * Dim(btf__type_by_id(types, s.id)) \in Nat
      BY <2>1, <2>2
    <2> QED BY <2>2, <2>3 DEF Places
  <1> HIDE DEF N
  <1>4. F \in [Nat \X Places -> Places] /\ \A n \in Nat, y \in Places : F[<<n, y>>] = N(y)
    BY <1>3
  <1> HIDE DEF F, x
  <1>5. PICK f \in [0 .. Depth -> Places] : Steps(f, Depth, x, F)
    BY <1>1, <1>2, <1>4, StepsExist
  <1>6. f[0] = x /\ \A i \in 1 .. Depth : i - 1 \in 0 .. Depth /\ f[i] = N(f[i - 1])
    <2>1. \A i \in 1 .. Depth : i - 1 \in 0 .. Depth /\ i \in Nat
      BY <1>1
    <2> QED BY <1>4, <1>5, <2>1 DEF Steps
  <1>7. D(f)
    <2>1. \A i \in 0 .. Depth : f[i] = IF i = 0 THEN x ELSE N(f[i - 1])
      BY <1>1, <1>6
    <2> QED BY <2>1
  <1> DEFINE g == CHOOSE h : D(h)
  <1>8. D(g)
    <2> HIDE DEF D
    <2> QED BY <1>7
  <1>9. Path(types, id) = g
    BY DEF Path, N, Dim, x, Depth
  <1> HIDE DEF g
  <1>10. g[0] = x /\ \A i \in 1 .. Depth : g[i] = N(g[i - 1])
    BY <1>1, <1>8
  <1>11. g = [i \in 0 .. Depth |-> g[i]]
    BY <1>8
  <1> HIDE DEF D
  <1>12. \A i \in 0 .. Depth : g[i] \in Places
    <2> DEFINE T == {i \in Nat : i <= Depth => g[i] \in Places}
    <2>1. 0 \in T
      BY <1>2, <1>10
    <2>2. ASSUME NEW i \in T PROVE i + 1 \in T
      <3> SUFFICES ASSUME i + 1 <= Depth PROVE g[i + 1] \in Places
        OBVIOUS
      <3>1. i + 1 \in 1 .. Depth /\ (i + 1) - 1 = i /\ g[i] \in Places
        BY <1>1
      <3> QED BY <1>3, <1>10, <3>1
    <2> HIDE DEF T
    <2>3. T = Nat
      <3>1. T \in SUBSET Nat
        BY DEF T
      <3> QED BY <2>1, <2>2, <3>1, SetInduction
    <2> QED BY <1>1, <2>3 DEF T
  <1> QED BY <1>9, <1>10, <1>11, <1>12 DEF N, TypeAt, x

Led(types, p, k) == \A j \in 0 .. k - 1 : LeadsOn(TypeAt(types, p, j))
Fits(p, k) == \A j \in 0 .. k : p[j].elems <= UINT32_MAX

\* A walk that has ended behind k references, and what it returned.
EndedAt(types, p, s, k) ==
  LET t == TypeAt(types, p, k)
      size == p[k].elems * SizeOfType(t)
  IN /\ Led(types, p, k) /\ Fits(p, k)
     /\ \/ HasSize(t) /\ s.ret = IF size > UINT32_MAX THEN minus_E2BIG ELSE size
        \/ LeadsOn(t) /\ p[k + 1].elems > UINT32_MAX /\ s.ret = minus_E2BIG
        \/ ~ HasSize(t) /\ ~ LeadsOn(t) /\ s.ret = minus_EINVAL

\* Where the walk is after i turns.
WalkIs(types, p, s, i) ==
  IF s.done THEN \E k \in 0 .. i - 1 : EndedAt(types, p, s, k)
  ELSE s = [id |-> p[i].id, nelems |-> p[i].elems, done |-> FALSE, ret |-> minus_EINVAL] /\ Led(types, p, i) /\ Fits(p, i)

\* Each turn of the walk is where the path is, or behind its end.
LEMMA SizeWalkIs ==
  ASSUME NEW types, IndexTyped(types), NEW id \in Nat, NEW f, SizeWalk(types, id, f), NEW p, p = Path(types, id)
  PROVE  \A i \in 0 .. Depth : WalkIs(types, p, f[i], i)
  <1>1. Depth \in Nat /\ UINT32_MAX \in Nat \ {0}
    BY BtfReadAssumption DEF Depth
  <1>2. /\ p \in [0 .. Depth -> Places] /\ p[0] = [id |-> id, elems |-> 1]
        /\ \A k \in 1 .. Depth :
             LET t == TypeAt(types, p, k - 1) IN p[k] = [id |-> t.type, elems |-> p[k - 1].elems * Dim(t)]
    BY PathIs
  <1>3. f \in [0 .. Depth -> Walks] /\ f[0] = WalkStart(id) /\ \A i \in 1 .. Depth : f[i] = SizeTurn(types, f[i - 1])
    BY DEF SizeWalk
  <1> DEFINE T == {i \in Nat : i <= Depth => WalkIs(types, p, f[i], i)}
  <1>4. 0 \in T
    <2>1. Led(types, p, 0)
      BY DEF Led
    <2>2. Fits(p, 0)
      BY <1>1, <1>2 DEF Fits
    <2>3. f[0] = [id |-> p[0].id, nelems |-> p[0].elems, done |-> FALSE, ret |-> minus_EINVAL]
      BY <1>2, <1>3 DEF WalkStart
    <2> QED BY <2>1, <2>2, <2>3 DEF WalkIs
  <1>5. ASSUME NEW i \in T PROVE i + 1 \in T
    <2> SUFFICES ASSUME i + 1 <= Depth PROVE WalkIs(types, p, f[i + 1], i + 1)
      OBVIOUS
    <2>1. i + 1 \in 1 .. Depth /\ (i + 1) - 1 = i /\ i \in 0 .. Depth /\ WalkIs(types, p, f[i], i)
      BY <1>1
    <2> DEFINE s == f[i]
               t == TypeAt(types, p, i)
               n == SizeTurn(types, s)
    <2>2. f[i + 1] = n /\ s \in Walks
      BY <1>3, <2>1
    <2>3. p[i] \in Places /\ p[i].elems \in Nat /\ p[i + 1] = [id |-> t.type, elems |-> p[i].elems * Dim(t)]
      <3>1. p[i] \in Places
        BY <1>2, <2>1
      <3> QED BY <1>2, <2>1, <3>1 DEF Places
    <2>4. CASE s.done
      <3>1. n = s
        <4>1. SizeTurn(types, s) = s
          <5> HIDE DEF s
          <5> QED BY <2>2, <2>4, SizeTurnStays
        <4> QED BY <4>1
      <3>2. PICK k \in 0 .. i - 1 : EndedAt(types, p, s, k)
        BY <2>1, <2>4 DEF WalkIs
      <3>3. k \in 0 .. (i + 1) - 1
        OBVIOUS
      <3> QED BY <2>2, <2>4, <3>1, <3>2, <3>3 DEF WalkIs
    <2>5. CASE ~ s.done
      <3>1. /\ s = [id |-> p[i].id, nelems |-> p[i].elems, done |-> FALSE, ret |-> minus_EINVAL]
            /\ Led(types, p, i) /\ Fits(p, i)
        BY <2>1, <2>5 DEF WalkIs
      <3>2. t = btf__type_by_id(types, s.id) /\ s.nelems = p[i].elems
        BY <3>1 DEF TypeAt
      <3> HIDE DEF s, t, n
      <3>3. /\ HasSize(t) => n = [s EXCEPT !.done = TRUE,
                                           !.ret = IF s.nelems * SizeOfType(t) > UINT32_MAX THEN minus_E2BIG
                                                   ELSE s.nelems * SizeOfType(t)]
            /\ LeadsOn(t) => n = IF s.nelems * Dim(t) > UINT32_MAX
                                 THEN [s EXCEPT !.done = TRUE, !.ret = minus_E2BIG]
                                 ELSE [s EXCEPT !.id = t.type, !.nelems = s.nelems * Dim(t)]
            /\ ~ HasSize(t) /\ ~ LeadsOn(t) => n = [s EXCEPT !.done = TRUE, !.ret = minus_EINVAL]
        <4>1. s \in Walks /\ ~ s.done /\ t = btf__type_by_id(types, s.id) /\ n = SizeTurn(types, s)
          BY <2>2, <2>5, <3>2 DEF n
        <4> HIDE DEF s, t, n
        <4>2. TurnAt(t, s, SizeTurn(types, s))
          BY <4>1, SizeTurnIs
        <4> QED BY <4>1, <4>2 DEF TurnAt
      <3>4. i \in 0 .. (i + 1) - 1
        OBVIOUS
      <3>5. \A ret : [s EXCEPT !.done = TRUE, !.ret = ret].done /\ [s EXCEPT !.done = TRUE, !.ret = ret].ret = ret
        BY <2>2 DEF Walks
      <3>6. CASE HasSize(t)
        <4>1. n.done /\ n.ret = IF s.nelems * SizeOfType(t) > UINT32_MAX THEN minus_E2BIG ELSE s.nelems * SizeOfType(t)
          BY <3>3, <3>5, <3>6
        <4>2. EndedAt(types, p, n, i)
          BY <3>1, <3>2, <3>6, <4>1 DEF EndedAt, t
        <4> QED BY <2>2, <3>4, <4>1, <4>2 DEF WalkIs
      <3>7. CASE ~ HasSize(t) /\ ~ LeadsOn(t)
        <4>1. n.done /\ n.ret = minus_EINVAL
          BY <3>3, <3>5, <3>7
        <4>2. EndedAt(types, p, n, i)
          BY <3>1, <3>7, <4>1 DEF EndedAt, t
        <4> QED BY <2>2, <3>4, <4>1, <4>2 DEF WalkIs
      <3>8. CASE LeadsOn(t) /\ s.nelems * Dim(t) > UINT32_MAX
        <4>1. n.done /\ n.ret = minus_E2BIG
          BY <3>3, <3>5, <3>8
        <4>2. p[i + 1].elems > UINT32_MAX
          BY <2>3, <3>2, <3>8
        <4>3. EndedAt(types, p, n, i)
          BY <3>1, <3>8, <4>1, <4>2 DEF EndedAt, t
        <4> QED BY <2>2, <3>4, <4>1, <4>3 DEF WalkIs
      <3>9. CASE LeadsOn(t) /\ ~ s.nelems * Dim(t) > UINT32_MAX
        <4> DEFINE e == s.nelems * Dim(t)
        <4>0. e \in Nat
          <5>1. s.id \in Nat
            BY <2>2 DEF Walks
          <5>2. Dim(t) \in Nat
            BY <3>2, <5>1, TypeOfId DEF Dim
          <5> QED BY <2>3, <3>2, <5>2
        <4>1. n = [s EXCEPT !.id = t.type, !.nelems = e] /\ ~ e > UINT32_MAX
          BY <3>3, <3>9
        <4>2. p[i + 1].id = t.type /\ p[i + 1].elems = e
          BY <2>3, <3>2
        <4> HIDE DEF e
        <4>3. n = [id |-> p[i + 1].id, nelems |-> p[i + 1].elems, done |-> FALSE, ret |-> minus_EINVAL]
          BY <3>1, <4>1, <4>2
        <4>4. Led(types, p, i + 1)
          <5>1. \A j \in 0 .. (i + 1) - 1 : j \in 0 .. i - 1 \/ j = i
            OBVIOUS
          <5> QED BY <3>1, <3>9, <5>1 DEF Led, t
        <4>5. Fits(p, i + 1)
          <5>1. \A j \in 0 .. i + 1 : j \in 0 .. i \/ j = i + 1
            OBVIOUS
          <5>2. p[i + 1].elems <= UINT32_MAX
            BY <1>1, <4>0, <4>1, <4>2
          <5> QED BY <3>1, <5>1, <5>2 DEF Fits
        <4>6. ~ n.done
          BY <4>3
        <4> QED BY <2>2, <4>3, <4>4, <4>5, <4>6 DEF WalkIs
      <3> QED BY <3>6, <3>7, <3>8, <3>9
    <2> QED BY <2>4, <2>5
  <1> HIDE DEF T
  <1>6. T = Nat
    <2>1. T \in SUBSET Nat
      BY DEF T
    <2> QED BY <1>4, <1>5, <2>1, SetInduction
  <1> QED BY <1>1, <1>6 DEF T

\* The answer about a size is the one that C gives.
LEMMA SizeIsExact ==
  ASSUME NEW types, IndexTyped(types), types = bt_types, NEW id \in Nat, bt_asked.id = id, bt_answer = btf__resolve_size(types, id)
  PROVE  SizesAreExact
  <1> DEFINE p == Path(types, id)
             within == {k \in 0 .. Depth - 1 : HasSizeAt(types, id, k)}
  <1>1. Depth \in Nat \ {0} /\ UINT32_MAX \in Nat \ {0}
    BY BtfReadAssumption DEF Depth
  <1>2. PICK f : SizeWalk(types, id, f) /\ bt_answer = f[Depth].ret
    BY SizeLoop
  <1> DEFINE s == f[Depth]
  <1>3. WalkIs(types, p, s, Depth)
    BY <1>1, <1>2, SizeWalkIs
  <1>4. \A k \in 0 .. Depth - 1 :
          /\ HasSizeAt(types, id, k) <=> HasSize(TypeAt(types, p, k)) /\ Led(types, p, k)
          /\ ExactSize(types, id, k) = p[k].elems * SizeOfType(TypeAt(types, p, k))
    BY DEF HasSizeAt, HasSize, TypeAt, Led, ExactSize, SizeOfType
  <1>5. \A k \in 0 .. Depth - 1 : ExactSize(types, id, k) \in Nat
    <2> SUFFICES ASSUME NEW k \in 0 .. Depth - 1 PROVE ExactSize(types, id, k) \in Nat
      OBVIOUS
    <2>1. p[k] \in Places
      <3>1. p \in [0 .. Depth -> Places]
        BY PathIs
      <3>2. k \in 0 .. Depth
        BY <1>1
      <3> HIDE DEF p
      <3> QED BY <3>1, <3>2
    <2>2. p[k].id \in Nat /\ p[k].elems \in Nat
      BY <2>1 DEF Places
    <2>3. SizeOfType(TypeAt(types, p, k)) \in Nat
      BY <2>2, TypeOfId DEF TypeAt, SizeOfType
    <2>4. p[k].elems * SizeOfType(TypeAt(types, p, k)) \in Nat
      BY <2>2, <2>3
    <2> QED BY <1>4, <2>4
  <1>6. \A t : ~ (HasSize(t) /\ LeadsOn(t))
    BY DEF HasSize, LeadsOn, Sized, Modifiers
  <1>7. minus_EINVAL = -22 /\ minus_E2BIG = -7
    BY DEF minus_EINVAL, minus_E2BIG
  <1> DEFINE Fitting(k) == (\A j \in 0 .. k : Path(types, id)[j].elems <= UINT32_MAX) /\ ExactSize(types, id, k) <= UINT32_MAX
             Right == /\ \/ bt_answer \in {minus_EINVAL, minus_E2BIG}
                         \/ bt_answer >= 0 /\ \E k \in within : bt_answer = ExactSize(types, id, k)
                      /\ \A k \in within : /\ bt_answer # minus_EINVAL
                                           /\ Fitting(k) => bt_answer # minus_E2BIG
  <1> SUFFICES Right
    BY DEF SizesAreExact, Depth
  <1> HIDE DEF s
  <1>8. CASE ~ s.done
    <2>1. s.ret = minus_EINVAL /\ Led(types, p, Depth)
      BY <1>3, <1>8 DEF WalkIs
    <2>2. within = {}
      <3> SUFFICES ASSUME NEW k \in 0 .. Depth - 1, HasSizeAt(types, id, k) PROVE FALSE
        OBVIOUS
      <3>1. LeadsOn(TypeAt(types, p, k))
        BY <2>1 DEF Led
      <3> QED BY <1>4, <1>6, <3>1
    <2> QED BY <1>2, <2>1, <2>2 DEF s
  <1>9. CASE s.done
    <2>1. PICK k \in 0 .. Depth - 1 : EndedAt(types, p, s, k)
      BY <1>3, <1>9 DEF WalkIs
    <2> DEFINE t == TypeAt(types, p, k)
    <2>2. Led(types, p, k) /\ Fits(p, k)
      BY <2>1 DEF EndedAt
    <2>3. \A j \in 0 .. Depth - 1 : HasSizeAt(types, id, j) /\ ~ LeadsOn(t) => j = k
      <3> SUFFICES ASSUME NEW j \in 0 .. Depth - 1, HasSizeAt(types, id, j), ~ LeadsOn(t) PROVE j = k
        OBVIOUS
      <3>1. HasSize(TypeAt(types, p, j)) /\ Led(types, p, j)
        BY <1>4
      <3>2. ~ j < k
        <4>1. j < k => j \in 0 .. k - 1
          BY <1>1
        <4> QED BY <1>6, <2>2, <3>1, <4>1 DEF Led
      <3>3. ~ k < j
        <4>1. k < j => k \in 0 .. j - 1
          BY <1>1
        <4> QED BY <3>1, <4>1 DEF Led
      <3> QED BY <1>1, <3>2, <3>3
    <2>4. CASE HasSize(t)
      <3> DEFINE e == ExactSize(types, id, k)
      <3>1. e = p[k].elems * SizeOfType(t) /\ e \in Nat /\ k \in within
        BY <1>4, <1>5, <2>2, <2>4
      <3>2. ~ LeadsOn(t)
        BY <1>6, <2>4
      <3>3. s.ret = IF e > UINT32_MAX THEN minus_E2BIG ELSE e
        <4> HIDE DEF e
        <4> QED BY <2>1, <2>4, <3>1, <3>2 DEF EndedAt
      <3>4. bt_answer = IF e > UINT32_MAX THEN minus_E2BIG ELSE e
        BY <1>2, <3>3 DEF s
      <3>5. within = {k}
        BY <2>3, <3>1, <3>2
      <3> HIDE DEF e, within
      <3>6. CASE e > UINT32_MAX
        <4>1. bt_answer = minus_E2BIG /\ bt_answer # minus_EINVAL
          BY <1>7, <3>4, <3>6
        <4>2. ~ Fitting(k)
          <5>1. ~ e <= UINT32_MAX
            BY <1>1, <3>1, <3>6
          <5> QED BY <5>1 DEF e
        <4> HIDE DEF Fitting
        <4> QED BY <3>5, <4>1, <4>2
      <3>7. CASE ~ e > UINT32_MAX
        <4>1. bt_answer = e
          BY <3>4, <3>7
        <4>2. bt_answer >= 0 /\ bt_answer # minus_EINVAL /\ bt_answer # minus_E2BIG
          BY <1>7, <3>1, <4>1
        <4> HIDE DEF Fitting
        <4> QED BY <3>1, <4>1, <4>2, <3>5 DEF e
      <3> QED BY <3>6, <3>7
    <2>5. CASE LeadsOn(t)
      <3>1. p[k + 1].elems > UINT32_MAX /\ bt_answer = minus_E2BIG
        BY <1>2, <1>6, <2>1, <2>5 DEF EndedAt, s
      <3>2. \A j \in within : ~ Fitting(j)
        <4> SUFFICES ASSUME NEW j \in 0 .. Depth - 1, HasSizeAt(types, id, j), Fitting(j) PROVE FALSE
          OBVIOUS
        <4>1. HasSize(TypeAt(types, p, j)) /\ Led(types, p, j)
          BY <1>4
        <4>2. ~ j < k
          <5>1. j < k => j \in 0 .. k - 1
            BY <1>1
          <5> QED BY <1>6, <2>2, <4>1, <5>1 DEF Led
        <4>3. j # k
          BY <1>6, <2>5, <4>1
        <4>4. k + 1 \in 0 .. j
          BY <1>1, <4>2, <4>3
        <4>5. p[k + 1].elems <= UINT32_MAX
          BY <4>4
        <4>6. k + 1 \in 0 .. Depth
          BY <1>1
        <4>7. p[k + 1] \in Places
          <5>1. p \in [0 .. Depth -> Places]
            BY PathIs
          <5> HIDE DEF p
          <5> QED BY <4>6, <5>1
        <4>8. p[k + 1].elems \in Nat
          BY <4>7 DEF Places
        <4> QED BY <1>1, <3>1, <4>5, <4>8
      <3> HIDE DEF Fitting, within
      <3> QED BY <1>7, <3>1, <3>2
    <2>6. CASE ~ HasSize(t) /\ ~ LeadsOn(t)
      <3>1. bt_answer = minus_EINVAL
        BY <1>2, <2>1, <2>6 DEF EndedAt, s
      <3>2. within = {}
        <4> SUFFICES ASSUME NEW j \in 0 .. Depth - 1, HasSizeAt(types, id, j) PROVE FALSE
          OBVIOUS
        <4>1. j = k
          BY <2>3, <2>6
        <4> QED BY <1>4, <2>6, <4>1
      <3> QED BY <3>1, <3>2
    <2> QED BY <2>4, <2>5, <2>6
  <1> QED BY <1>8, <1>9

\* Nothing but modifiers on the way.
ModifiersTo(types, p, k) == \A j \in 0 .. k - 1 : TypeAt(types, p, j).kind \in Modifiers

\* Behind modifiers the size is the same.
LEMMA SizeBehindModifiers ==
  ASSUME NEW types, IndexTyped(types), NEW id \in Nat, NEW p, p = Path(types, id), NEW d \in 0 .. Depth - 1, ModifiersTo(types, p, d)
  PROVE  \/ btf__resolve_size(types, p[d].id) = btf__resolve_size(types, id)
         \/ btf__resolve_size(types, id) = minus_EINVAL
  <1>1. Depth \in Nat /\ UINT32_MAX \in Nat \ {0}
    BY BtfReadAssumption DEF Depth
  <1>2. /\ p \in [0 .. Depth -> Places] /\ p[0] = [id |-> id, elems |-> 1]
        /\ \A k \in 1 .. Depth :
             LET t == TypeAt(types, p, k - 1) IN p[k] = [id |-> t.type, elems |-> p[k - 1].elems * Dim(t)]
    BY PathIs
  <1>3. \A k \in 0 .. Depth : p[k] \in Places /\ p[k].id \in Nat
    BY <1>2 DEF Places
  <1>4. d \in 0 .. Depth /\ Depth - d \in Nat
    BY <1>1
  <1>5. PICK f : SizeWalk(types, id, f) /\ btf__resolve_size(types, id) = f[Depth].ret
    BY SizeLoop
  <1>6. PICK g : SizeWalk(types, p[d].id, g) /\ btf__resolve_size(types, p[d].id) = g[Depth].ret
    BY <1>3, <1>4, SizeLoop
  <1>7. /\ f \in [0 .. Depth -> Walks] /\ f[0] = WalkStart(id) /\ \A i \in 1 .. Depth : f[i] = SizeTurn(types, f[i - 1])
        /\ g \in [0 .. Depth -> Walks] /\ g[0] = WalkStart(p[d].id) /\ \A i \in 1 .. Depth : g[i] = SizeTurn(types, g[i - 1])
    BY <1>5, <1>6 DEF SizeWalk
  <1> DEFINE A == {i \in Nat : i <= d => f[i] = WalkStart(p[i].id)}
             B == {m \in Nat : d + m <= Depth => f[d + m] = g[m]}
             C == {m \in Nat : g[Depth - d].done /\ Depth - d + m <= Depth => g[Depth - d + m] = g[Depth - d]}
  <1>8. A = Nat
    <2>1. 0 \in A
      BY <1>2, <1>7
    <2>2. ASSUME NEW i \in A PROVE i + 1 \in A
      <3> SUFFICES ASSUME i + 1 <= d PROVE f[i + 1] = WalkStart(p[i + 1].id)
        OBVIOUS
      <3> DEFINE w == WalkStart(p[i].id)
                 t == TypeAt(types, p, i)
      <3>1. i + 1 \in 1 .. Depth /\ (i + 1) - 1 = i /\ i \in 0 .. Depth /\ i \in 0 .. d - 1 /\ f[i] = w
        BY <1>1
      <3>2. f[i + 1] = SizeTurn(types, w) /\ p[i + 1].id = t.type /\ t.kind \in Modifiers /\ w \in Walks
        <4>1. f[i + 1] = SizeTurn(types, w)
          BY <1>7, <3>1
        <4>2. p[i + 1] = [id |-> t.type, elems |-> p[i].elems * Dim(t)]
          BY <1>2, <3>1
        <4>3. t.kind \in Modifiers
          BY <3>1 DEF ModifiersTo
        <4>4. f[i] \in Walks
          BY <1>7, <3>1
        <4> QED BY <3>1, <4>1, <4>2, <4>3, <4>4
      <3>3. t = btf__type_by_id(types, w.id) /\ ~ w.done /\ w.nelems = 1 /\ LeadsOn(t) /\ Dim(t) = 1
        BY <3>2 DEF WalkStart, TypeAt, LeadsOn, Dim, Modifiers
      <3> HIDE DEF t
      <3>4. SizeTurn(types, w) = [w EXCEPT !.id = t.type, !.nelems = 1]
        <4>1. SizeTurn(types, w) = IF w.nelems * Dim(t) > UINT32_MAX THEN [w EXCEPT !.done = TRUE, !.ret = minus_E2BIG]
                            ELSE [w EXCEPT !.id = t.type, !.nelems = w.nelems * Dim(t)]
          <5> HIDE DEF w
          <5>1. w \in Walks /\ ~ w.done /\ LeadsOn(t) /\ t = btf__type_by_id(types, w.id)
            BY <3>2, <3>3
          <5>2. TurnAt(t, w, SizeTurn(types, w))
            BY <5>1, SizeTurnIs
          <5> QED BY <5>1, <5>2 DEF TurnAt
        <4>2. w.nelems * Dim(t) = 1 /\ ~ 1 > UINT32_MAX
          <5> HIDE DEF w
          <5> QED BY <1>1, <3>3
        <4> HIDE DEF w
        <4> QED BY <4>1, <4>2
      <3> DEFINE n == SizeTurn(types, w)
      <3>5. w.ret = minus_EINVAL
        BY DEF WalkStart
      <3> HIDE DEF w
      <3>6. n.id = t.type /\ n.nelems = 1 /\ n.done = FALSE /\ n.ret = minus_EINVAL
        <4>1. w.done = FALSE /\ n = [w EXCEPT !.id = t.type, !.nelems = 1]
          BY <3>2, <3>3, <3>4 DEF Walks
        <4> HIDE DEF n
        <4> QED BY <3>2, <3>5, <4>1 DEF Walks
      <3>7. n \in Walks
        BY <3>2, SizeTurnStays
      <3> HIDE DEF n
      <3>8. n = WalkStart(t.type)
        BY <3>6, <3>7 DEF Walks, WalkStart
      <3> QED BY <3>2, <3>8 DEF n
    <2> HIDE DEF A
    <2>3. A \in SUBSET Nat
      BY DEF A
    <2> QED BY <2>1, <2>2, <2>3, SetInduction
  <1>9. B = Nat
    <2>1. 0 \in B
      <3>1. d \in A
        BY <1>8
      <3> HIDE DEF B
      <3> QED BY <1>7, <3>1 DEF B
    <2>2. ASSUME NEW m \in B PROVE m + 1 \in B
      <3> SUFFICES ASSUME d + (m + 1) <= Depth PROVE f[d + (m + 1)] = g[m + 1]
        OBVIOUS
      <3>1. /\ d + (m + 1) \in 1 .. Depth /\ m + 1 \in 1 .. Depth /\ d + (m + 1) - 1 = d + m /\ (m + 1) - 1 = m
            /\ f[d + m] = g[m]
        BY <1>1
      <3>2. f[d + (m + 1)] = SizeTurn(types, f[d + (m + 1) - 1]) /\ g[m + 1] = SizeTurn(types, g[(m + 1) - 1])
        BY <1>7, <3>1
      <3>3. f[d + (m + 1) - 1] = f[d + m] /\ g[(m + 1) - 1] = g[m]
        BY <3>1
      <3>4. f[d + (m + 1) - 1] = g[(m + 1) - 1]
        BY <3>1, <3>3
      <3> QED BY <3>2, <3>4
    <2> HIDE DEF B
    <2>3. B \in SUBSET Nat
      BY DEF B
    <2> QED BY <2>1, <2>2, <2>3, SetInduction
  <1> DEFINE l == Depth - d
  <1>10. C = Nat
    <2>1. 0 \in C
      BY <1>4
    <2>2. ASSUME NEW m \in C PROVE m + 1 \in C
      <3> SUFFICES ASSUME g[l].done, l + (m + 1) <= Depth PROVE g[l + (m + 1)] = g[l]
        OBVIOUS
      <3>1. /\ l + (m + 1) \in 1 .. Depth /\ l + (m + 1) - 1 = l + m /\ l \in 0 .. Depth /\ g[l + m] = g[l]
        BY <1>1, <1>4
      <3>2. g[l] \in Walks
        BY <1>7, <3>1
      <3>3. SizeTurn(types, g[l]) = g[l]
        BY <3>2, SizeTurnStays
      <3> QED BY <1>7, <3>1, <3>3
    <2> HIDE DEF C
    <2>3. C \in SUBSET Nat
      BY DEF C
    <2> QED BY <2>1, <2>2, <2>3, SetInduction
  <1>11. f[Depth] = g[l]
    <2>1. l \in B /\ d + l = Depth /\ d + l <= Depth
      BY <1>1, <1>4, <1>9
    <2> HIDE DEF l
    <2>2. f[d + l] = g[l]
      BY <2>1 DEF B
    <2> QED BY <2>1, <2>2
  <1>12. CASE g[l].done
    <2>1. l + d = Depth /\ l + d <= Depth
      BY <1>1, <1>4
    <2>2. g[l + d] = g[l]
      <3>1. d \in Nat
        BY <1>1
      <3>2. d \in C
        <4> HIDE DEF C
        <4> QED BY <1>10, <3>1
      <3> QED BY <1>12, <2>1, <3>2
    <2> HIDE DEF l
    <2>3. g[Depth] = f[Depth]
      BY <1>11, <2>1, <2>2
    <2> QED BY <1>5, <1>6, <2>3
  <1>13. CASE ~ g[l].done
    <2>1. WalkIs(types, p, f[Depth], Depth)
      BY <1>1, <1>5, SizeWalkIs
    <2>2. f[Depth].ret = minus_EINVAL
      BY <1>11, <1>13, <2>1 DEF WalkIs
    <2> QED BY <1>5, <2>2
  <1> QED BY <1>12, <1>13

\* The walk of btf__resolve_type.
Stops == [id : Nat, depth : Nat]
\* After i turns: on the path, at its first type that is no modifier if that is nearer.
StopIs(types, p, s, i) ==
  /\ s.depth \in 0 .. i /\ s.id = p[s.depth].id /\ ModifiersTo(types, p, s.depth)
  /\ s.depth # i => TypeAt(types, p, s.depth).kind \notin Modifiers

\* The loop ends there.
LEMMA TypeLoop ==
  ASSUME NEW types, IndexTyped(types), NEW id \in Nat, NEW p, p = Path(types, id)
  PROVE  \E s \in Stops :
           /\ StopIs(types, p, s, Depth)
           /\ btf__resolve_type(types, id) = IF s.depth = Depth \/ btf_type_is_void_or_null(btf__type_by_id(types, s.id))
                                      THEN minus_EINVAL ELSE s.id
  <1> DEFINE F == [q \in Nat \X Stops |-> TypeTurn(types, q[2])]
             x == [id |-> id, depth |-> 0]
             D(f) == f = [i \in 0 .. Depth |-> IF i = 0 THEN x ELSE TypeTurn(types, f[i - 1])]
  <1>1. Depth \in Nat \ {0}
    BY BtfReadAssumption DEF Depth
  <1>2. /\ p \in [0 .. Depth -> Places] /\ p[0] = [id |-> id, elems |-> 1]
        /\ \A k \in 1 .. Depth :
             LET t == TypeAt(types, p, k - 1) IN p[k] = [id |-> t.type, elems |-> p[k - 1].elems * Dim(t)]
    BY PathIs
  <1>3. x \in Stops
    BY DEF Stops
  <1>4. ASSUME NEW s \in Stops PROVE TypeTurn(types, s) \in Stops
    <2>1. s.id \in Nat /\ s.depth \in Nat
      BY DEF Stops
    <2>2. btf__type_by_id(types, s.id).type \in Nat /\ s.depth + 1 \in Nat
      BY <2>1, TypeOfId
    <2> QED BY <2>2 DEF TypeTurn, Stops
  <1>5. F \in [Nat \X Stops -> Stops] /\ \A n \in Nat, y \in Stops : F[<<n, y>>] = TypeTurn(types, y)
    BY <1>4
  <1> HIDE DEF F, x
  <1>6. PICK f \in [0 .. Depth -> Stops] : Steps(f, Depth, x, F)
    BY <1>1, <1>3, <1>5, StepsExist
  <1>7. f[0] = x /\ \A i \in 1 .. Depth : i - 1 \in 0 .. Depth /\ f[i] = TypeTurn(types, f[i - 1])
    <2>1. \A i \in 1 .. Depth : i - 1 \in 0 .. Depth /\ i \in Nat
      BY <1>1
    <2> QED BY <1>5, <1>6, <2>1 DEF Steps
  <1>8. D(f)
    <2>1. \A i \in 0 .. Depth : f[i] = IF i = 0 THEN x ELSE TypeTurn(types, f[i - 1])
      BY <1>1, <1>7
    <2> QED BY <2>1
  <1> DEFINE g == CHOOSE h : D(h)
  <1>9. D(g)
    <2> HIDE DEF D
    <2> QED BY <1>8
  <1>10. btf__resolve_type(types, id) = IF g[Depth].depth = Depth \/ btf_type_is_void_or_null(btf__type_by_id(types, g[Depth].id))
                                 THEN minus_EINVAL ELSE g[Depth].id
    BY DEF btf__resolve_type, x, Depth
  <1> HIDE DEF g
  <1>11. g[0] = x /\ \A i \in 1 .. Depth : g[i] = TypeTurn(types, g[i - 1])
    BY <1>1, <1>9
  <1> HIDE DEF D
  <1> DEFINE T == {i \in Nat : i <= Depth => g[i] \in Stops /\ StopIs(types, p, g[i], i)}
  <1>12. 0 \in T
    <2>1. g[0].depth = 0 /\ g[0].id = id /\ p[0].id = id /\ g[0] \in Stops
      BY <1>2, <1>3, <1>11 DEF x
    <2> QED BY <2>1 DEF StopIs, ModifiersTo
  <1>13. ASSUME NEW i \in T PROVE i + 1 \in T
    <2> SUFFICES ASSUME i + 1 <= Depth PROVE g[i + 1] \in Stops /\ StopIs(types, p, g[i + 1], i + 1)
      OBVIOUS
    <2> DEFINE s == g[i]
    <2>1. i + 1 \in 1 .. Depth /\ (i + 1) - 1 = i /\ s \in Stops /\ StopIs(types, p, s, i) /\ g[i + 1] = TypeTurn(types, s)
      BY <1>1, <1>11
    <2> HIDE DEF s
    <2>2. /\ s.depth \in 0 .. i /\ s.id = p[s.depth].id /\ ModifiersTo(types, p, s.depth)
          /\ s.depth # i => TypeAt(types, p, s.depth).kind \notin Modifiers
      BY <2>1 DEF StopIs
    <2> DEFINE d == s.depth
               t == TypeAt(types, p, d)
    <2>3. d \in Nat /\ t = btf__type_by_id(types, s.id) /\ TypeTurn(types, s) \in Stops
      BY <1>4, <2>1, <2>2 DEF TypeAt
    <2>4. CASE t.kind \in Modifiers
      <3>1. d = i
        BY <2>2, <2>4
      <3>2. TypeTurn(types, s) = [id |-> t.type, depth |-> d + 1]
        BY <2>3, <2>4 DEF TypeTurn
      <3>3. p[d + 1] = [id |-> t.type, elems |-> p[d].elems * Dim(t)]
        BY <1>2, <2>1, <3>1
      <3>4. ModifiersTo(types, p, d + 1)
        <4>1. \A j \in 0 .. (d + 1) - 1 : j \in 0 .. d - 1 \/ j = d
          BY <2>3
        <4> QED BY <2>2, <2>4, <4>1 DEF ModifiersTo
      <3>5. d + 1 \in 0 .. i + 1 /\ d + 1 = i + 1 /\ p[d + 1].id = t.type
        BY <2>3, <3>1, <3>3
      <3> HIDE DEF t, d
      <3> QED BY <2>1, <2>3, <3>2, <3>4, <3>5 DEF StopIs
    <2>5. CASE t.kind \notin Modifiers
      <3>1. TypeTurn(types, s) = s
        BY <2>3, <2>5 DEF TypeTurn
      <3>2. s.depth \in 0 .. i + 1
        BY <2>2
      <3> QED BY <2>1, <2>2, <2>5, <3>1, <3>2 DEF StopIs
    <2> QED BY <2>4, <2>5
  <1> HIDE DEF T
  <1>14. T = Nat
    <2>1. T \in SUBSET Nat
      BY DEF T
    <2> QED BY <1>12, <1>13, <2>1, SetInduction
  <1>15. Depth \in T /\ Depth <= Depth
    BY <1>1, <1>14
  <1>16. g[Depth] \in Stops /\ StopIs(types, p, g[Depth], Depth)
    BY <1>15 DEF T
  <1> QED BY <1>10, <1>16

\* The two resolving functions agree.
LEMMA TypeAndSizeAgree ==
  ASSUME NEW types, IndexTyped(types), types = bt_types, NEW id \in Nat, bt_asked.id = id, bt_answer = btf__resolve_type(types, id)
  PROVE  ResolvesAgree
  <1> DEFINE p == Path(types, id)
  <1>1. Depth \in Nat \ {0}
    BY BtfReadAssumption DEF Depth
  <1>2. PICK s \in Stops :
          /\ StopIs(types, p, s, Depth)
          /\ bt_answer = IF s.depth = Depth \/ btf_type_is_void_or_null(btf__type_by_id(types, s.id))
                         THEN minus_EINVAL ELSE s.id
    BY TypeLoop
  <1> SUFFICES ASSUME bt_answer # minus_EINVAL
               PROVE  /\ btf__type_by_id(types, bt_answer).kind \notin Modifiers \cup {"void", "fwd", "null"}
                      /\ \/ btf__resolve_size(types, bt_answer) = btf__resolve_size(types, bt_asked.id)
                         \/ btf__resolve_size(types, bt_asked.id) = minus_EINVAL
    BY DEF ResolvesAgree
  <1>3. /\ bt_answer = s.id /\ s.depth # Depth /\ ~ btf_type_is_void_or_null(btf__type_by_id(types, s.id))
        /\ s.depth \in 0 .. Depth /\ s.id = p[s.depth].id /\ ModifiersTo(types, p, s.depth)
        /\ TypeAt(types, p, s.depth).kind \notin Modifiers
    BY <1>2 DEF StopIs
  <1>4. s.depth \in 0 .. Depth - 1
    BY <1>1, <1>3
  <1>5. btf__type_by_id(types, bt_answer).kind \notin Modifiers \cup {"void", "fwd", "null"}
    BY <1>3 DEF TypeAt, btf_type_is_void_or_null
  <1> HIDE DEF p
  <1>6. \/ btf__resolve_size(types, p[s.depth].id) = btf__resolve_size(types, id)
        \/ btf__resolve_size(types, id) = minus_EINVAL
    BY <1>3, <1>4, SizeBehindModifiers DEF p
  <1> QED BY <1>3, <1>5, <1>6

\* What the index may hold: descriptors of the file, and what is made of the bytes behind them.
KnownTypes == {VoidType, [VoidType EXCEPT !.kind = "ptr"]} \cup {bt_data.types[k] : k \in DOMAIN bt_data.types}

\* The index holds void and the first c types of the file; nothing if there are none.
IndexedUpTo(c) ==
  IF c = 0 THEN bt_types = <<>>
  ELSE Len(bt_types) = c + 1 /\ bt_types[1] = VoidType /\ \A k \in 1 .. c : bt_types[k + 1] = bt_data.types[k]
\* So far the types are read one after the other.
ReadInOrder ==
  \E c \in 0 .. Len(bt_data.types) : bt_next = Sums(DescLens(bt_data.types))[c] /\ IndexedUpTo(c)

\* The invariant.
BtInv ==
  /\ bt_data.types \in BtfSections
  /\ bt_data.sound => /\ bt_data.str_off = TypesLen(bt_data.types) /\ bt_data.size = TypesLen(bt_data.types) + 2
                      /\ bt_data.str_len = 2
  /\ bt_types \in Seq(KnownTypes) /\ bt_size \in Nat /\ bt_next \in Nat
  /\ bt_types # <<>> => Len(bt_types) <= bt_size
  /\ bt_pc \in {"hdr", "types", "ready", "done"} /\ (bt_pc # "ready" => bt_ret # "0" /\ bt_asked = Nothing)
  /\ bt_pc = "hdr" => bt_types = <<>> /\ bt_next = 0 /\ bt_strayed = FALSE
  /\ bt_data.sound => bt_strayed = FALSE /\ ReadInOrder
  /\ bt_data.sound /\ bt_pc = "types" => TypesLen(bt_data.types) > 0
  /\ bt_data.sound /\ bt_ret = "0" => bt_types = <<VoidType>> \o bt_data.types
  /\ bt_asked.call = "size" => bt_asked.id \in Nat /\ bt_answer = btf__resolve_size(bt_types, bt_asked.id)
  /\ bt_asked.call = "type" => bt_asked.id \in Nat /\ bt_answer = btf__resolve_type(bt_types, bt_asked.id)

\* A descriptor's length is a number, or that of a kind that is not known.
LEMMA SizeOfDescriptor ==
  ASSUME NEW t, t.vlen \in Nat
  PROVE  btf_type_size(t) \in Int /\ btf_type_size(t) >= -1 /\ (btf_type_size(t) >= 0 => btf_type_size(t) >= 3)
  <1>1. t.vlen \in Nat
    OBVIOUS
  <1> QED BY <1>1 DEF btf_type_size

\* The descriptors of a file take at least three words each.
LEMMA DescLensAre ==
  ASSUME NEW types \in BtfSections
  PROVE  /\ types \in Seq([kind : STRING, name : STRING, type : Nat, n : Nat, vlen : Nat])
         /\ Len(types) \in Nat /\ DOMAIN types = 1 .. Len(types)
         /\ DescLens(types) \in Seq(Nat) /\ Len(DescLens(types)) = Len(types)
         /\ \A k \in 1 .. Len(types) :
              /\ types[k].type \in Nat /\ types[k].n \in Nat /\ types[k].vlen \in Nat
              /\ DescLens(types)[k] >= 3
              /\ btf_type_size(types[k]) >= 0 => DescLens(types)[k] = btf_type_size(types[k])
         /\ TypesLen(types) \in Nat /\ TypesLen(types) = Sums(DescLens(types))[Len(types)]
  <1>1. types \in Seq([kind : STRING, name : STRING, type : Nat, n : Nat, vlen : Nat])
    BY BtfReadAssumption
  <1>2. Len(types) \in Nat /\ DOMAIN types = 1 .. Len(types)
    BY <1>1
  <1>3. ASSUME NEW k \in 1 .. Len(types)
        PROVE  /\ types[k].type \in Nat /\ types[k].n \in Nat /\ types[k].vlen \in Nat
               /\ btf_type_size(types[k]) \in Int
               /\ btf_type_size(types[k]) >= 0 => btf_type_size(types[k]) >= 3
    <2>1. types[k].type \in Nat /\ types[k].n \in Nat /\ types[k].vlen \in Nat
      <3> DEFINE D == [kind : STRING, name : STRING, type : Nat, n : Nat, vlen : Nat]
      <3>1. types \in Seq(D)
        BY <1>1
      <3>2. \A t \in D : t.type \in Nat /\ t.n \in Nat /\ t.vlen \in Nat
        OBVIOUS
      <3> HIDE DEF D
      <3>3. types[k] \in D
        BY <3>1
      <3> QED BY <3>2, <3>3
    <2> QED BY <2>1, SizeOfDescriptor
  <1> DEFINE d == DescLens(types)
  <1>4. DOMAIN d = 1 .. Len(types) /\ \A k \in 1 .. Len(types) :
           d[k] = IF btf_type_size(types[k]) < 0 THEN 3 ELSE btf_type_size(types[k])
    BY <1>2 DEF DescLens
  <1>5. d = [k \in 1 .. Len(types) |-> d[k]]
    BY <1>2 DEF DescLens
  <1> HIDE DEF d
  <1>6. \A k \in 1 .. Len(types) : /\ d[k] \in Nat /\ d[k] >= 3
                                   /\ btf_type_size(types[k]) >= 0 => d[k] = btf_type_size(types[k])
    BY <1>3, <1>4
  <1>7. d \in Seq(Nat) /\ Len(d) = Len(types)
    BY <1>2, <1>4, <1>5, <1>6
  <1>8. Total(d) \in Nat /\ Total(d) = Sums(d)[Len(types)]
    BY <1>7, TotalIs DEF Total
  <1> QED BY <1>1, <1>2, <1>3, <1>6, <1>7, <1>8 DEF d, TypesLen

\* What the index holds is typed.
LEMMA KnownTyped ==
  ASSUME bt_data.types \in BtfSections
  PROVE  \A t \in KnownTypes : t.type \in Nat /\ t.n \in Nat /\ t.vlen \in Nat
  <1> DEFINE types == bt_data.types
  <1>1. \A k \in DOMAIN types : types[k].type \in Nat /\ types[k].n \in Nat /\ types[k].vlen \in Nat
    BY DescLensAre
  <1>2. VoidType.type = 0 /\ VoidType.n = 0 /\ VoidType.vlen = 0
    BY DEF VoidType
  <1> DEFINE ptr == [VoidType EXCEPT !.kind = "ptr"]
  <1>3. ptr.type = 0 /\ ptr.n = 0 /\ ptr.vlen = 0
    BY DEF VoidType
  <1>4. KnownTypes = {VoidType, ptr} \cup {types[k] : k \in DOMAIN types}
    BY DEF KnownTypes
  <1> HIDE DEF types, ptr
  <1>5. 0 \in Nat
    OBVIOUS
  <1> QED BY <1>1, <1>2, <1>3, <1>4, <1>5

\* So is the whole index.
LEMMA IndexIsTyped ==
  ASSUME bt_data.types \in BtfSections, NEW types \in Seq(KnownTypes)
  PROVE  IndexTyped(types)
  <1>1. Len(types) \in Nat /\ \A k \in 1 .. Len(types) : types[k] \in KnownTypes
    OBVIOUS
  <1> QED BY <1>1, KnownTyped DEF IndexTyped

\* The descriptor that starts where a sum of lengths ends is the next.
LEMMA DescriptorIsNext ==
  ASSUME NEW types \in BtfSections, types = bt_data.types, NEW c \in 0 .. Len(types) - 1,
         NEW next, next = Sums(DescLens(types))[c]
  PROVE  DescriptorsAt(next) = {types[c + 1]}
  <1>1. /\ DescLens(types) \in Seq(Nat) /\ Len(DescLens(types)) = Len(types) /\ Len(types) \in Nat
        /\ DOMAIN types = 1 .. Len(types) /\ \A n \in 1 .. Len(types) : DescLens(types)[n] > 0
    <2>1. /\ DescLens(types) \in Seq(Nat) /\ Len(DescLens(types)) = Len(types) /\ Len(types) \in Nat
          /\ DOMAIN types = 1 .. Len(types) /\ \A n \in 1 .. Len(types) : DescLens(types)[n] >= 3
      BY DescLensAre
    <2> QED BY <2>1
  <1>2. \A m, n \in 0 .. Len(types) : m <= n =>
           Sums(DescLens(types))[m] <= Sums(DescLens(types))[n] /\ (m < n => Sums(DescLens(types))[m] < Sums(DescLens(types))[n])
    BY <1>1, SumsOfPositive
  <1>3. Sums(DescLens(types)) \in [0 .. Len(types) -> Nat]
    BY <1>1, SumsAre
  <1> DEFINE f == Sums(DescLens(types))
             starts == {k \in DOMAIN types : f[k - 1] = next}
  <1>4. \A m, n \in 0 .. Len(types) : f[m] = f[n] => m = n
    <2> HIDE DEF f
    <2> SUFFICES ASSUME NEW m \in 0 .. Len(types), NEW n \in 0 .. Len(types), f[m] = f[n] PROVE m = n
      OBVIOUS
    <2>1. f[m] \in Nat /\ f[n] \in Nat
      BY <1>3 DEF f
    <2>2. ~ m < n
      BY <1>2, <2>1 DEF f
    <2>3. ~ n < m
      BY <1>2, <2>1 DEF f
    <2> QED BY <1>1, <2>2, <2>3
  <1>5. DescriptorsAt(next) = IF starts # {} THEN {types[k] : k \in starts}
                              ELSE {VoidType, [VoidType EXCEPT !.kind = "ptr"]}
    BY DEF DescriptorsAt
  <1> HIDE DEF f
  <1>6. starts = {c + 1}
    <2>1. c + 1 \in DOMAIN types /\ (c + 1) - 1 = c /\ f[c] = next
      BY <1>1 DEF f
    <2>2. ASSUME NEW k \in DOMAIN types, f[k - 1] = next PROVE k = c + 1
      <3>1. k - 1 \in 0 .. Len(types) /\ c \in 0 .. Len(types)
        BY <1>1
      <3>2. k - 1 = c
        BY <1>4, <2>1, <2>2, <3>1
      <3> QED BY <1>1, <3>2
    <2>3. c + 1 \in starts
      BY <2>1
    <2> QED BY <2>2, <2>3
  <1> HIDE DEF starts
  <1> QED BY <1>5, <1>6

\* The invariant at the start.
LEMMA BtInitInv ==
  ASSUME BtInit PROVE BtInv
  <1>1. PICK types \in BtfSections, off \in {-1, 0, 1}, more \in {0, 1} :
           bt_data = [types |-> types, str_off |-> TypesLen(types) + off, str_len |-> 2 + more,
                      size |-> TypesLen(types) + 2, sound |-> off = 0 /\ more = 0]
    BY DEF BtInit
  <1>2. /\ bt_types = <<>> /\ bt_size = 0 /\ bt_next = 0 /\ bt_pc = "hdr" /\ bt_ret = "none"
        /\ bt_strayed = FALSE /\ bt_asked = Nothing
    BY DEF BtInit, BtStart
  <1>3. bt_data.types = types
    BY <1>1
  <1>4. /\ DescLens(types) \in Seq(Nat) /\ Len(DescLens(types)) = Len(types) /\ Len(types) \in Nat /\ TypesLen(types) \in Nat
    BY DescLensAre
  <1>5. bt_data.sound => /\ bt_data.str_off = TypesLen(bt_data.types) /\ bt_data.size = TypesLen(bt_data.types) + 2
                         /\ bt_data.str_len = 2
    <2>1. bt_data.sound <=> off = 0 /\ more = 0
      BY <1>1
    <2>2. bt_data.str_off = TypesLen(types) + off /\ bt_data.str_len = 2 + more /\ bt_data.size = TypesLen(types) + 2
      BY <1>1
    <2> QED BY <1>3, <1>4, <2>1, <2>2
  <1>6. ReadInOrder
    <2>1. Sums(DescLens(types))[0] = 0
      BY <1>4, SumsAre
    <2>2. 0 \in 0 .. Len(bt_data.types)
      BY <1>3, <1>4
    <2>3. IndexedUpTo(0)
      BY <1>2 DEF IndexedUpTo
    <2> QED BY <1>2, <1>3, <2>1, <2>2, <2>3 DEF ReadInOrder
  <1>7. bt_types \in Seq(KnownTypes)
    BY <1>2
  <1>8. Nothing.call = "none"
    BY DEF Nothing
  <1> QED BY <1>2, <1>3, <1>5, <1>6, <1>7, <1>8 DEF BtInv

\* The header is checked.
LEMMA ParseHdrStep ==
  ASSUME BtInv, btf_parse_hdr PROVE BtInv'
  <1> DEFINE types == bt_data.types
             refused == bt_data.size = 0 \/ bt_data.size < bt_data.str_off \/ 0 >= bt_data.str_off \/ bt_data.str_len = 0
             behind == bt_data.str_off + bt_data.str_len > bt_data.size
  <1>1. /\ bt_pc = "hdr" /\ UNCHANGED <<bt_data, bt_types, bt_size, bt_next, bt_asked, bt_answer>>
        /\ \/ refused /\ BtReturn("EINVAL") /\ UNCHANGED bt_strayed
           \/ ~ refused /\ bt_pc' = "types" /\ bt_strayed' = behind /\ UNCHANGED bt_ret
           \/ ~ refused /\ behind /\ BtReturn("EINVAL") /\ bt_strayed' = TRUE
           \/ BtReturn("ENOMEM") /\ UNCHANGED bt_strayed
    BY DEF btf_parse_hdr
  <1>2. bt_types = <<>> /\ bt_next = 0 /\ bt_strayed = FALSE /\ bt_ret # "0" /\ bt_asked = Nothing /\ types \in BtfSections
    BY <1>1 DEF BtInv
  <1>3. TypesLen(types) \in Nat
    BY <1>2, DescLensAre
  <1>4. bt_data.sound => ~ behind /\ bt_data.str_off = TypesLen(types)
    <2>1. bt_data.sound => bt_data.str_off = TypesLen(types) /\ bt_data.size = TypesLen(types) + 2 /\ bt_data.str_len = 2
      BY DEF BtInv
    <2> QED BY <1>3, <2>1
  <1>5. /\ bt_pc' \in {"types", "done"} /\ bt_ret' # "0"
        /\ bt_data.sound => bt_strayed' = FALSE
        /\ bt_data.sound /\ bt_pc' = "types" => TypesLen(types) > 0
    <2>1. CASE refused /\ BtReturn("EINVAL") /\ UNCHANGED bt_strayed
      BY <1>2, <2>1 DEF BtReturn
    <2>2. CASE ~ refused /\ bt_pc' = "types" /\ bt_strayed' = behind /\ UNCHANGED bt_ret
      <3>1. bt_data.sound => TypesLen(types) > 0
        BY <1>3, <1>4, <2>2
      <3>2. bt_data.sound => bt_strayed' = FALSE
        <4>1. bt_strayed' = behind
          BY <2>2
        <4>2. bt_data.sound => ~ behind
          BY <1>4
        <4>3. behind \in BOOLEAN
          OBVIOUS
        <4> HIDE DEF behind
        <4> QED BY <4>1, <4>2, <4>3
      <3> HIDE DEF refused, behind
      <3> QED BY <1>2, <2>2, <3>1, <3>2
    <2>3. CASE ~ refused /\ behind /\ BtReturn("EINVAL") /\ bt_strayed' = TRUE
      <3> HIDE DEF refused, behind
      <3> QED BY <1>4, <2>3 DEF BtReturn
    <2>4. CASE BtReturn("ENOMEM") /\ UNCHANGED bt_strayed
      BY <1>2, <2>4 DEF BtReturn
    <2> HIDE DEF refused, behind
    <2> QED BY <1>1, <2>1, <2>2, <2>3, <2>4
  <1>6. KnownTypes' = KnownTypes
    BY <1>1 DEF KnownTypes
  <1>7. ReadInOrder => ReadInOrder'
    BY <1>1 DEF ReadInOrder, IndexedUpTo
  <1>8. Nothing.call = "none"
    BY DEF Nothing
  <1> HIDE DEF types, refused, behind
  <1> QED BY <1>1, <1>2, <1>5, <1>6, <1>7, <1>8 DEF BtInv, types

\* A question is answered from the index.
LEMMA AnswerStep ==
  ASSUME BtInv, NEW call, NEW id \in Nat, NEW name, Answer(call, id, name) PROVE BtInv'
  <1>1. /\ bt_pc = "ready" /\ bt_asked' = [call |-> call, id |-> id, name |-> name]
        /\ call = "size" => bt_answer' = btf__resolve_size(bt_types, id)
        /\ call = "type" => bt_answer' = btf__resolve_type(bt_types, id)
        /\ UNCHANGED <<bt_data, bt_types, bt_size, bt_next, bt_pc, bt_ret, bt_strayed>>
    BY DEF Answer
  <1>2. bt_asked'.call = call /\ bt_asked'.id = id
    BY <1>1
  <1>3. KnownTypes' = KnownTypes
    BY <1>1 DEF KnownTypes
  <1>4. ReadInOrder => ReadInOrder'
    BY <1>1 DEF ReadInOrder, IndexedUpTo
  <1> QED BY <1>1, <1>2, <1>3, <1>4 DEF BtInv

\* btf_add_type puts a type behind those of the index and leaves a place for the next.
LEMMA AddedType ==
  ASSUME NEW K, VoidType \in K, bt_types \in Seq(K), bt_size \in Nat, bt_types # <<>> => Len(bt_types) <= bt_size,
         NEW t \in K, btf_add_type(t)
  PROVE  /\ bt_types' \in Seq(K) /\ bt_types' # <<>> /\ bt_size' \in Nat /\ Len(bt_types') <= bt_size'
         /\ bt_types = <<>> => Len(bt_types') = 2 /\ bt_types'[1] = VoidType /\ bt_types'[2] = t
         /\ bt_types # <<>> => /\ Len(bt_types') = Len(bt_types) + 1 /\ bt_types'[Len(bt_types) + 1] = t
                               /\ \A k \in 1 .. Len(bt_types) : bt_types'[k] = bt_types[k]
  <1> DEFINE old == IF bt_types = <<>> THEN <<VoidType>> ELSE bt_types
             more == IF bt_size \div 4 > TypesGrow THEN bt_size \div 4 ELSE TypesGrow
             nr_types == IF bt_types = <<>> THEN 0 ELSE Len(bt_types) - 1
  <1>1. bt_size' = (IF bt_size - nr_types < 2 THEN bt_size + more ELSE bt_size) /\ bt_types' = old \o <<t>>
    BY DEF btf_add_type
  <1>2. more \in Nat /\ more >= 2
    <2>1. TypesGrow \in Nat /\ TypesGrow >= 2
      BY BtfReadAssumption
    <2>2. bt_size \div 4 \in Nat
      OBVIOUS
    <2> QED BY <2>1, <2>2
  <1>3. old \in Seq(K) /\ <<t>> \in Seq(K) /\ Len(<<t>>) = 1 /\ <<t>>[1] = t /\ Len(<<VoidType>>) = 1 /\ <<VoidType>>[1] = VoidType
    OBVIOUS
  <1>4. /\ bt_types' \in Seq(K) /\ Len(bt_types') = Len(old) + 1 /\ Len(old) \in Nat
        /\ \A k \in 1 .. Len(old) : bt_types'[k] = old[k]
        /\ bt_types'[Len(old) + 1] = t
    <2> HIDE DEF old
    <2> DEFINE one == <<t>>
    <2>1. one \in Seq(K) /\ Len(one) = 1 /\ one[1] = t
      BY <1>3
    <2> HIDE DEF one
    <2>2. /\ old \o one \in Seq(K) /\ Len(old \o one) = Len(old) + Len(one) /\ Len(old) \in Nat
          /\ \A k \in 1 .. Len(old) : (old \o one)[k] = old[k]
          /\ \A k \in Len(old) + 1 .. Len(old) + Len(one) : (old \o one)[k] = one[k - Len(old)]
      BY <1>3, <2>1, ConcatIs
    <2>3. bt_types' = old \o one
      BY <1>1 DEF one
    <2>4. Len(old) + 1 \in Len(old) + 1 .. Len(old) + Len(one) /\ Len(old) + 1 - Len(old) = 1
      BY <2>1, <2>2
    <2> QED BY <2>1, <2>2, <2>3, <2>4
  <1>5. bt_types = <<>> => Len(old) = 1 /\ old[1] = VoidType /\ nr_types = 0
    BY <1>3
  <1>6. bt_types # <<>> => old = bt_types /\ nr_types = Len(bt_types) - 1 /\ Len(bt_types) \in Nat
    OBVIOUS
  <1> HIDE DEF old, nr_types, more
  <1>7. bt_size' \in Nat /\ Len(bt_types') <= bt_size'
    <2>1. CASE bt_types = <<>>
      <3>1. nr_types = 0 /\ Len(bt_types') = 2
        <4>1. Len(old) = 1 /\ nr_types = 0
          BY <1>5, <2>1
        <4>2. Len(bt_types') = Len(old) + 1
          BY <1>4
        <4> QED BY <4>1, <4>2
      <3>2. bt_size' = IF bt_size < 2 THEN bt_size + more ELSE bt_size
        BY <1>1, <3>1
      <3> QED BY <1>2, <3>1, <3>2
    <2>2. CASE bt_types # <<>>
      BY <1>1, <1>2, <1>4, <1>6, <2>2
    <2> QED BY <2>1, <2>2
  <1>8. bt_types' # <<>>
    BY <1>4
  <1> QED BY <1>4, <1>5, <1>6, <1>7, <1>8

\* One turn of the loop over the descriptors.
LEMMA ParseTypeSecStep ==
  ASSUME BtInv, btf_parse_type_sec PROVE BtInv'
  <1> DEFINE types == bt_data.types
             f == Sums(DescLens(types))
  <1>1. /\ bt_pc = "types" /\ UNCHANGED <<bt_data, bt_asked, bt_answer>>
        /\ bt_ret # "0" /\ bt_asked = Nothing /\ types \in BtfSections
        /\ bt_types \in Seq(KnownTypes) /\ bt_size \in Nat /\ bt_next \in Nat
        /\ bt_types # <<>> => Len(bt_types) <= bt_size
        /\ bt_data.sound => /\ bt_strayed = FALSE /\ ReadInOrder /\ TypesLen(types) > 0
                            /\ bt_data.str_off = TypesLen(types)
    BY DEF BtInv, btf_parse_type_sec
  <1>2. /\ DescLens(types) \in Seq(Nat) /\ Len(DescLens(types)) = Len(types) /\ Len(types) \in Nat
        /\ TypesLen(types) \in Nat /\ TypesLen(types) = f[Len(types)] /\ DOMAIN types = 1 .. Len(types)
        /\ \A k \in 1 .. Len(types) : btf_type_size(types[k]) >= 0 => DescLens(types)[k] = btf_type_size(types[k])
    BY <1>1, DescLensAre
  <1>3. \A n \in 1 .. Len(types) : DescLens(types)[n] > 0
    <2>1. \A n \in 1 .. Len(types) : DescLens(types)[n] >= 3
      BY <1>1, DescLensAre
    <2> DEFINE d == DescLens(types)
               l == Len(types)
    <2>2. d \in Seq(Nat) /\ Len(d) = l /\ \A n \in 1 .. l : d[n] >= 3
      BY <1>2, <2>1
    <2> HIDE DEF d, l
    <2>3. \A n \in 1 .. l : d[n] > 0
      BY <2>2
    <2> QED BY <2>3 DEF d, l
  <1>4. \A m, n \in 0 .. Len(types) : m <= n => f[m] <= f[n] /\ (m < n => f[m] < f[n])
    BY <1>2, <1>3, SumsOfPositive
  <1>5. f \in [0 .. Len(types) -> Nat] /\ f[0] = 0 /\ \A n \in 1 .. Len(types) : f[n] = f[n - 1] + DescLens(types)[n]
    BY <1>2, SumsAre
  <1>6. KnownTypes' = KnownTypes /\ Nothing.call = "none"
    BY <1>1 DEF KnownTypes, Nothing
  <1>7. CASE ~ MoreTypes /\ BtReturn("0") /\ UNCHANGED <<bt_types, bt_size, bt_next, bt_strayed>>
    <2>1. bt_pc' = "ready" /\ bt_ret' = "0"
      BY <1>7 DEF BtReturn
    <2>2. ReadInOrder => ReadInOrder'
      BY <1>1, <1>7 DEF ReadInOrder, IndexedUpTo
    <2>3. ASSUME bt_data.sound PROVE bt_types = <<VoidType>> \o types
      <3>1. PICK c \in 0 .. Len(types) : bt_next = f[c] /\ IndexedUpTo(c)
        BY <1>1, <2>3 DEF ReadInOrder
      <3>2. ~ bt_next < f[Len(types)] /\ f[Len(types)] > 0
        BY <1>1, <1>2, <1>7, <2>3 DEF MoreTypes
      <3> HIDE DEF f
      <3>3. c = Len(types) /\ c # 0
        <4>1. Len(types) \in 0 .. Len(types) /\ f[c] \in Nat /\ f[Len(types)] \in Nat
          <5> DEFINE l == Len(types)
          <5>1. l \in Nat /\ f \in [0 .. l -> Nat] /\ c \in 0 .. l
            BY <1>2, <1>5
          <5> HIDE DEF l
          <5>2. l \in 0 .. l /\ f[c] \in Nat /\ f[l] \in Nat
            BY <5>1
          <5> QED BY <5>2 DEF l
        <4>2. ~ c < Len(types)
          BY <1>4, <3>1, <3>2, <4>1
        <4>3. c = Len(types)
          BY <1>2, <4>2
        <4> QED BY <1>5, <3>2, <4>3
      <3>4. Len(bt_types) = c + 1 /\ bt_types[1] = VoidType /\ \A k \in 1 .. c : bt_types[k + 1] = types[k]
        BY <3>1, <3>3 DEF IndexedUpTo
      <3> DEFINE one == <<VoidType>>
                 K == KnownTypes
      <3>5. one \in Seq(K) /\ Len(one) = 1 /\ one[1] = VoidType
        BY DEF KnownTypes
      <3>6. types \in Seq(K)
        <4>1. \A k \in 1 .. Len(types) : types[k] \in K
          BY <1>2 DEF KnownTypes
        <4> DEFINE D == [kind : STRING, name : STRING, type : Nat, n : Nat, vlen : Nat]
        <4>2. types \in Seq(D)
          BY <1>1, DescLensAre
        <4> HIDE DEF K, types, D
        <4> QED BY <4>1, <4>2
      <3> HIDE DEF one, types, K
      <3>7. /\ one \o types \in Seq(K) /\ Len(one \o types) = Len(one) + Len(types)
            /\ \A k \in 1 .. Len(one) : (one \o types)[k] = one[k]
            /\ \A k \in Len(one) + 1 .. Len(one) + Len(types) : (one \o types)[k] = types[k - Len(one)]
        BY <3>5, <3>6, ConcatIs
      <3> DEFINE all == one \o types
      <3>8. Len(all) = Len(bt_types) /\ all \in Seq(K) /\ bt_types \in Seq(K)
        BY <1>1, <1>2, <3>3, <3>4, <3>5, <3>7 DEF K
      <3>9. ASSUME NEW k \in 1 .. Len(bt_types) PROVE bt_types[k] = all[k]
        <4>1. CASE k = 1
          BY <3>4, <3>5, <3>7, <4>1
        <4>2. CASE k # 1
          <5>1. k - 1 \in 1 .. c /\ (k - 1) + 1 = k /\ k \in Len(one) + 1 .. Len(one) + Len(types) /\ k - Len(one) = k - 1
            BY <1>2, <3>3, <3>4, <3>5, <4>2
          <5>2. bt_types[k] = types[k - 1]
            BY <3>4, <5>1
          <5> QED BY <3>7, <5>1, <5>2
        <4> QED BY <4>1, <4>2
      <3> HIDE DEF all
      <3>10. bt_types = all
        BY <3>8, <3>9
      <3> QED BY <3>10 DEF all, one
    <2> HIDE DEF types
    <2>4. bt_data.sound => bt_strayed' = FALSE /\ ReadInOrder'
      BY <1>1, <1>7, <2>2
    <2> QED BY <1>1, <1>6, <1>7, <2>1, <2>3, <2>4 DEF BtInv, types
  <1>8. ASSUME MoreTypes, NEW t \in DescriptorsAt(bt_next),
               bt_strayed' = (bt_strayed \/ bt_next >= TypesLen(types)),
               \/ btf_type_size(t) < 0 /\ BtReturn("EINVAL") /\ UNCHANGED <<bt_types, bt_size, bt_next>>
               \/ /\ btf_type_size(t) >= 0 /\ bt_next' = bt_next + btf_type_size(t)
                  /\ btf_add_type(t) /\ UNCHANGED <<bt_pc, bt_ret>>
               \/ btf_type_size(t) >= 0 /\ BtReturn("ENOMEM") /\ UNCHANGED <<bt_types, bt_size, bt_next>>
        PROVE  BtInv'
    <2>1. bt_data.sound => bt_strayed' = FALSE
      <3> DEFINE behind == bt_next >= TypesLen(types)
      <3>1. bt_data.sound => ~ behind
        BY <1>1, <1>2, <1>8 DEF MoreTypes
      <3>2. bt_strayed' = (bt_strayed \/ behind)
        BY <1>8
      <3> HIDE DEF behind
      <3> QED BY <1>1, <3>1, <3>2
    <2>2. t \in KnownTypes
      BY <1>8 DEF DescriptorsAt, KnownTypes
    <2>3. btf_type_size(t) \in Int
      BY <1>1, <2>2, KnownTyped, SizeOfDescriptor
    <2>4. CASE UNCHANGED <<bt_types, bt_size, bt_next>> /\ bt_pc' = "done" /\ bt_ret' # "0"
      <3>1. ReadInOrder => ReadInOrder'
        BY <1>1, <2>4 DEF ReadInOrder, IndexedUpTo
      <3> HIDE DEF types
      <3> QED BY <1>1, <1>6, <2>1, <2>4, <3>1 DEF BtInv, types
    <2>5. CASE btf_type_size(t) >= 0 /\ bt_next' = bt_next + btf_type_size(t) /\ btf_add_type(t) /\ UNCHANGED <<bt_pc, bt_ret>>
      <3>1. VoidType \in KnownTypes
        BY DEF KnownTypes
      <3> DEFINE K == KnownTypes
      <3> HIDE DEF K
      <3>2. VoidType \in K /\ t \in K /\ bt_types \in Seq(K)
        BY <1>1, <2>2, <3>1 DEF K
      <3>3. /\ bt_types' \in Seq(K) /\ bt_types' # <<>> /\ bt_size' \in Nat /\ Len(bt_types') <= bt_size'
            /\ bt_types = <<>> => Len(bt_types') = 2 /\ bt_types'[1] = VoidType /\ bt_types'[2] = t
            /\ bt_types # <<>> => /\ Len(bt_types') = Len(bt_types) + 1 /\ bt_types'[Len(bt_types) + 1] = t
                                  /\ \A k \in 1 .. Len(bt_types) : bt_types'[k] = bt_types[k]
        BY <1>1, <2>5, <3>2, AddedType
      <3>4. bt_next' \in Nat
        BY <1>1, <2>3, <2>5
      <3>5. ASSUME bt_data.sound PROVE ReadInOrder'
        <4>1. PICK c \in 0 .. Len(types) : bt_next = f[c] /\ IndexedUpTo(c)
          BY <1>1, <3>5 DEF ReadInOrder
        <4>2. c \in 0 .. Len(types) - 1
          <5>1. bt_next < f[Len(types)]
            BY <1>1, <1>2, <1>8, <3>5 DEF MoreTypes
          <5>2. c # Len(types)
            BY <1>1, <4>1, <5>1
          <5> QED BY <1>2, <5>2
        <4>3. t = types[c + 1]
          <5> DEFINE next == bt_next
          <5>1. types \in BtfSections /\ types = bt_data.types /\ next = Sums(DescLens(types))[c]
            BY <1>1, <4>1
          <5> HIDE DEF types, next
          <5>2. DescriptorsAt(next) = {types[c + 1]}
            BY <4>2, <5>1, DescriptorIsNext
          <5> QED BY <1>8, <5>2 DEF next
        <4>4. c + 1 \in 1 .. Len(types) /\ (c + 1) - 1 = c /\ c + 1 # 0 /\ c + 1 \in 0 .. Len(types)
          BY <1>2, <4>2
        <4>5. bt_next' = f[c + 1]
          <5>1. DescLens(types)[c + 1] = btf_type_size(t)
            BY <1>2, <2>5, <4>3, <4>4
          <5> HIDE DEF f
          <5>2. f[c + 1] = f[c] + DescLens(types)[c + 1]
            BY <1>5, <4>4
          <5> QED BY <2>5, <4>1, <5>1, <5>2
        <4> HIDE DEF f
        <4>6. /\ Len(bt_types') = c + 2 /\ bt_types'[1] = VoidType
              /\ \A k \in 1 .. c + 1 : bt_types'[k + 1] = types[k]
          <5>1. CASE c = 0
            <6>1. bt_types = <<>>
              BY <4>1, <5>1 DEF IndexedUpTo
            <6>2. Len(bt_types') = 2 /\ bt_types'[1] = VoidType /\ bt_types'[2] = t
              BY <3>3, <6>1
            <6>3. \A k \in 1 .. c + 1 : k = 1 /\ k + 1 = 2 /\ k = c + 1
              BY <5>1
            <6> QED BY <4>3, <5>1, <6>2, <6>3
          <5>2. CASE c # 0
            <6>1. Len(bt_types) = c + 1 /\ bt_types[1] = VoidType /\ \A k \in 1 .. c : bt_types[k + 1] = types[k]
              BY <4>1, <5>2 DEF IndexedUpTo
            <6>2. bt_types # <<>>
              BY <4>2, <6>1
            <6>3. /\ Len(bt_types') = (c + 1) + 1 /\ bt_types'[(c + 1) + 1] = t
                  /\ \A k \in 1 .. c + 1 : bt_types'[k] = bt_types[k]
              BY <3>3, <6>1, <6>2
            <6>4. ASSUME NEW k \in 1 .. c + 1 PROVE bt_types'[k + 1] = types[k]
              <7>1. CASE k = c + 1
                BY <4>3, <6>3, <7>1
              <7>2. CASE k # c + 1
                <8>1. k \in 1 .. c /\ k + 1 \in 1 .. c + 1
                  BY <4>2, <7>2
                <8> QED BY <6>1, <6>3, <8>1
              <7> QED BY <7>1, <7>2
            <6>5. 1 \in 1 .. c + 1 /\ (c + 1) + 1 = c + 2
              BY <4>2
            <6> QED BY <6>1, <6>3, <6>4, <6>5
          <5> QED BY <5>1, <5>2
        <4>7. IndexedUpTo(c + 1)'
          <5>1. Len(bt_types') = (c + 1) + 1
            BY <4>2, <4>6
          <5> QED BY <1>1, <4>4, <4>6, <5>1 DEF IndexedUpTo
        <4> QED BY <1>1, <4>4, <4>5, <4>7 DEF ReadInOrder, f
      <3> HIDE DEF types
      <3>6. bt_types' \in Seq(KnownTypes')
        BY <1>6, <3>3 DEF K
      <3>7. bt_pc' = "types" /\ bt_ret' # "0" /\ bt_asked' = Nothing /\ bt_data' = bt_data
        BY <1>1, <2>5
      <3>8. bt_types' # <<>> => Len(bt_types') <= bt_size'
        BY <3>3
      <3>9. bt_size' \in Nat
        BY <3>3
      <3>10. bt_data.types \in BtfSections /\ (bt_data.sound => TypesLen(bt_data.types) > 0)
        BY <1>1 DEF types
      <3>11. bt_data.sound => /\ bt_data.str_off = TypesLen(bt_data.types) /\ bt_data.size = TypesLen(bt_data.types) + 2
                              /\ bt_data.str_len = 2
        BY DEF BtInv
      <3> HIDE DEF K
      <3> QED BY <1>6, <2>1, <3>4, <3>5, <3>6, <3>7, <3>8, <3>9, <3>10, <3>11 DEF BtInv
    <2> HIDE DEF types
    <2>6. BtReturn("EINVAL") \/ BtReturn("ENOMEM") => bt_pc' = "done" /\ bt_ret' # "0"
      BY DEF BtReturn
    <2> QED BY <1>8, <2>4, <2>5, <2>6
  <1> HIDE DEF f
  <1> QED BY <1>7, <1>8 DEF btf_parse_type_sec

\* Every step keeps the invariant.
LEMMA BtNextInv ==
  ASSUME BtInv, [BtNext]_btVars PROVE BtInv'
  <1>1. ASSUME btf_parse_hdr PROVE BtInv'
    BY <1>1, ParseHdrStep
  <1>2. ASSUME btf_parse_type_sec PROVE BtInv'
    BY <1>2, ParseTypeSecStep
  <1>3. ASSUME NEW call \in {"size", "type"}, NEW id \in 0 .. Len(bt_data.types) + 1, Answer(call, id, "") PROVE BtInv'
    <2>1. bt_data.types \in BtfSections
      BY DEF BtInv
    <2>2. Len(bt_data.types) \in Nat
      BY <2>1, DescLensAre
    <2>3. id \in Nat
      BY <2>2
    <2> QED BY <1>3, <2>3, AnswerStep
  <1>4. ASSUME NEW name \in TypeNames, Answer("name", 0, name) PROVE BtInv'
    BY <1>4, AnswerStep
  <1>5. ASSUME UNCHANGED btVars PROVE BtInv'
    BY <1>5 DEF btVars, BtInv, KnownTypes, ReadInOrder, IndexedUpTo
  <1> QED BY <1>1, <1>2, <1>3, <1>4, <1>5 DEF BtNext

\* It implies the property.
LEMMA BtInvReads ==
  ASSUME BtInv PROVE TypesAreRead
  <1>1. SoundIsRead
    BY DEF BtInv, SoundIsRead
  <1>2. IndexTyped(bt_types)
    <2>1. bt_data.types \in BtfSections /\ bt_types \in Seq(KnownTypes)
      BY DEF BtInv
    <2> QED BY <2>1, IndexIsTyped
  <1>3. SizesAreExact
    <2>1. CASE bt_asked.call = "size"
      <3>1. bt_asked.id \in Nat /\ bt_answer = btf__resolve_size(bt_types, bt_asked.id)
        BY <2>1 DEF BtInv
      <3> QED BY <1>2, <3>1, SizeIsExact
    <2>2. CASE bt_asked.call # "size"
      BY <2>2 DEF SizesAreExact
    <2> QED BY <2>1, <2>2
  <1>4. ResolvesAgree
    <2>1. CASE bt_asked.call = "type"
      <3>1. bt_asked.id \in Nat /\ bt_answer = btf__resolve_type(bt_types, bt_asked.id)
        BY <2>1 DEF BtInv
      <3> QED BY <1>2, <3>1, TypeAndSizeAgree
    <2>2. CASE bt_asked.call # "type"
      BY <2>2 DEF ResolvesAgree
    <2> QED BY <2>1, <2>2
  <1> QED BY <1>1, <1>3, <1>4 DEF TypesAreRead

\* BtfRead.tla: for any section of types, a sound one is indexed whole and nothing else is read as a
\* type; every size is exact as C has it or refused, and both resolving functions agree.
THEOREM TypesAlwaysRead == BtSpec => []TypesAreRead
  <1>1. BtInit => BtInv
    BY BtInitInv
  <1>2. BtInv /\ [BtNext]_btVars => BtInv'
    BY BtNextInv
  <1>3. BtInv => TypesAreRead
    BY BtInvReads
  <1> QED BY <1>1, <1>2, <1>3, PTL DEF BtSpec

-----------------------------------------------------------------------------
(* ProgInfo.                                                               *)

\* The largest and the smallest of a set are where they are found.
LEMMA MaxIs ==
  ASSUME NEW S, NEW m \in S, m \in Int, \A x \in S : x \in Int /\ x <= m
  PROVE  Max(S) = m
  <1>1. \A x \in S : m >= x
    OBVIOUS
  <1>2. \A y \in S : (\A x \in S : y >= x) => y = m
    OBVIOUS
  <1>3. Max(S) \in S /\ \A x \in S : Max(S) >= x
    BY <1>1 DEF Max
  <1> QED BY <1>2, <1>3

\* The smallest of a set is where it is found.
LEMMA MinIs ==
  ASSUME NEW S, NEW m \in S, m \in Int, \A x \in S : x \in Int /\ m <= x
  PROVE  Min(S) = m
  <1>1. \A x \in S : m <= x
    OBVIOUS
  <1>2. \A y \in S : (\A x \in S : y <= x) => y = m
    OBVIOUS
  <1>3. Min(S) \in S /\ \A x \in S : Min(S) <= x
    BY <1>1 DEF Min
  <1> QED BY <1>2, <1>3

\* A sum of natural numbers does not fall.
LEMMA SumsRise ==
  ASSUME NEW d \in Seq(Nat)
  PROVE  \A m, n \in 0 .. Len(d) : m <= n => Sums(d)[m] <= Sums(d)[n]
  <1> DEFINE f == Sums(d)
             T == {n \in Nat : n <= Len(d) => \A m \in 0 .. n : f[m] <= f[n]}
  <1>1. f \in [0 .. Len(d) -> Nat] /\ f[0] = 0 /\ \A n \in 1 .. Len(d) : f[n] = f[n - 1] + d[n]
    BY SumsAre
  <1>2. Len(d) \in Nat /\ \A n \in 1 .. Len(d) : d[n] \in Nat
    OBVIOUS
  <1> HIDE DEF f
  <1>3. 0 \in T
    BY <1>1
  <1>4. ASSUME NEW n \in T PROVE n + 1 \in T
    <2> SUFFICES ASSUME n + 1 <= Len(d), NEW m \in 0 .. n + 1 PROVE f[m] <= f[n + 1]
      OBVIOUS
    <2>1. n + 1 \in 1 .. Len(d) /\ (n + 1) - 1 = n /\ n \in 0 .. Len(d)
      BY <1>2
    <2>2. f[n + 1] = f[n] + d[n + 1] /\ f[n] \in Nat /\ d[n + 1] \in Nat
      BY <1>1, <1>2, <2>1
    <2>3. CASE m = n + 1
      BY <2>2, <2>3
    <2>4. CASE m # n + 1
      <3>1. m \in 0 .. n /\ m \in 0 .. Len(d)
        BY <2>1, <2>4
      <3>2. f[m] <= f[n]
        BY <2>1, <3>1
      <3>3. f[m] \in Nat
        BY <1>1, <3>1
      <3> QED BY <2>2, <3>2, <3>3
    <2> QED BY <2>3, <2>4
  <1> HIDE DEF T
  <1>5. T = Nat
    <2>1. T \in SUBSET Nat
      BY DEF T
    <2> QED BY <1>3, <1>4, <2>1, SetInduction
  <1> QED BY <1>5 DEF T, f

\* The arrays and their places.
LEMMA ArrayPlaces ==
  /\ Len(InfoArrays) \in Nat /\ DOMAIN InfoArrays = 1 .. Len(InfoArrays)
  /\ \A k \in 1 .. Len(InfoArrays) : InfoArrays[k] \in Arrays
  /\ \A a \in Arrays : PlaceOf(a) \in 1 .. Len(InfoArrays) /\ InfoArrays[PlaceOf(a)] = a
  /\ \A k \in 1 .. Len(InfoArrays) : PlaceOf(InfoArrays[k]) = k
  <1>1. InfoArrays \in Seq(Arrays) /\ \A j, k \in DOMAIN InfoArrays : InfoArrays[j] = InfoArrays[k] => j = k
    BY ProgInfoAssumption
  <1>2. Len(InfoArrays) \in Nat /\ DOMAIN InfoArrays = 1 .. Len(InfoArrays) /\ \A k \in 1 .. Len(InfoArrays) : InfoArrays[k] \in Arrays
    BY <1>1
  <1>3. ASSUME NEW a \in Arrays PROVE PlaceOf(a) \in DOMAIN InfoArrays /\ InfoArrays[PlaceOf(a)] = a
    <2>1. \E k \in DOMAIN InfoArrays : InfoArrays[k] = a
      BY DEF Arrays, ToSet
    <2> QED BY <2>1 DEF PlaceOf
  <1> QED BY <1>1, <1>2, <1>3

\* The records of a program.
LEMMA ProgramIs ==
  ASSUME NEW prog \in InfoPrograms, NEW a \in Arrays
  PROVE  /\ prog[a].recs \in Seq(Nat) /\ prog[a].size \in Nat \ {0} /\ Len(prog[a].recs) \in Nat
         /\ DOMAIN prog[a].recs = 1 .. Len(prog[a].recs)
         /\ \A k \in 1 .. Len(prog[a].recs) : prog[a].recs[k] \in Nat
  <1> DEFINE R == [recs : Seq(Nat), size : Nat \ {0}]
  <1>1. prog \in [Arrays -> R]
    BY ProgInfoAssumption
  <1>2. \A r \in R : r.recs \in Seq(Nat) /\ r.size \in Nat \ {0}
    OBVIOUS
  <1> HIDE DEF R
  <1>3. prog[a] \in R
    BY <1>1
  <1> DEFINE s == prog[a].recs
  <1>4. s \in Seq(Nat) /\ prog[a].size \in Nat \ {0}
    BY <1>2, <1>3
  <1> HIDE DEF s
  <1>5. Len(s) \in Nat /\ DOMAIN s = 1 .. Len(s) /\ \A k \in 1 .. Len(s) : s[k] \in Nat
    BY <1>4
  <1> QED BY <1>4, <1>5 DEF s

\* What the kernel says of the arrays it knows.
InfoOf(prog, known) == [a \in known |-> [count |-> Len(prog[a].recs), size |-> prog[a].size]]
\* Where an array begins in the block.
OffsetOf(info, want, a) == Before(info, want, PlaceOf(a) - 1)
\* Where all of them do.
Offsets(info, want) == [a \in want |-> OffsetOf(info, want, a)]

\* What the arrays take.
LEMMA ExtentsAre ==
  ASSUME NEW prog \in InfoPrograms, NEW known \in SUBSET Arrays, NEW want \in SUBSET known,
         NEW info, info = InfoOf(prog, known)
  PROVE  /\ Extents(info, want) \in Seq(Nat) /\ Len(Extents(info, want)) = Len(InfoArrays)
         /\ \A a \in want : /\ info[a].count = Len(prog[a].recs) /\ info[a].size = prog[a].size
                            /\ Extent(info, a) \in Nat
                            /\ Extents(info, want)[PlaceOf(a)] = Extent(info, a)
  <1>1. ASSUME NEW a \in want
        PROVE  info[a].count = Len(prog[a].recs) /\ info[a].size = prog[a].size /\ Extent(info, a) \in Nat
    <2>1. info[a].count = Len(prog[a].recs) /\ info[a].size = prog[a].size
      BY DEF InfoOf
    <2>2. Len(prog[a].recs) \in Nat /\ prog[a].size \in Nat
      BY ProgramIs
    <2> QED BY <2>1, <2>2 DEF Extent
  <1> DEFINE n == Len(InfoArrays)
             d == [k \in 1 .. n |-> IF InfoArrays[k] \in want THEN Extent(info, InfoArrays[k]) ELSE 0]
  <1>2. Extents(info, want) = d /\ n \in Nat
    BY ArrayPlaces DEF Extents
  <1>3. \A k \in 1 .. n : (IF InfoArrays[k] \in want THEN Extent(info, InfoArrays[k]) ELSE 0) \in Nat
    BY <1>1
  <1>4. d \in Seq(Nat) /\ Len(d) = n
    BY <1>2, <1>3
  <1>5. \A a \in want : d[PlaceOf(a)] = Extent(info, a)
    BY ArrayPlaces
  <1> QED BY <1>1, <1>2, <1>4, <1>5

\* The arrays lie one behind the other.
LEMMA LayoutIs ==
  ASSUME NEW prog \in InfoPrograms, NEW known \in SUBSET Arrays, NEW want \in SUBSET known,
         NEW info, info = InfoOf(prog, known)
  PROVE  /\ Before(info, want, Len(InfoArrays)) \in Nat
         /\ \A a \in want : /\ OffsetOf(info, want, a) \in Nat /\ Extent(info, a) \in Nat
                            /\ OffsetOf(info, want, a) + Extent(info, a) <= Before(info, want, Len(InfoArrays))
         /\ \A a, b \in want : PlaceOf(a) < PlaceOf(b) =>
              OffsetOf(info, want, a) + Extent(info, a) <= OffsetOf(info, want, b)
  <1> DEFINE d == Extents(info, want)
             f == Sums(d)
             n == Len(InfoArrays)
  <1>1. d \in Seq(Nat) /\ Len(d) = n /\ n \in Nat /\ \A a \in want : Extent(info, a) \in Nat /\ d[PlaceOf(a)] = Extent(info, a)
    BY ExtentsAre, ArrayPlaces
  <1>2. f \in [0 .. n -> Nat] /\ \A k \in 1 .. n : f[k] = f[k - 1] + d[k]
    BY <1>1, SumsAre
  <1>3. \A j, k \in 0 .. n : j <= k => f[j] <= f[k]
    BY <1>1, SumsRise
  <1>4. \A k : Before(info, want, k) = f[k]
    BY DEF Before
  <1>5. \A a \in want : OffsetOf(info, want, a) = f[PlaceOf(a) - 1] /\ PlaceOf(a) \in 1 .. n
    BY <1>4, ArrayPlaces DEF OffsetOf
  <1> HIDE DEF d, f, n
  <1>6. n \in 0 .. n /\ f[n] \in Nat
    BY <1>1, <1>2
  <1>7. ASSUME NEW a \in want
        PROVE  /\ f[PlaceOf(a) - 1] \in Nat /\ PlaceOf(a) - 1 \in 0 .. n /\ PlaceOf(a) \in 0 .. n
               /\ f[PlaceOf(a) - 1] + Extent(info, a) = f[PlaceOf(a)]
    <2>1. PlaceOf(a) \in 1 .. n /\ PlaceOf(a) - 1 \in 0 .. n /\ PlaceOf(a) \in 0 .. n
      BY <1>1, <1>5
    <2> QED BY <1>1, <1>2, <2>1
  <1>8. ASSUME NEW a \in want
        PROVE  OffsetOf(info, want, a) \in Nat /\ OffsetOf(info, want, a) + Extent(info, a) <= f[n]
    <2>1. f[PlaceOf(a)] <= f[n]
      BY <1>1, <1>3, <1>5, <1>6, <1>7
    <2> QED BY <1>5, <1>7, <2>1
  <1>9. ASSUME NEW a \in want, NEW b \in want, PlaceOf(a) < PlaceOf(b)
        PROVE  OffsetOf(info, want, a) + Extent(info, a) <= OffsetOf(info, want, b)
    <2>1. PlaceOf(a) <= PlaceOf(b) - 1 /\ PlaceOf(a) \in 0 .. n /\ PlaceOf(b) - 1 \in 0 .. n
      BY <1>1, <1>5, <1>9
    <2>2. f[PlaceOf(a)] <= f[PlaceOf(b) - 1]
      BY <1>3, <2>1
    <2> QED BY <1>5, <1>7, <2>2
  <1> QED BY <1>1, <1>4, <1>6, <1>8, <1>9 DEF n

\* Rounding up takes nothing away.
LEMMA RoundUpIs ==
  ASSUME NEW n \in Nat PROVE RoundUp(n) \in Nat /\ RoundUp(n) >= n
  <1>1. InfoAlign \in Nat \ {0}
    BY ProgInfoAssumption
  <1> DEFINE m == n + InfoAlign - 1
             q == m \div InfoAlign
  <1>2. m \in Nat
    BY <1>1
  <1>3. m % InfoAlign \in 0 .. InfoAlign - 1 /\ q \in Int /\ m = InfoAlign * q + (m % InfoAlign)
    BY <1>1, <1>2, ModDef
  <1> DEFINE r == m % InfoAlign
  <1>4. RoundUp(n) = q * InfoAlign
    BY DEF RoundUp
  <1> HIDE DEF q, r
  <1>5. q * InfoAlign = InfoAlign * q /\ InfoAlign * q \in Int
    BY <1>1, <1>3
  <1>6. InfoAlign * q = n + InfoAlign - 1 - r /\ r \in 0 .. InfoAlign - 1
    BY <1>1, <1>3, <1>5 DEF r
  <1> QED BY <1>1, <1>4, <1>5, <1>6

\* An array is whole in a block where it was put.
WholeIn(prog, info, want, len, mem, a) ==
  /\ Len(mem) = len /\ OffsetOf(info, want, a) + Extent(info, a) <= len
  /\ \A k \in 1 .. info[a].count : mem[OffsetOf(info, want, a) + (k - 1) * info[a].size + 1] = prog[a].recs[k]

\* Each array that is shown is.
LEMMA WrittenIs ==
  ASSUME NEW prog \in InfoPrograms, NEW known \in SUBSET Arrays, NEW want \in SUBSET known,
         NEW info, info = InfoOf(prog, known), NEW shown \in SUBSET want,
         NEW offs, offs = Offsets(info, want),
         NEW len \in Nat, len >= Before(info, want, Len(InfoArrays)),
         NEW mem, mem = Written(prog, info, offs, shown, len), NEW a \in shown
  PROVE  WholeIn(prog, info, want, len, mem, a)
  <1> DEFINE o == OffsetOf(info, want, a)
             size == prog[a].size
             count == Len(prog[a].recs)
  <1>1. /\ info[a].count = count /\ info[a].size = size /\ Extent(info, a) \in Nat
        /\ Extent(info, a) = count * size /\ count \in Nat /\ size \in Nat \ {0}
    <2>1. info[a].count = count /\ info[a].size = size /\ Extent(info, a) \in Nat
      BY ExtentsAre
    <2>2. count \in Nat /\ size \in Nat \ {0}
      BY ProgramIs
    <2>3. Extent(info, a) = count * size
      BY <2>1 DEF Extent
    <2> QED BY <2>1, <2>2, <2>3
  <1>2. /\ Before(info, want, Len(InfoArrays)) \in Nat
        /\ \A b \in want : /\ OffsetOf(info, want, b) \in Nat /\ Extent(info, b) \in Nat
                           /\ OffsetOf(info, want, b) + Extent(info, b) <= Before(info, want, Len(InfoArrays))
        /\ \A b, c \in want : PlaceOf(b) < PlaceOf(c) =>
             OffsetOf(info, want, b) + Extent(info, b) <= OffsetOf(info, want, c)
    BY LayoutIs
  <1>3. o \in Nat /\ o + Extent(info, a) <= len
    BY <1>2
  <1>4. Len(mem) = len
    BY DEF Written
  <1>5. ASSUME NEW k \in 1 .. count PROVE mem[o + (k - 1) * size + 1] = prog[a].recs[k]
    <2> DEFINE at == (k - 1) * size
               w == o + at + 1
               here == {j \in DOMAIN InfoArrays :
                          InfoArrays[j] \in shown /\ w - 1 - offs[InfoArrays[j]] \in 0 .. Extent(info, InfoArrays[j]) - 1}
               b == InfoArrays[Max(here)]
    <2>1. at \in 0 .. count * size - 1 /\ at \in Nat
      <3> HIDE DEF size, count
      <3>1. k - 1 \in Nat /\ count - k \in Nat /\ size \in Nat /\ size >= 1
        BY <1>1
      <3>2. (k - 1) * size \in Nat /\ (count - k) * size \in Nat
        BY <3>1
      <3>3. count * size = (k - 1) * size + (count - k) * size + size
        BY <1>1, <3>1
      <3> QED BY <3>1, <3>2, <3>3
    <2> HIDE DEF at
    <2>2. w \in 1 .. len /\ w - 1 - o = at /\ offs[a] = o /\ w \in Nat
      <3>1. at < Extent(info, a) /\ Extent(info, a) \in Nat /\ at \in Nat
        BY <1>1, <2>1
      <3>2. offs[a] = o
        BY DEF Offsets
      <3> HIDE DEF o
      <3> QED BY <1>3, <3>1, <3>2
    <2>3. ASSUME NEW j \in here PROVE j = PlaceOf(a)
      <3> DEFINE c == InfoArrays[j]
      <3>1. c \in want /\ PlaceOf(c) = j /\ PlaceOf(a) \in Nat /\ j \in Nat
        BY ArrayPlaces
      <3>2. offs[c] = OffsetOf(info, want, c) /\ w - 1 - offs[c] \in 0 .. Extent(info, c) - 1
        BY <3>1 DEF Offsets
      <3>3. o <= w - 1 /\ w - 1 < o + Extent(info, a)
        BY <1>1, <1>3, <2>1, <2>2
      <3> DEFINE oc == OffsetOf(info, want, c)
                 ec == Extent(info, c)
      <3>4. oc \in Nat /\ ec \in Nat
        BY <1>2, <3>1
      <3>5. oc <= w - 1 /\ w - 1 < oc + ec
        BY <2>2, <3>2, <3>4
      <3>6. ~ PlaceOf(a) < PlaceOf(c)
        <4>1. PlaceOf(a) < PlaceOf(c) => o + Extent(info, a) <= oc
          BY <1>2, <3>1
        <4> HIDE DEF o, w, oc, ec, c
        <4> QED BY <1>1, <1>3, <2>2, <3>3, <3>4, <3>5, <4>1
      <3>7. ~ PlaceOf(c) < PlaceOf(a)
        <4>1. PlaceOf(c) < PlaceOf(a) => oc + ec <= o
          BY <1>2, <3>1
        <4> HIDE DEF o, w, oc, ec, c
        <4> QED BY <1>1, <1>3, <2>2, <3>3, <3>4, <3>5, <4>1
      <3> QED BY <3>1, <3>6, <3>7
    <2>4. PlaceOf(a) \in here
      <3>1. PlaceOf(a) \in DOMAIN InfoArrays /\ InfoArrays[PlaceOf(a)] = a
        BY ArrayPlaces
      <3> QED BY <1>1, <2>1, <2>2, <3>1
    <2>5. Max(here) = PlaceOf(a) /\ b = a
      <3>1. PlaceOf(a) \in Int /\ InfoArrays[PlaceOf(a)] = a
        BY ArrayPlaces
      <3> HIDE DEF here
      <3>2. Max(here) = PlaceOf(a)
        BY <2>3, <2>4, <3>1, MaxIs
      <3> QED BY <3>1, <3>2
    <2>6. mem[w] = IF here = {} THEN Junk ELSE WordOf(prog[b], w - 1 - offs[b])
      BY <2>2 DEF Written
    <2>7. mem[w] = WordOf(prog[a], at)
      <3> HIDE DEF here, b, w
      <3> QED BY <2>2, <2>4, <2>5, <2>6
    <2>8. at % size = 0 /\ at \div size = k - 1
      <3>1. k - 1 \in Int /\ 0 \in 0 .. size - 1 /\ size * (k - 1) + 0 = at
        BY <1>1 DEF at
      <3>2. at % size = 0
        BY <1>1, <3>1, ModUnique
      <3>3. at \div size \in Int /\ at = size * (at \div size) + (at % size)
        <4>1. at \in Int /\ size \in Nat \ {0}
          BY <1>1, <2>1
        <4> HIDE DEF size
        <4> QED BY <4>1, ModDef
      <3> DEFINE q == at \div size
      <3> HIDE DEF q, size
      <3>4. size * q = size * (k - 1) /\ q \in Int /\ size \in Nat \ {0}
        BY <1>1, <3>1, <3>2, <3>3 DEF q
      <3>5. q = k - 1
        BY <3>4
      <3> QED BY <3>2, <3>5 DEF q
    <2>9. WordOf(prog[a], at) = prog[a].recs[k]
      <3>1. (k - 1) + 1 = k
        OBVIOUS
      <3> QED BY <2>8, <3>1 DEF WordOf
    <2> QED BY <2>7, <2>9 DEF at
  <1>6. \A k \in 1 .. info[a].count : mem[OffsetOf(info, want, a) + (k - 1) * info[a].size + 1] = prog[a].recs[k]
    BY <1>1, <1>5
  <1> QED BY <1>3, <1>4, <1>6 DEF WholeIn

\* The last of a set of records that is not after x.
LastOf(recs, S, x) == Max({k \in S : recs[k] <= x} \cup {0})

\* The search for the last record that is not after x, among records that do not fall.
LEMMA LastNotAfterIs ==
  ASSUME NEW recs, NEW start \in Nat, NEW n \in Nat, start >= 1, n >= 1, NEW x \in Int,
         \A k \in start .. start + n - 1 : recs[k] \in Nat,
         \A j, k \in start .. start + n - 1 : j <= k => recs[j] <= recs[k]
  PROVE  LastNotAfter(recs, start, n, x) = LastOf(recs, start .. start + n - 1, x)
  <1> DEFINE end == start + n - 1
             S == {k \in start .. end : recs[k] <= x} \cup {0}
             after == {i \in start .. end : x < recs[i]}
  <1>1. end \in Nat /\ start <= end /\ start \in start .. end /\ end \in start .. end
    OBVIOUS
  <1>2. LastNotAfter(recs, start, n, x) =
          IF x < recs[start] THEN 0 ELSE IF after = {} THEN end ELSE Min(after) - 1
    BY DEF LastNotAfter
  <1>3. \A k \in start .. end : recs[k] \in Nat
    OBVIOUS
  <1>4. \A j, k \in start .. end : j <= k => recs[j] <= recs[k]
    OBVIOUS
  <1> HIDE DEF end
  <1>5. CASE x < recs[start]
    <2>1. \A k \in start .. end : ~ recs[k] <= x
      <3> SUFFICES ASSUME NEW k \in start .. end PROVE ~ recs[k] <= x
        OBVIOUS
      <3>1. start <= k /\ recs[start] <= recs[k] /\ recs[start] \in Nat /\ recs[k] \in Nat
        BY <1>1, <1>3, <1>4
      <3> QED BY <1>5, <3>1
    <2>2. 0 \in S /\ \A y \in S : y \in Int /\ y <= 0
      BY <2>1
    <2> HIDE DEF S
    <2>3. Max(S) = 0
      BY <2>2, MaxIs
    <2> QED BY <1>2, <1>5, <2>3 DEF S, end, LastOf
  <1>6. CASE ~ x < recs[start] /\ after = {}
    <2>1. \A k \in start .. end : recs[k] <= x
      BY <1>3, <1>6
    <2>2. end \in S /\ \A y \in S : y \in Int /\ y <= end
      BY <1>1, <2>1
    <2> HIDE DEF S
    <2>3. Max(S) = end
      BY <1>1, <2>2, MaxIs
    <2> HIDE DEF after
    <2> QED BY <1>2, <1>6, <2>3 DEF S, end, LastOf
  <1>7. CASE ~ x < recs[start] /\ after # {}
    <2>1. after \in SUBSET Nat
      OBVIOUS
    <2>2. PICK i \in after : \A y \in after : i <= y
      <3> HIDE DEF after
      <3> QED BY <1>7, <2>1, LeastElement
    <2>3. Min(after) = i /\ i \in Nat
      <3>1. i \in Int /\ \A y \in after : y \in Int /\ i <= y
        BY <2>1, <2>2
      <3> HIDE DEF after
      <3> QED BY <2>1, <2>2, <3>1, MinIs
    <2>4. i \in start .. end /\ x < recs[i]
      BY <2>2
    <2>5. i # start
      BY <1>7, <2>4
    <2>6. i - 1 \in start .. end /\ i - 1 \notin after
      <3>1. i - 1 \in start .. end
        BY <1>1, <2>4, <2>5
      <3>2. ~ i <= i - 1
        BY <2>3
      <3> QED BY <2>2, <3>1, <3>2
    <2>7. recs[i - 1] <= x
      BY <1>3, <2>6
    <2>8. i - 1 \in S /\ \A y \in S : y \in Int /\ y <= i - 1
      <3>1. ASSUME NEW y \in start .. end, recs[y] <= x PROVE y <= i - 1
        <4>1. i <= y => recs[i] <= recs[y]
          BY <1>4, <2>4
        <4>2. ~ i <= y
          BY <1>3, <2>4, <3>1, <4>1
        <4> QED BY <2>3, <4>2
      <3>2. 0 <= i - 1
        BY <2>4, <2>5
      <3> QED BY <1>1, <2>6, <2>7, <3>1, <3>2
    <2> HIDE DEF S
    <2>9. Max(S) = i - 1
      BY <2>3, <2>8, MaxIs
    <2> HIDE DEF after
    <2> QED BY <1>2, <1>7, <2>3, <2>9 DEF S, end, LastOf
  <1> QED BY <1>5, <1>6, <1>7

\* A search that skips some of a row of records searches the rest.
LEMMA SkippedIs ==
  ASSUME NEW a \in Nat, NEW b \in Int, NEW skip \in Nat
  PROVE  Skipped(a .. b, skip) = a + skip .. b
  <1>1. ASSUME NEW k \in a .. b PROVE Cardinality({j \in a .. b : j < k}) = k - a
    <2>1. {j \in a .. b : j < k} = a .. k - 1
      OBVIOUS
    <2>2. Cardinality(a .. k - 1) = IF a > k - 1 THEN 0 ELSE (k - 1) - a + 1
      <3>1. a \in Int /\ k - 1 \in Int
        OBVIOUS
      <3> QED BY <3>1, FS_Interval
    <2>3. (IF a > k - 1 THEN 0 ELSE (k - 1) - a + 1) = k - a
      OBVIOUS
    <2> QED BY <2>1, <2>2, <2>3
  <1>2. Skipped(a .. b, skip) = {k \in a .. b : k - a >= skip}
    BY <1>1 DEF Skipped
  <1>3. {k \in a .. b : k - a >= skip} = a + skip .. b
    OBVIOUS
  <1> QED BY <1>2, <1>3

\* Records that do not fall.
InOrder(recs, a, b) ==
  (\A k \in a .. b : recs[k] \in Nat) /\ \A j, k \in a .. b : j <= k => recs[j] <= recs[k]

\* A search among n records from a on, all but the first skip ones.
SearchFrom(recs, a, n, skip, x) == IF skip >= n THEN 0 ELSE LastNotAfter(recs, a + skip, n - skip, x)

\* It finds the last of them.
LEMMA SearchIs ==
  ASSUME NEW recs, NEW a \in Nat, a >= 1, NEW b \in Int, NEW skip \in Nat, NEW x \in Int, InOrder(recs, a, b),
         NEW num \in Int, num = b - a + 1
  PROVE  SearchFrom(recs, a, num, skip, x) = LastOf(recs, Skipped(a .. b, skip), x)
  <1> DEFINE start == a + skip
             n == b - a + 1 - skip
  <1>0. (\A k \in a .. b : recs[k] \in Nat) /\ \A j, k \in a .. b : j <= k => recs[j] <= recs[k]
    BY DEF InOrder
  <1>1. Skipped(a .. b, skip) = start .. b
    BY SkippedIs
  <1>2. CASE skip >= b - a + 1
    <2> DEFINE S == {k \in start .. b : recs[k] <= x} \cup {0}
    <2>1. start .. b = {}
      BY <1>2
    <2>2. 0 \in S /\ \A y \in S : y \in Int /\ y <= 0
      BY <2>1
    <2> HIDE DEF S
    <2>3. Max(S) = 0
      BY <2>2, MaxIs
    <2> QED BY <1>1, <1>2, <2>3 DEF S, SearchFrom, LastOf
  <1>3. CASE ~ skip >= b - a + 1
    <2>1. start \in Nat /\ n \in Nat /\ start >= 1 /\ n >= 1 /\ start + n - 1 = b
      BY <1>3
    <2> HIDE DEF n
    <2>2. \A k \in start .. start + n - 1 : k \in a .. b
      BY <2>1
    <2>3. \A k \in start .. start + n - 1 : recs[k] \in Nat
      BY <1>0, <2>2
    <2>4. \A j, k \in start .. start + n - 1 : j <= k => recs[j] <= recs[k]
      BY <1>0, <2>2
    <2> HIDE DEF start
    <2>5. LastNotAfter(recs, start, n, x) = LastOf(recs, start .. start + n - 1, x)
      BY <2>1, <2>3, <2>4, LastNotAfterIs
    <2> QED BY <1>1, <1>3, <2>1, <2>5 DEF n, start, SearchFrom
  <1> QED BY <1>2, <1>3

\* dissect_jited_func: idx after each of its turns.
Dissects(jited, ksyms, lens, g) ==
  /\ g[1] = IF jited[1] = ksyms[1] THEN <<1>> ELSE <<>>
  /\ \A i \in 2 .. Len(jited) : g[i] = DissectTurn(jited, ksyms, lens, g[i - 1], i)

\* The loop of dissect_jited_func takes a turn for each record.
LEMMA DissectLoop ==
  ASSUME NEW jited \in Seq(Nat), Len(jited) > 0, NEW ksyms, NEW lens
  PROVE  \E g \in [1 .. Len(jited) -> Seq(Nat)] :
           /\ Dissects(jited, ksyms, lens, g)
           /\ Dissect(jited, ksyms, lens) = IF Len(g[Len(jited)]) = Len(ksyms) THEN g[Len(jited)] ELSE <<>>
  <1> DEFINE n == Len(jited)
             x == IF jited[1] = ksyms[1] THEN <<1>> ELSE <<>>
             N(idx, i) == DissectTurn(jited, ksyms, lens, idx, i)
             F == [p \in Nat \X Seq(Nat) |-> N(p[2], p[1] + 1)]
             D(f) == f = [i \in 1 .. n |-> IF i = 1 THEN x ELSE N(f[i - 1], i)]
  <1>1. n \in Nat /\ n >= 1
    OBVIOUS
  <1>2. x \in Seq(Nat)
    <2>1. <<1>> \in Seq(Nat) /\ <<>> \in Seq(Nat)
      OBVIOUS
    <2> QED BY <2>1
  <1>3. ASSUME NEW idx \in Seq(Nat), NEW i \in Nat PROVE N(idx, i) \in Seq(Nat)
    <2>1. Append(idx, i) \in Seq(Nat) /\ <<>> \in Seq(Nat)
      OBVIOUS
    <2> QED BY <2>1 DEF DissectTurn
  <1> HIDE DEF N
  <1>4. F \in [Nat \X Seq(Nat) -> Seq(Nat)] /\ \A k \in Nat, y \in Seq(Nat) : F[<<k, y>>] = N(y, k + 1)
    <2> DEFINE Q == Seq(Nat)
    <2>1. \A k \in Nat, y \in Q : N(y, k + 1) \in Q
      BY <1>3
    <2> HIDE DEF Q
    <2> DEFINE G == [p \in Nat \X Q |-> N(p[2], p[1] + 1)]
    <2>2. G \in [Nat \X Q -> Q] /\ \A k \in Nat, y \in Q : G[<<k, y>>] = N(y, k + 1)
      BY <2>1
    <2> HIDE DEF G
    <2>3. F = G
      BY DEF G, Q
    <2> QED BY <2>2, <2>3 DEF Q
  <1> HIDE DEF F, x, n
  <1>5. n - 1 \in Nat
    BY <1>1
  <1>6. PICK h \in [0 .. n - 1 -> Seq(Nat)] : Steps(h, n - 1, x, F)
    BY <1>2, <1>4, <1>5, StepsExist
  <1> DEFINE e == [i \in 1 .. n |-> h[i - 1]]
  <1>7. \A i \in 1 .. n : e[i] = IF i = 1 THEN x ELSE N(e[i - 1], i)
    <2> SUFFICES ASSUME NEW i \in 1 .. n PROVE e[i] = IF i = 1 THEN x ELSE N(e[i - 1], i)
      OBVIOUS
    <2>1. CASE i = 1
      <3>1. i - 1 = 0 /\ h[0] = x
        BY <1>6, <2>1 DEF Steps
      <3> QED BY <2>1, <3>1
    <2>2. CASE i # 1
      <3>1. i - 1 \in 1 .. n /\ i - 1 \in 1 .. n - 1 /\ i - 1 \in Nat /\ (i - 1) - 1 \in 0 .. n - 1 /\ (i - 1) + 1 = i
        BY <1>1, <2>2
      <3>2. h[i - 1] = F[<<i - 1, h[(i - 1) - 1]>>] /\ h[(i - 1) - 1] \in Seq(Nat)
        BY <1>6, <3>1 DEF Steps
      <3>3. h[i - 1] = N(h[(i - 1) - 1], i)
        BY <1>4, <3>1, <3>2
      <3> QED BY <2>2, <3>1, <3>3
    <2> QED BY <2>1, <2>2
  <1>8. D(e)
    <2>1. e = [i \in 1 .. n |-> e[i]]
      OBVIOUS
    <2> HIDE DEF e
    <2> QED BY <1>7, <2>1
  <1> HIDE DEF e
  <1> DEFINE g == CHOOSE f : D(f)
  <1>9. D(g)
    <2> HIDE DEF D
    <2> QED BY <1>8
  <1>10. Dissect(jited, ksyms, lens) = IF Len(g[n]) = Len(ksyms) THEN g[n] ELSE <<>>
    BY DEF Dissect, N, x, n
  <1> HIDE DEF g
  <1>11. \A i \in 1 .. n : g[i] = IF i = 1 THEN x ELSE N(g[i - 1], i)
    BY <1>1, <1>9
  <1>12. g = [i \in 1 .. n |-> g[i]]
    BY <1>9
  <1> HIDE DEF D
  <1>13. \A i \in 1 .. n : g[i] \in Seq(Nat)
    <2> DEFINE T == {i \in Nat : i + 1 <= n => g[i + 1] \in Seq(Nat)}
    <2>1. 0 \in T
      <3>1. 0 + 1 = 1 /\ 1 \in 1 .. n
        BY <1>1
      <3> QED BY <1>2, <1>11, <3>1
    <2>2. ASSUME NEW i \in T PROVE i + 1 \in T
      <3> SUFFICES ASSUME (i + 1) + 1 <= n PROVE g[(i + 1) + 1] \in Seq(Nat)
        OBVIOUS
      <3>1. (i + 1) + 1 \in 1 .. n /\ (i + 1) + 1 # 1 /\ ((i + 1) + 1) - 1 = i + 1 /\ g[i + 1] \in Seq(Nat)
        BY <1>1
      <3>2. g[(i + 1) + 1] = N(g[i + 1], (i + 1) + 1)
        BY <1>11, <3>1
      <3>3. (i + 1) + 1 \in Nat
        BY <3>1
      <3> QED BY <1>3, <3>1, <3>2, <3>3
    <2> HIDE DEF T
    <2>3. T = Nat
      <3>1. T \in SUBSET Nat
        BY DEF T
      <3> QED BY <2>1, <2>2, <3>1, SetInduction
    <2>4. \A i \in 1 .. n : i - 1 \in T /\ (i - 1) + 1 = i /\ i <= n
      BY <1>1, <2>3
    <2> QED BY <2>4 DEF T
  <1>14. g \in [1 .. n -> Seq(Nat)]
    BY <1>12, <1>13
  <1>15. Dissects(jited, ksyms, lens, g)
    <2>1. 1 \in 1 .. n /\ \A i \in 2 .. n : i \in 1 .. n /\ i # 1
      BY <1>1
    <2>2. g[1] = x /\ \A i \in 2 .. n : g[i] = N(g[i - 1], i)
      BY <1>11, <2>1
    <2> QED BY <2>2 DEF Dissects, N, x, n
  <1> QED BY <1>10, <1>14, <1>15 DEF n

\* Addresses rise from a to b.
RisesIn(jited, a, b) == \A j, k \in a .. b : j < k => jited[j] < jited[k]

\* What has been found after i turns that refused nothing.
FirstsAre(jited, ksyms, lens, i, idx) ==
  /\ Len(idx) \in 1 .. Len(ksyms) /\ idx[1] = 1
  /\ \A g \in 1 .. Len(idx) : idx[g] \in 1 .. i /\ jited[idx[g]] = ksyms[g]
  /\ \A g \in 1 .. Len(idx) - 1 : /\ idx[g] < idx[g + 1] /\ jited[idx[g + 1] - 1] - ksyms[g] + 1 <= lens[g]
                                  /\ RisesIn(jited, idx[g], idx[g + 1] - 1)
  /\ Len(idx) < Len(ksyms) => RisesIn(jited, idx[Len(idx)], i)
  /\ \A k \in 1 .. i : \E g \in 1 .. Len(idx) : idx[g] <= k /\ (g < Len(idx) => k < idx[g + 1])

\* A turn that refuses nothing finds the next function, or another record of the one it is in.
LEMMA TurnFinds ==
  ASSUME NEW jited, NEW ksyms, NEW lens, NEW i \in Nat \ {0}, NEW idx \in Seq(Nat), Len(ksyms) \in Nat,
         \A k \in 1 .. i + 1 : jited[k] \in Nat,
         FirstsAre(jited, ksyms, lens, i, idx)
  PROVE  LET now == DissectTurn(jited, ksyms, lens, idx, i + 1)
         IN now = <<>> \/ FirstsAre(jited, ksyms, lens, i + 1, now)
  <1> DEFINE f == Len(idx)
             m == Len(ksyms)
             now == DissectTurn(jited, ksyms, lens, idx, i + 1)
  <1>1. /\ f \in 1 .. m /\ idx[1] = 1
        /\ \A g \in 1 .. f : idx[g] \in 1 .. i /\ jited[idx[g]] = ksyms[g]
        /\ \A g \in 1 .. f - 1 : /\ idx[g] < idx[g + 1] /\ jited[idx[g + 1] - 1] - ksyms[g] + 1 <= lens[g]
                                 /\ RisesIn(jited, idx[g], idx[g + 1] - 1)
        /\ f < m => RisesIn(jited, idx[f], i)
        /\ \A k \in 1 .. i : \E g \in 1 .. f : idx[g] <= k /\ (g < f => k < idx[g + 1])
    BY DEF FirstsAre
  <1>2. f \in Nat /\ m \in Nat /\ f # 0 /\ f <= m /\ (i + 1) - 1 = i
    BY <1>1
  <1>3. f \in 1 .. f
    BY <1>2
  <1>4. CASE f = m
    <2>1. now = idx
      BY <1>4 DEF DissectTurn
    <2>2. \A k \in 1 .. i + 1 : \E g \in 1 .. f : idx[g] <= k /\ (g < f => k < idx[g + 1])
      <3> SUFFICES ASSUME NEW k \in 1 .. i + 1 PROVE \E g \in 1 .. f : idx[g] <= k /\ (g < f => k < idx[g + 1])
        OBVIOUS
      <3>1. CASE k \in 1 .. i
        BY <1>1, <3>1
      <3>2. CASE k \notin 1 .. i
        <4>1. k = i + 1 /\ idx[f] \in 1 .. i
          BY <1>1, <1>3, <3>2
        <4>2. idx[f] <= k /\ ~ f < f
          BY <1>2, <4>1
        <4> QED BY <1>3, <4>2
      <3> QED BY <3>1, <3>2
    <2>3. \A g \in 1 .. f : idx[g] \in 1 .. i + 1
      BY <1>1
    <2>4. FirstsAre(jited, ksyms, lens, i + 1, idx)
      BY <1>1, <1>2, <1>4, <2>2, <2>3 DEF FirstsAre
    <2> QED BY <2>1, <2>4
  <1>5. CASE f # m /\ jited[i + 1] = ksyms[f + 1]
    <2>1. now = IF ~ jited[i] - ksyms[f] + 1 <= lens[f] THEN <<>> ELSE Append(idx, i + 1)
      BY <1>2, <1>5 DEF DissectTurn
    <2>2. SUFFICES ASSUME jited[i] - ksyms[f] + 1 <= lens[f]
                   PROVE  FirstsAre(jited, ksyms, lens, i + 1, Append(idx, i + 1))
      BY <2>1
    <2> DEFINE new == Append(idx, i + 1)
    <2>3. Len(new) = f + 1 /\ new[f + 1] = i + 1 /\ \A g \in 1 .. f : new[g] = idx[g]
      OBVIOUS
    <2> HIDE DEF new, f, m
    <2>4. Len(new) \in 1 .. m /\ new[1] = 1
      BY <1>1, <1>2, <1>5, <2>3
    <2>5. \A g \in 1 .. f + 1 : new[g] \in 1 .. i + 1 /\ jited[new[g]] = ksyms[g]
      <3> SUFFICES ASSUME NEW g \in 1 .. f + 1 PROVE new[g] \in 1 .. i + 1 /\ jited[new[g]] = ksyms[g]
        OBVIOUS
      <3>1. CASE g = f + 1
        BY <1>5, <2>3, <3>1
      <3>2. CASE g # f + 1
        <4>1. g \in 1 .. f
          BY <1>2, <3>2
        <4>2. idx[g] \in 1 .. i /\ jited[idx[g]] = ksyms[g]
          BY <1>1, <4>1
        <4>3. new[g] = idx[g] /\ idx[g] \in 1 .. i + 1
          BY <2>3, <4>1, <4>2
        <4> QED BY <4>2, <4>3
      <3> QED BY <3>1, <3>2
    <2>6. ASSUME NEW g \in 1 .. f
          PROVE  /\ new[g] < new[g + 1] /\ jited[new[g + 1] - 1] - ksyms[g] + 1 <= lens[g]
                 /\ RisesIn(jited, new[g], new[g + 1] - 1)
      <3>1. CASE g = f
        <4>1. new[g] = idx[f] /\ new[g + 1] = i + 1 /\ idx[f] \in 1 .. i /\ new[g + 1] - 1 = i
          BY <1>1, <1>3, <2>3, <3>1
        <4>2. RisesIn(jited, idx[f], i)
          BY <1>1, <1>2, <1>5
        <4> QED BY <2>2, <3>1, <4>1, <4>2
      <3>2. CASE g # f
        <4>1. g \in 1 .. f - 1 /\ g + 1 \in 1 .. f
          BY <1>2, <3>2
        <4>2. new[g] = idx[g] /\ new[g + 1] = idx[g + 1]
          BY <2>3, <4>1
        <4> QED BY <1>1, <4>1, <4>2
      <3> QED BY <3>1, <3>2
    <2>7. RisesIn(jited, new[f + 1], i + 1)
      BY <2>3 DEF RisesIn
    <2>8. \A k \in 1 .. i + 1 : \E g \in 1 .. f + 1 : new[g] <= k /\ (g < f + 1 => k < new[g + 1])
      <3> SUFFICES ASSUME NEW k \in 1 .. i + 1 PROVE \E g \in 1 .. f + 1 : new[g] <= k /\ (g < f + 1 => k < new[g + 1])
        OBVIOUS
      <3>1. CASE k \in 1 .. i
        <4>1. PICK g \in 1 .. f : idx[g] <= k /\ (g < f => k < idx[g + 1])
          BY <1>1, <3>1
        <4>2. g \in 1 .. f + 1 /\ new[g] = idx[g]
          BY <1>2, <2>3
        <4>3. k < new[g + 1]
          <5>1. CASE g = f
            BY <2>3, <3>1, <5>1
          <5>2. CASE g # f
            <6>1. g < f /\ g + 1 \in 1 .. f
              BY <1>2, <5>2
            <6> QED BY <2>3, <4>1, <6>1
          <5> QED BY <5>1, <5>2
        <4> QED BY <4>1, <4>2, <4>3
      <3>2. CASE k \notin 1 .. i
        <4>1. k = i + 1 /\ f + 1 \in 1 .. f + 1 /\ ~ f + 1 < f + 1
          BY <1>2, <3>2
        <4>2. new[f + 1] <= k
          BY <2>3, <4>1
        <4> QED BY <4>1, <4>2
      <3> QED BY <3>1, <3>2
    <2>9. f + 1 - 1 = f
      BY <1>2
    <2> DEFINE L == Len(new)
    <2>10. L = f + 1 /\ L - 1 = f
      BY <1>2, <2>3
    <2> HIDE DEF L
    <2>11. /\ L \in 1 .. m /\ new[1] = 1
           /\ \A g \in 1 .. L : new[g] \in 1 .. i + 1 /\ jited[new[g]] = ksyms[g]
      BY <2>4, <2>5, <2>10 DEF L
    <2>12. \A g \in 1 .. L - 1 : /\ new[g] < new[g + 1] /\ jited[new[g + 1] - 1] - ksyms[g] + 1 <= lens[g]
                                 /\ RisesIn(jited, new[g], new[g + 1] - 1)
      BY <2>6, <2>10
    <2>13. L < m => RisesIn(jited, new[L], i + 1)
      BY <2>7, <2>10
    <2>14. \A k \in 1 .. i + 1 : \E g \in 1 .. L : new[g] <= k /\ (g < L => k < new[g + 1])
      BY <2>8, <2>10
    <2>15. FirstsAre(jited, ksyms, lens, i + 1, new)
      BY <2>11, <2>12, <2>13, <2>14 DEF FirstsAre, m, L
    <2> QED BY <2>15 DEF new
  <1>6. CASE f # m /\ jited[i + 1] # ksyms[f + 1]
    <2>1. now = IF ~ jited[i + 1] > jited[i] THEN <<>> ELSE idx
      BY <1>2, <1>6 DEF DissectTurn
    <2>2. SUFFICES ASSUME jited[i + 1] > jited[i] PROVE FirstsAre(jited, ksyms, lens, i + 1, idx)
      BY <2>1
    <2> HIDE DEF f, m
    <2>3. RisesIn(jited, idx[f], i + 1)
      <3>1. idx[f] \in 1 .. i /\ RisesIn(jited, idx[f], i)
        BY <1>1, <1>2, <1>3, <1>6
      <3> SUFFICES ASSUME NEW j \in idx[f] .. i + 1, NEW k \in idx[f] .. i + 1, j < k PROVE jited[j] < jited[k]
        BY DEF RisesIn
      <3>2. j \in idx[f] .. i /\ i \in idx[f] .. i /\ jited[j] \in Nat /\ jited[i] \in Nat /\ jited[i + 1] \in Nat
        <4>1. j \in 1 .. i + 1 /\ i \in 1 .. i + 1 /\ i + 1 \in 1 .. i + 1 /\ j \in idx[f] .. i
          BY <3>1
        <4> QED BY <3>1, <4>1
      <3>3. CASE k = i + 1
        <4>1. jited[j] <= jited[i]
          <5>1. CASE j = i
            BY <3>2, <5>1
          <5>2. CASE j # i
            <6>1. j < i
              BY <3>1, <3>2, <5>2
            <6> QED BY <3>1, <3>2, <6>1 DEF RisesIn
          <5> QED BY <5>1, <5>2
        <4> QED BY <2>2, <3>2, <3>3, <4>1
      <3>4. CASE k # i + 1
        <4>1. k \in idx[f] .. i
          BY <3>1, <3>4
        <4> QED BY <3>1, <3>2, <4>1 DEF RisesIn
      <3> QED BY <3>3, <3>4
    <2>4. \A k \in 1 .. i + 1 : \E g \in 1 .. f : idx[g] <= k /\ (g < f => k < idx[g + 1])
      <3> SUFFICES ASSUME NEW k \in 1 .. i + 1 PROVE \E g \in 1 .. f : idx[g] <= k /\ (g < f => k < idx[g + 1])
        OBVIOUS
      <3>1. CASE k \in 1 .. i
        BY <1>1, <3>1
      <3>2. CASE k \notin 1 .. i
        <4>1. k = i + 1 /\ idx[f] \in 1 .. i
          BY <1>1, <1>3, <3>2
        <4>2. idx[f] <= k /\ ~ f < f
          BY <1>2, <4>1
        <4> QED BY <1>3, <4>2
      <3> QED BY <3>1, <3>2
    <2>5. \A g \in 1 .. f : idx[g] \in 1 .. i + 1
      BY <1>1
    <2> QED BY <1>1, <2>3, <2>4, <2>5 DEF FirstsAre, f, m
  <1> QED BY <1>4, <1>5, <1>6

\* No turn goes on after a refusal.
LEMMA TurnRefused ==
  ASSUME NEW jited, NEW ksyms, NEW lens, NEW i
  PROVE  DissectTurn(jited, ksyms, lens, <<>>, i) = <<>>
  <1>1. Len(<<>>) = 0
    OBVIOUS
  <1> QED BY <1>1 DEF DissectTurn

\* What dissect_jited_func returns has a first record for each function.
LEMMA DissectSound ==
  ASSUME NEW jited \in Seq(Nat), Len(jited) > 0, NEW ksyms, Len(ksyms) \in Nat \ {0}, NEW lens,
         NEW idx, idx = Dissect(jited, ksyms, lens), idx # <<>>
  PROVE  idx \in Seq(Nat) /\ Len(idx) = Len(ksyms) /\ FirstsAre(jited, ksyms, lens, Len(jited), idx)
  <1> DEFINE n == Len(jited)
  <1>1. n \in Nat /\ n >= 1 /\ n \in 1 .. n /\ 1 \in 1 .. n
    OBVIOUS
  <1>2. PICK g \in [1 .. n -> Seq(Nat)] :
          Dissects(jited, ksyms, lens, g) /\ idx = IF Len(g[n]) = Len(ksyms) THEN g[n] ELSE <<>>
    BY DissectLoop
  <1>3. idx = g[n] /\ Len(idx) = Len(ksyms) /\ idx \in Seq(Nat)
    BY <1>1, <1>2
  <1>4. /\ g[1] = IF jited[1] = ksyms[1] THEN <<1>> ELSE <<>>
        /\ \A i \in 2 .. n : g[i] = DissectTurn(jited, ksyms, lens, g[i - 1], i)
    BY <1>2 DEF Dissects
  <1> HIDE DEF n
  <1> DEFINE T == {i \in Nat : i + 1 <= n => g[i + 1] = <<>> \/ FirstsAre(jited, ksyms, lens, i + 1, g[i + 1])}
  <1>5. 0 \in T
    <2>1. CASE jited[1] # ksyms[1]
      <3>1. g[0 + 1] = <<>>
        BY <1>4, <2>1
      <3> QED BY <3>1
    <2>2. CASE jited[1] = ksyms[1]
      <3> DEFINE one == <<1>>
      <3>1. g[0 + 1] = one /\ Len(one) = 1 /\ one[1] = 1
        BY <1>4, <2>2
      <3> HIDE DEF one
      <3>2. Len(one) \in 1 .. Len(ksyms)
        BY <3>1
      <3>3. \A k \in 1 .. Len(one) : one[k] \in 1 .. 1 /\ jited[one[k]] = ksyms[k]
        BY <2>2, <3>1
      <3>4. 1 .. Len(one) - 1 = {}
        BY <3>1
      <3>5. RisesIn(jited, one[Len(one)], 1)
        BY <3>1 DEF RisesIn
      <3>6. \A k \in 1 .. 1 : \E f \in 1 .. Len(one) : one[f] <= k /\ (f < Len(one) => k < one[f + 1])
        BY <3>1
      <3>7. FirstsAre(jited, ksyms, lens, 1, one)
        BY <3>1, <3>2, <3>3, <3>4, <3>5, <3>6 DEF FirstsAre
      <3> QED BY <3>1, <3>7
    <2> QED BY <2>1, <2>2
  <1>6. ASSUME NEW i \in T PROVE i + 1 \in T
    <2> SUFFICES ASSUME (i + 1) + 1 <= n
                 PROVE  g[(i + 1) + 1] = <<>> \/ FirstsAre(jited, ksyms, lens, (i + 1) + 1, g[(i + 1) + 1])
      OBVIOUS
    <2> DEFINE j == i + 1
    <2>1. i \in Nat /\ j \in Nat \ {0} /\ j \in 1 .. n /\ j + 1 \in 2 .. n /\ (j + 1) - 1 = j /\ i + 1 <= n
      BY <1>1
    <2>2. g[j] = <<>> \/ FirstsAre(jited, ksyms, lens, j, g[j])
      BY <2>1
    <2>3. g[j + 1] = DissectTurn(jited, ksyms, lens, g[j], j + 1)
      BY <1>4, <2>1
    <2>4. g[j] \in Seq(Nat)
      BY <1>2, <2>1 DEF n
    <2> HIDE DEF j
    <2>5. CASE g[j] = <<>>
      <3>1. g[j + 1] = <<>>
        BY <2>3, <2>5, TurnRefused
      <3> QED BY <3>1 DEF j
    <2>6. CASE FirstsAre(jited, ksyms, lens, j, g[j])
      <3>1. \A k \in 1 .. j + 1 : jited[k] \in Nat
        BY <2>1 DEF n
      <3>2. Len(ksyms) \in Nat
        OBVIOUS
      <3>3. DissectTurn(jited, ksyms, lens, g[j], j + 1) = <<>>
              \/ FirstsAre(jited, ksyms, lens, j + 1, DissectTurn(jited, ksyms, lens, g[j], j + 1))
        BY <2>1, <2>4, <2>6, <3>1, <3>2, TurnFinds
      <3>4. g[j + 1] = <<>> \/ FirstsAre(jited, ksyms, lens, j + 1, g[j + 1])
        BY <2>3, <3>3
      <3> QED BY <3>4 DEF j
    <2> QED BY <2>2, <2>5, <2>6
  <1> HIDE DEF T
  <1>7. T = Nat
    <2>1. T \in SUBSET Nat
      BY DEF T
    <2> QED BY <1>5, <1>6, <2>1, SetInduction
  <1>8. g[n] = <<>> \/ FirstsAre(jited, ksyms, lens, n, g[n])
    <2>1. n - 1 \in T /\ (n - 1) + 1 = n
      BY <1>1, <1>7
    <2> QED BY <1>1, <2>1 DEF T
  <1> QED BY <1>3, <1>8 DEF n

\* The records whose addresses are in a function, and where the ones that were found for it end.
OwnOf(jited, ksyms, lens, f) == {k \in 1 .. Len(jited) : jited[k] \in ksyms[f] .. ksyms[f] + lens[f] - 1}
\* The last record of a function that was found.
EndOf(n, idx, f) == IF f = Len(idx) THEN n ELSE idx[f + 1] - 1
\* Addresses do not fall from a to b.
RisesWeakly(jited, a, b) == \A j, k \in a .. b : j <= k => jited[j] <= jited[k]

\* To be in a function.
LEMMA Between ==
  ASSUME NEW v \in Nat, NEW lo \in Nat, NEW w \in Nat
  PROVE  v \in lo .. lo + w - 1 <=> lo <= v /\ v < lo + w
  <1> QED OBVIOUS

\* Each function has its own records, one after the other.
FuncsFound(jited, ksyms, lens, idx) ==
  /\ Len(idx) = Len(ksyms)
  /\ \A f \in 1 .. Len(idx) : /\ idx[f] \in 1 .. Len(jited) /\ EndOf(Len(jited), idx, f) \in idx[f] .. Len(jited)
                              /\ OwnOf(jited, ksyms, lens, f) = idx[f] .. EndOf(Len(jited), idx, f)
                              /\ RisesWeakly(jited, idx[f], EndOf(Len(jited), idx, f))

\* The functions lie apart, and the addresses of the last lie in it and do not fall.
Apart(jited, ksyms, lens) ==
  LET m == Len(ksyms) IN
  /\ \A f, g \in 1 .. m : f # g => ksyms[f] + lens[f] <= ksyms[g] \/ ksyms[g] + lens[g] <= ksyms[f]
  /\ \A k \in 1 .. Len(jited) : jited[k] = ksyms[m] =>
       \A j \in k .. Len(jited) : jited[j] < ksyms[m] + lens[m] /\ \A i \in k .. j : jited[i] <= jited[j]

\* The records that were found for a function are those whose addresses are in it.
LEMMA FuncsAre ==
  ASSUME NEW jited \in Seq(Nat), NEW ksyms \in Seq(Nat), NEW lens \in Seq(Nat), Len(ksyms) > 0,
         Len(lens) = Len(ksyms), Apart(jited, ksyms, lens),
         NEW idx \in Seq(Nat), Len(idx) = Len(ksyms), FirstsAre(jited, ksyms, lens, Len(jited), idx)
  PROVE  FuncsFound(jited, ksyms, lens, idx)
  <1> DEFINE n == Len(jited)
             m == Len(ksyms)
             end(f) == EndOf(n, idx, f)
             own(f) == OwnOf(jited, ksyms, lens, f)
  <1>1. n \in Nat /\ m \in Nat \ {0} /\ Len(idx) = m
    OBVIOUS
  <1>2. /\ \A k \in 1 .. n : jited[k] \in Nat
        /\ \A f \in 1 .. m : ksyms[f] \in Nat /\ lens[f] \in Nat
    <2>1. \A k \in 1 .. Len(jited) : jited[k] \in Nat
      OBVIOUS
    <2>2. \A f \in 1 .. Len(ksyms) : ksyms[f] \in Nat
      OBVIOUS
    <2>3. \A f \in 1 .. Len(lens) : lens[f] \in Nat
      OBVIOUS
    <2> QED BY <2>1, <2>2, <2>3
  <1>3. /\ \A f \in 1 .. m : idx[f] \in 1 .. n /\ jited[idx[f]] = ksyms[f]
        /\ \A f \in 1 .. m - 1 : /\ idx[f] < idx[f + 1] /\ jited[idx[f + 1] - 1] - ksyms[f] + 1 <= lens[f]
                                 /\ RisesIn(jited, idx[f], idx[f + 1] - 1)
        /\ \A k \in 1 .. n : \E f \in 1 .. m : idx[f] <= k /\ (f < m => k < idx[f + 1])
    BY <1>1 DEF FirstsAre
  <1>4. /\ \A f, g \in 1 .. m : f # g => ksyms[f] + lens[f] <= ksyms[g] \/ ksyms[g] + lens[g] <= ksyms[f]
        /\ \A k \in 1 .. n : jited[k] = ksyms[m] =>
             \A j \in k .. n : jited[j] < ksyms[m] + lens[m] /\ \A i \in k .. j : jited[i] <= jited[j]
    BY DEF Apart
  <1>5. \A f \in 1 .. m : own(f) = {k \in 1 .. n : jited[k] \in ksyms[f] .. ksyms[f] + lens[f] - 1}
    BY DEF OwnOf
  <1>6. \A f \in 1 .. m : end(f) = IF f = m THEN n ELSE idx[f + 1] - 1
    BY <1>1 DEF EndOf
  <1> HIDE DEF n, m, end, own
  <1>7. ASSUME NEW f \in 1 .. m
        PROVE  end(f) \in idx[f] .. n /\ RisesWeakly(jited, idx[f], end(f)) /\ idx[f] .. end(f) \subseteq own(f)
    <2>1. idx[f] \in 1 .. n /\ jited[idx[f]] = ksyms[f] /\ ksyms[f] \in Nat /\ lens[f] \in Nat
      BY <1>2, <1>3
    <2>2. CASE f = m
      <3>1. end(f) = n
        BY <1>6, <2>2
      <3>2. \A j \in idx[f] .. n : jited[j] < ksyms[f] + lens[f] /\ \A i \in idx[f] .. j : jited[i] <= jited[j]
        BY <1>4, <2>1, <2>2
      <3>3. RisesWeakly(jited, idx[f], n)
        <4> SUFFICES ASSUME NEW j \in idx[f] .. n, NEW k \in idx[f] .. n, j <= k PROVE jited[j] <= jited[k]
          BY DEF RisesWeakly
        <4>1. j \in idx[f] .. k
          BY <2>1
        <4> QED BY <3>2, <4>1
      <3>4. ASSUME NEW k \in idx[f] .. n PROVE k \in own(f)
        <4>1. k \in 1 .. n /\ idx[f] \in idx[f] .. k
          BY <1>1, <2>1
        <4>2. jited[k] \in Nat /\ jited[k] < ksyms[f] + lens[f] /\ ksyms[f] <= jited[k]
          BY <1>2, <2>1, <3>2, <4>1
        <4>3. jited[k] \in ksyms[f] .. ksyms[f] + lens[f] - 1
          BY <2>1, <4>2, Between
        <4> QED BY <1>5, <4>1, <4>3
      <3> QED BY <1>1, <2>1, <3>1, <3>3, <3>4
    <2>3. CASE f # m
      <3> DEFINE e == idx[f + 1] - 1
      <3>1. f \in 1 .. m - 1 /\ f + 1 \in 1 .. m
        BY <1>1, <2>3
      <3>2. end(f) = e /\ idx[f + 1] \in 1 .. n
        BY <1>3, <1>6, <2>3, <3>1
      <3>3. idx[f] < idx[f + 1] /\ jited[e] - ksyms[f] + 1 <= lens[f] /\ RisesIn(jited, idx[f], e)
        BY <1>3, <3>1
      <3> DEFINE a == idx[f]
                 b == idx[f + 1]
      <3>4. e \in a .. n /\ e \in a .. e /\ a \in a .. e /\ e \in 1 .. n /\ a \in 1 .. n
        <4>1. a \in 1 .. n /\ b \in 1 .. n /\ a < b /\ e = b - 1
          BY <2>1, <3>2, <3>3
        <4> HIDE DEF a, b, e
        <4> QED BY <1>1, <4>1
      <3> HIDE DEF e
      <3>5. RisesWeakly(jited, idx[f], e)
        <4> SUFFICES ASSUME NEW j \in idx[f] .. e, NEW k \in idx[f] .. e, j <= k PROVE jited[j] <= jited[k]
          BY DEF RisesWeakly
        <4>1. j \in 1 .. n /\ k \in 1 .. n /\ j \in Nat /\ k \in Nat
          <5>1. j \in a .. e /\ k \in a .. e
            OBVIOUS
          <5> HIDE DEF a
          <5> QED BY <1>1, <3>4, <5>1
        <4>2. jited[j] \in Nat /\ jited[k] \in Nat
          BY <1>2, <4>1
        <4>3. j < k => jited[j] < jited[k]
          BY <3>3 DEF RisesIn
        <4> QED BY <4>1, <4>2, <4>3
      <3>6. ASSUME NEW k \in idx[f] .. e PROVE k \in own(f)
        <4>1. k \in 1 .. n /\ jited[k] \in Nat /\ jited[e] \in Nat /\ idx[f] <= k /\ k <= e
          <5>1. k \in a .. e
            OBVIOUS
          <5>2. k \in 1 .. n /\ a <= k /\ k <= e
            <6> HIDE DEF a
            <6> QED BY <1>1, <3>4, <5>1
          <5> QED BY <1>2, <3>4, <5>2
        <4>2. jited[idx[f]] <= jited[k] /\ jited[k] <= jited[e]
          BY <3>4, <3>5, <4>1 DEF RisesWeakly
        <4>3. jited[k] < ksyms[f] + lens[f]
          <5> DEFINE v == jited[k]
                     z == jited[e]
                     lo == ksyms[f]
                     w == lens[f]
          <5>1. v \in Nat /\ z \in Nat /\ lo \in Nat /\ w \in Nat /\ z - lo + 1 <= w /\ v <= z
            BY <2>1, <3>3, <4>1, <4>2
          <5> HIDE DEF v, z, lo, w
          <5>2. v < lo + w
            BY <5>1
          <5> QED BY <5>2 DEF v, lo, w
        <4>4. jited[k] \in ksyms[f] .. ksyms[f] + lens[f] - 1
          BY <2>1, <4>1, <4>2, <4>3, Between
        <4> QED BY <1>5, <4>1, <4>4
      <3> QED BY <3>2, <3>4, <3>5, <3>6
    <2> QED BY <2>2, <2>3
  <1>8. ASSUME NEW f \in 1 .. m, NEW k \in own(f) PROVE k \in idx[f] .. end(f)
    <2>1. k \in 1 .. n /\ jited[k] \in Nat /\ ksyms[f] <= jited[k] /\ jited[k] < ksyms[f] + lens[f]
      BY <1>2, <1>5, Between
    <2>2. PICK g \in 1 .. m : idx[g] <= k /\ (g < m => k < idx[g + 1])
      BY <1>3, <2>1
    <2>3. k \in idx[g] .. end(g)
      <3>1. idx[g] \in 1 .. n
        BY <1>3
      <3>2. CASE g = m
        BY <1>1, <1>6, <2>1, <2>2, <3>1, <3>2
      <3>3. CASE g # m
        <4>1. g < m /\ g + 1 \in 1 .. m
          BY <1>1, <3>3
        <4>2. idx[g + 1] \in 1 .. n /\ end(g) = idx[g + 1] - 1
          BY <1>3, <1>6, <3>3, <4>1
        <4> QED BY <2>1, <2>2, <3>1, <4>1, <4>2
      <3> QED BY <3>2, <3>3
    <2>4. k \in own(g)
      BY <1>7, <2>3
    <2>5. ksyms[g] <= jited[k] /\ jited[k] < ksyms[g] + lens[g] /\ ksyms[g] \in Nat /\ lens[g] \in Nat
      BY <1>2, <1>5, <2>1, <2>4, Between
    <2>6. ksyms[f] \in Nat /\ lens[f] \in Nat
      BY <1>2
    <2>7. g = f
      <3> DEFINE v == jited[k]
                 lo == ksyms[f]
                 w == lens[f]
                 lo2 == ksyms[g]
                 w2 == lens[g]
      <3>1. v \in Nat /\ lo <= v /\ v < lo + w /\ lo2 <= v /\ v < lo2 + w2
        BY <2>1, <2>5
      <3>2. lo \in Nat /\ w \in Nat /\ lo2 \in Nat /\ w2 \in Nat
        BY <2>5, <2>6
      <3>3. g # f => lo + w <= lo2 \/ lo2 + w2 <= lo
        BY <1>4
      <3> HIDE DEF v, lo, w, lo2, w2
      <3> QED BY <3>1, <3>2, <3>3
    <2> QED BY <2>3, <2>7
  <1>9. \A f \in 1 .. m : own(f) = idx[f] .. end(f)
    BY <1>7, <1>8
  <1>10. \A f \in 1 .. m : /\ idx[f] \in 1 .. n /\ end(f) \in idx[f] .. n
                           /\ own(f) = idx[f] .. end(f) /\ RisesWeakly(jited, idx[f], end(f))
    BY <1>3, <1>7, <1>9
  <1> QED BY <1>1, <1>10 DEF FuncsFound, n, m, end, own

\* The records come function by function, rise within each and begin where it does.
OrderlyIn(jited, ksyms, lens) ==
  LET m == Len(ksyms)
      own(f) == OwnOf(jited, ksyms, lens, f)
  IN /\ \A f \in 1 .. m : /\ own(f) # {} /\ jited[Min(own(f))] = ksyms[f]
                          /\ \A j, k \in own(f) : j < k => jited[j] < jited[k]
     /\ \A f, g \in 1 .. m : f < g => \A j \in own(f), k \in own(g) : j < k
     /\ \A k \in 1 .. Len(jited) : \E f \in 1 .. m : k \in own(f)

\* The first record of each function.
LEMMA FirstsOfOrder ==
  ASSUME NEW jited \in Seq(Nat), NEW ksyms, NEW lens, Len(ksyms) \in Nat, OrderlyIn(jited, ksyms, lens)
  PROVE  \E first \in [1 .. Len(ksyms) -> 1 .. Len(jited)] :
           \A f \in 1 .. Len(ksyms) : /\ first[f] \in OwnOf(jited, ksyms, lens, f) /\ jited[first[f]] = ksyms[f]
                                      /\ \A k \in OwnOf(jited, ksyms, lens, f) : first[f] <= k
  <1> DEFINE m == Len(ksyms)
             n == Len(jited)
             own(f) == OwnOf(jited, ksyms, lens, f)
             first == [f \in 1 .. m |-> Min(own(f))]
  <1>1. n \in Nat /\ \A f \in 1 .. m : own(f) \subseteq 1 .. n
    BY DEF OwnOf
  <1>2. \A f \in 1 .. m : own(f) # {} /\ jited[Min(own(f))] = ksyms[f]
    BY DEF OrderlyIn
  <1> HIDE DEF own, n, m
  <1>3. ASSUME NEW f \in 1 .. m PROVE Min(own(f)) \in own(f) /\ \A k \in own(f) : Min(own(f)) <= k
    <2> DEFINE S == own(f)
    <2>1. S \in SUBSET Nat /\ S # {}
      BY <1>1, <1>2
    <2> HIDE DEF S
    <2>2. PICK i \in S : \A y \in S : i <= y
      BY <2>1, LeastElement
    <2>3. i \in Int /\ \A y \in S : y \in Int /\ i <= y
      BY <2>1, <2>2
    <2>4. Min(S) = i
      BY <2>3, MinIs
    <2> QED BY <2>2, <2>4 DEF S
  <1>4. first \in [1 .. m -> 1 .. n]
    BY <1>1, <1>3
  <1>5. \A f \in 1 .. m : first[f] \in own(f) /\ jited[first[f]] = ksyms[f] /\ \A k \in own(f) : first[f] <= k
    BY <1>2, <1>3
  <1> HIDE DEF first
  <1> QED BY <1>4, <1>5 DEF m, n, own

\* At record i of the functions f have begun.
Begun(first, m, i, f) == f \in 1 .. m /\ first[f] <= i /\ (f < m => i < first[f + 1])

\* Records in order are not refused.
LEMMA DissectComplete ==
  ASSUME NEW jited \in Seq(Nat), Len(jited) > 0, NEW ksyms \in Seq(Nat), Len(ksyms) > 0,
         NEW lens \in Seq(Nat), Len(lens) = Len(ksyms), OrderlyIn(jited, ksyms, lens)
  PROVE  Dissect(jited, ksyms, lens) # <<>>
  <1> DEFINE n == Len(jited)
             m == Len(ksyms)
             own(f) == OwnOf(jited, ksyms, lens, f)
  <1>1. n \in Nat \ {0} /\ m \in Nat \ {0} /\ n \in 1 .. n /\ 1 \in 1 .. n /\ 1 \in 1 .. m
    OBVIOUS
  <1>2. /\ \A k \in 1 .. n : jited[k] \in Nat
        /\ \A f \in 1 .. m : ksyms[f] \in Nat /\ lens[f] \in Nat
    <2>1. \A k \in 1 .. Len(jited) : jited[k] \in Nat
      OBVIOUS
    <2>2. \A f \in 1 .. Len(ksyms) : ksyms[f] \in Nat
      OBVIOUS
    <2>3. \A f \in 1 .. Len(lens) : lens[f] \in Nat
      OBVIOUS
    <2> QED BY <2>1, <2>2, <2>3
  <1>3. PICK first \in [1 .. m -> 1 .. n] :
          \A f \in 1 .. m : first[f] \in own(f) /\ jited[first[f]] = ksyms[f] /\ \A k \in own(f) : first[f] <= k
    BY <1>1, FirstsOfOrder
  <1>4. /\ \A f \in 1 .. m : \A j, k \in own(f) : j < k => jited[j] < jited[k]
        /\ \A f, g \in 1 .. m : f < g => \A j \in own(f), k \in own(g) : j < k
        /\ \A k \in 1 .. n : \E f \in 1 .. m : k \in own(f)
    BY DEF OrderlyIn
  <1>5. PICK g \in [1 .. n -> Seq(Nat)] :
          /\ Dissects(jited, ksyms, lens, g)
          /\ Dissect(jited, ksyms, lens) = IF Len(g[n]) = Len(ksyms) THEN g[n] ELSE <<>>
    BY DissectLoop
  <1>6. /\ g[1] = IF jited[1] = ksyms[1] THEN <<1>> ELSE <<>>
        /\ \A i \in 2 .. n : g[i] = DissectTurn(jited, ksyms, lens, g[i - 1], i)
    BY <1>5 DEF Dissects
  <1>7. \A f \in 1 .. m : own(f) = {k \in 1 .. n : jited[k] \in ksyms[f] .. ksyms[f] + lens[f] - 1}
    BY DEF OwnOf
  <1>8. ASSUME NEW f \in 1 .. m, NEW k
        PROVE  k \in own(f) <=> k \in 1 .. n /\ ksyms[f] <= jited[k] /\ jited[k] < ksyms[f] + lens[f]
    BY <1>2, <1>7, Between
  <1>9. \A f \in 1 .. m : first[f] \in 1 .. n /\ first[f] \in Nat
    <2>1. \A f \in 1 .. m : first[f] \in 1 .. n
      OBVIOUS
    <2>2. \A k \in 1 .. n : k \in Nat
      OBVIOUS
    <2> HIDE DEF n, m
    <2> QED BY <2>1, <2>2
  <1> HIDE DEF own, n, m
  <1>10. ASSUME NEW i \in 1 .. n, NEW f \in 1 .. m, Begun(first, m, i, f) PROVE i \in own(f)
    <2>1. first[f] <= i /\ (f < m => i < first[f + 1])
      BY <1>10 DEF Begun
    <2>2. PICK h \in 1 .. m : i \in own(h)
      BY <1>4
    <2>3. first[h] <= i
      BY <1>3, <2>2
    <2>4. ~ h < f
      <3> SUFFICES ASSUME h < f PROVE FALSE
        OBVIOUS
      <3>1. i < first[f]
        BY <1>3, <1>4, <2>2
      <3> QED BY <1>1, <1>9, <2>1, <3>1
    <2>5. ~ f < h
      <3> SUFFICES ASSUME f < h PROVE FALSE
        OBVIOUS
      <3>1. f < m /\ f + 1 \in 1 .. m
        BY <1>1
      <3>2. first[f + 1] <= first[h]
        <4>1. CASE f + 1 = h
          BY <1>9, <4>1
        <4>2. CASE f + 1 # h
          <5>1. f + 1 < h
            BY <4>2
          <5>2. first[f + 1] < first[h]
            BY <1>3, <1>4, <3>1, <5>1
          <5> QED BY <1>9, <3>1, <5>2
        <4> QED BY <4>1, <4>2
      <3> QED BY <1>1, <1>9, <2>1, <2>3, <3>1, <3>2
    <2> QED BY <1>1, <2>2, <2>4, <2>5
  <1> DEFINE P(i) == Len(g[i]) \in 1 .. m /\ Begun(first, m, i, Len(g[i]))
             T == {i \in Nat : i + 1 <= n => P(i + 1)}
  <1>11. \A f \in 1 .. m : f < m => f + 1 \in 1 .. m /\ first[f] < first[f + 1]
    <2> SUFFICES ASSUME NEW f \in 1 .. m, f < m PROVE f + 1 \in 1 .. m /\ first[f] < first[f + 1]
      OBVIOUS
    <2>1. f + 1 \in 1 .. m /\ f < f + 1
      BY <1>1
    <2>2. first[f] \in own(f) /\ first[f + 1] \in own(f + 1)
      BY <1>3, <2>1
    <2> QED BY <1>4, <2>1, <2>2
  <1>12. 0 \in T
    <2>1. first[1] = 1
      <3>1. PICK h \in 1 .. m : 1 \in own(h)
        BY <1>1, <1>4
      <3>2. first[h] = 1
        BY <1>3, <1>9, <3>1
      <3>3. h # 1 => first[1] < 1
        BY <1>1, <1>3, <1>4, <3>1
      <3> QED BY <1>1, <1>9, <3>2, <3>3
    <2>2. jited[1] = ksyms[1]
      BY <1>1, <1>3, <2>1
    <2>3. g[1] = <<1>> /\ Len(<<1>>) = 1
      BY <1>6, <2>2
    <2>4. Len(g[1]) = 1
      BY <2>3
    <2>5. Begun(first, m, 1, 1)
      BY <1>1, <1>11, <2>1 DEF Begun
    <2>6. P(1) /\ 0 + 1 = 1
      BY <1>1, <2>4, <2>5
    <2> HIDE DEF P
    <2> QED BY <2>6
  <1>13. ASSUME NEW i \in T PROVE i + 1 \in T
    <2> SUFFICES ASSUME (i + 1) + 1 <= n PROVE P((i + 1) + 1)
      OBVIOUS
    <2> DEFINE j == i + 1
               f == Len(g[j])
               s == g[j]
    <2>1. i \in Nat /\ j \in Nat \ {0} /\ j \in 1 .. n /\ j + 1 \in 1 .. n /\ j + 1 \in 2 .. n /\ (j + 1) - 1 = j /\ i + 1 <= n
      BY <1>1
    <2>2. P(j)
      BY <2>1
    <2>3. g[j + 1] = DissectTurn(jited, ksyms, lens, g[j], j + 1)
      BY <1>6, <2>1
    <2> HIDE DEF j, f, s
    <2>4. f \in 1 .. m /\ Begun(first, m, j, f) /\ f \in Nat /\ f # 0
      <3>1. f \in 1 .. m /\ Begun(first, m, j, f)
        BY <2>2 DEF f
      <3> QED BY <1>1, <3>1
    <2>5. s \in Seq(Nat)
      BY <1>5, <2>1 DEF n, s
    <2>6. j \in own(f) /\ first[f] <= j /\ (f < m => j < first[f + 1])
      BY <1>10, <2>1, <2>4 DEF Begun
    <2>7. CASE f = m
      <3>1. g[j + 1] = s
        BY <2>3, <2>7 DEF DissectTurn, m, f, s
      <3>2. Begun(first, m, j + 1, f)
        <4>1. first[f] <= j + 1 /\ ~ f < m
          <5>1. first[f] \in Nat /\ first[f] <= j
            BY <1>9, <2>4, <2>6
          <5> DEFINE a == first[f]
          <5> HIDE DEF a
          <5>2. a <= j + 1
            BY <2>1, <5>1 DEF a
          <5> QED BY <2>4, <2>7, <5>2 DEF a
        <4> QED BY <2>4, <4>1 DEF Begun
      <3>3. P(j + 1)
        BY <2>4, <3>1, <3>2 DEF f, s
      <3> HIDE DEF P
      <3> QED BY <3>3 DEF j
    <2>8. CASE f # m
      <3> DEFINE found == jited[j + 1] = ksyms[f + 1]
                 sane == IF found THEN jited[j] - ksyms[f] + 1 <= lens[f] ELSE jited[j + 1] > jited[j]
      <3>1. f < m /\ f + 1 \in 1 .. m /\ j < first[f + 1] /\ first[f + 1] \in Nat
        <4>1. f < m
          BY <1>1, <2>4, <2>8
        <4>2. f + 1 \in 1 .. m
          BY <1>1, <2>4, <4>1
        <4> QED BY <1>9, <2>6, <4>1, <4>2
      <3>2. g[j + 1] = IF ~ sane THEN <<>> ELSE IF found THEN Append(s, j + 1) ELSE s
        BY <2>1, <2>3, <2>4, <2>8 DEF DissectTurn, m, f, s
      <3>3. CASE j + 1 = first[f + 1]
        <4>1. found
          BY <1>3, <3>1, <3>3
        <4>2. jited[j] - ksyms[f] + 1 <= lens[f]
          <5> DEFINE v == jited[j]
                     lo == ksyms[f]
                     w == lens[f]
          <5>1. v \in Nat /\ lo \in Nat /\ w \in Nat
            BY <1>2, <2>1, <2>4
          <5>2. v < lo + w
            BY <1>8, <2>4, <2>6
          <5> HIDE DEF v, lo, w
          <5>3. v - lo + 1 <= w
            BY <5>1, <5>2
          <5> QED BY <5>3 DEF v, lo, w
        <4>3. sane
          BY <4>1, <4>2
        <4>4. g[j + 1] = Append(s, j + 1)
          <5> HIDE DEF sane, found
          <5> QED BY <3>2, <4>1, <4>3
        <4>5. Len(g[j + 1]) = f + 1
          BY <2>5, <4>4 DEF f, s
        <4>6. Begun(first, m, j + 1, f + 1)
          BY <1>11, <3>1, <3>3 DEF Begun
        <4>7. P(j + 1)
          BY <3>1, <4>5, <4>6
        <4> HIDE DEF P
        <4> QED BY <4>7 DEF j
      <3>4. CASE j + 1 # first[f + 1]
        <4>1. Begun(first, m, j + 1, f)
          <5> DEFINE a == first[f]
                     b == first[f + 1]
          <5>1. a \in Nat /\ b \in Nat /\ a <= j /\ j < b /\ j + 1 # b
            BY <1>9, <2>4, <2>6, <3>1, <3>4
          <5> HIDE DEF a, b
          <5>2. a <= j + 1 /\ j + 1 < b
            BY <2>1, <5>1
          <5> QED BY <2>4, <5>2 DEF Begun, a, b
        <4>2. j + 1 \in own(f)
          BY <1>10, <2>1, <2>4, <4>1
        <4>3. ~ found
          <5> SUFFICES ASSUME found PROVE FALSE
            OBVIOUS
          <5>1. first[f + 1] \in own(f + 1) /\ jited[first[f + 1]] = ksyms[f + 1]
            BY <1>3, <3>1
          <5>2. ksyms[f + 1] < ksyms[f + 1] + lens[f + 1]
            BY <1>8, <3>1, <5>1
          <5>3. j + 1 \in own(f + 1)
            <6>1. ksyms[f + 1] <= jited[j + 1]
              BY <1>2, <3>1
            <6> QED BY <1>8, <2>1, <3>1, <5>2, <6>1
          <5>4. f < f + 1
            BY <2>4
          <5>5. j + 1 < j + 1
            BY <1>4, <2>4, <3>1, <4>2, <5>3, <5>4
          <5> QED BY <2>1, <5>5
        <4>4. jited[j] < jited[j + 1] /\ jited[j] \in Nat /\ jited[j + 1] \in Nat
          <5>1. j < j + 1
            BY <2>1
          <5> QED BY <1>2, <1>4, <2>1, <2>4, <2>6, <4>2, <5>1
        <4>5. jited[j + 1] > jited[j]
          BY <4>4
        <4>6. g[j + 1] = s
          <5>1. sane
            BY <4>3, <4>5
          <5> HIDE DEF sane, found
          <5> QED BY <3>2, <4>3, <5>1
        <4>7. P(j + 1)
          BY <2>4, <4>1, <4>6 DEF f, s
        <4> HIDE DEF P
        <4> QED BY <4>7 DEF j
      <3> QED BY <3>3, <3>4
    <2> QED BY <2>7, <2>8
  <1> HIDE DEF T
  <1>14. T = Nat
    <2>1. T \in SUBSET Nat
      BY DEF T
    <2> QED BY <1>12, <1>13, <2>1, SetInduction
  <1>15. P(n)
    <2>1. n - 1 \in T /\ (n - 1) + 1 = n
      BY <1>1, <1>14
    <2> HIDE DEF P
    <2> QED BY <1>1, <2>1 DEF T
  <1>16. Len(g[n]) = m
    <2>1. Len(g[n]) \in 1 .. m /\ Begun(first, m, n, Len(g[n]))
      BY <1>15
    <2> DEFINE f == Len(g[n])
    <2> HIDE DEF f
    <2>2. f \in 1 .. m /\ (f < m => n < first[f + 1])
      BY <2>1 DEF Begun, f
    <2>3. f < m => f + 1 \in 1 .. m
      BY <1>1, <2>2
    <2>4. ~ f < m
      <3> SUFFICES ASSUME f < m PROVE FALSE
        OBVIOUS
      <3> DEFINE x == first[f + 1]
      <3>1. x \in 1 .. n /\ n < x
        BY <1>9, <2>2, <2>3
      <3> HIDE DEF x
      <3> QED BY <1>1, <3>1
    <2>5. f = m
      BY <1>1, <2>2, <2>4
    <2> QED BY <2>5 DEF f
  <1>17. g[n] # <<>> /\ Dissect(jited, ksyms, lens) = g[n]
    <2>1. Len(<<>>) = 0
      OBVIOUS
    <2> QED BY <1>1, <1>5, <1>16, <2>1 DEF m
  <1> QED BY <1>17

\* The block of a program, whose pointers count from origin.
HasArray(prog, info, want, lin, origin, a) ==
  LET off == OffsetOf(info, want, a)
  IN /\ lin.ptr[a] = origin + off /\ off + Extent(info, a) <= Len(lin.mem)
     /\ \A k \in 1 .. info[a].count : lin.mem[off + (k - 1) * info[a].size + 1] = prog[a].recs[k]

\* The pointers that the kernel set to 0 were moved with the others, from address old.
Hidden(lin, origin, moved) ==
  \E old \in InfoAddresses : /\ old + Len(lin.mem) < AddressSpace /\ (moved = TRUE \/ old = lin.base)
                             /\ \A a \in lin.secret : lin.ptr[a] = (origin - old) % AddressSpace
\* The fields of struct bpf_prog_info_linear.
IsBlock(lin) == lin = [base |-> lin.base, secret |-> lin.secret, mem |-> lin.mem, ptr |-> lin.ptr]
\* The block of a program: each array is where its pointer says, or was never shown.
BlockOf(prog, known, want, lin, origin, moved) ==
  /\ IsBlock(lin)
  /\ lin.base \in InfoAddresses /\ Len(lin.mem) \in Nat /\ lin.base + Len(lin.mem) < AddressSpace
  /\ lin.secret \subseteq want \cap Secret
  /\ \A a \in want \ lin.secret : HasArray(prog, InfoOf(prog, known), want, lin, origin, a)
  /\ Hidden(lin, origin, moved)

\* Addresses of blocks.
LEMMA AddressesAre ==
  /\ AddressSpace \in Nat /\ \A base \in InfoAddresses : base \in Nat /\ base # 0
  /\ \A base \in InfoAddresses, len \in Nat : base + len < AddressSpace => AddressSpace \in Nat \ {0}
  <1>1. AddressSpace \in Nat /\ \A base \in InfoAddresses : base \in Nat /\ base # 0
    BY ProgInfoAssumption
  <1> QED BY <1>1

\* A small number is its own remainder.
LEMMA ModSmall ==
  ASSUME NEW w \in Nat, NEW r \in Nat, r < w
  PROVE  r % w = r
  <1>1. w \in Nat \ {0} /\ r \in 0 .. w - 1 /\ 0 \in Int
    OBVIOUS
  <1>2. (w * 0 + r) % w = r
    BY <1>1, ModUnique
  <1>3. w * 0 + r = r
    OBVIOUS
  <1> QED BY <1>2, <1>3

\* A block with other pointers.
LEMMA WithPointers ==
  ASSUME NEW lin, IsBlock(lin), NEW ptr, NEW new, new = [lin EXCEPT !.ptr = ptr]
  PROVE  new.base = lin.base /\ new.secret = lin.secret /\ new.mem = lin.mem /\ new.ptr = ptr /\ IsBlock(new)
  <1> DEFINE b == lin.base
             s == lin.secret
             m == lin.mem
             p == lin.ptr
  <1>1. lin = [base |-> b, secret |-> s, mem |-> m, ptr |-> p]
    BY DEF IsBlock
  <1> HIDE DEF b, s, m, p
  <1>2. new = [base |-> b, secret |-> s, mem |-> m, ptr |-> ptr]
    BY <1>1
  <1>3. new.base = b /\ new.secret = s /\ new.mem = m /\ new.ptr = ptr
    BY <1>2
  <1>4. IsBlock(new)
    BY <1>2, <1>3 DEF IsBlock
  <1> QED BY <1>3, <1>4 DEF b, s, m

\* A block at another address.
LEMMA WithBase ==
  ASSUME NEW lin, IsBlock(lin), NEW base, NEW new, new = [lin EXCEPT !.base = base]
  PROVE  new.base = base /\ new.secret = lin.secret /\ new.mem = lin.mem /\ new.ptr = lin.ptr /\ IsBlock(new)
  <1> DEFINE b == lin.base
             s == lin.secret
             m == lin.mem
             p == lin.ptr
  <1>1. lin = [base |-> b, secret |-> s, mem |-> m, ptr |-> p]
    BY DEF IsBlock
  <1> HIDE DEF b, s, m, p
  <1>2. new = [base |-> base, secret |-> s, mem |-> m, ptr |-> p]
    BY <1>1
  <1>3. new.base = base /\ new.secret = s /\ new.mem = m /\ new.ptr = p
    BY <1>2
  <1>4. IsBlock(new)
    BY <1>2, <1>3 DEF IsBlock
  <1> QED BY <1>3, <1>4 DEF s, m, p

\* The kernel fills a block.
IsFilled(prog, info, want, shown, base, lin) ==
  LET offs == Offsets(info, want)
      len == RoundUp(Before(info, want, Len(InfoArrays)))
  IN /\ base + len < AddressSpace
     /\ lin = [base |-> base, secret |-> want \ shown, mem |-> Written(prog, info, offs, shown, len),
               ptr |-> [a \in want |-> IF a \in shown THEN base + offs[a] ELSE Null]]

\* It is then a block of its program.
LEMMA FilledIs ==
  ASSUME NEW prog \in InfoPrograms, NEW known \in SUBSET Arrays, NEW want \in SUBSET known,
         NEW info, info = InfoOf(prog, known), NEW shown \in SUBSET want, want \ shown \subseteq Secret,
         NEW base \in InfoAddresses, NEW lin, NEW moved, IsFilled(prog, info, want, shown, base, lin)
  PROVE  BlockOf(prog, known, want, lin, base, moved)
  <1> DEFINE offs == Offsets(info, want)
             len == RoundUp(Before(info, want, Len(InfoArrays)))
  <1>0. /\ base + len < AddressSpace
        /\ lin = [base |-> base, secret |-> want \ shown, mem |-> Written(prog, info, offs, shown, len),
                  ptr |-> [a \in want |-> IF a \in shown THEN base + offs[a] ELSE Null]]
    BY DEF IsFilled
  <1> DEFINE mem == Written(prog, info, offs, shown, len)
             ptr == [a \in want |-> IF a \in shown THEN base + offs[a] ELSE Null]
             s == want \ shown
  <1>1. lin.base = base /\ lin.secret = s /\ lin.mem = mem /\ lin.ptr = ptr
    BY <1>0
  <1>2. IsBlock(lin)
    BY <1>0, <1>1 DEF IsBlock
  <1>3. len \in Nat /\ len >= Before(info, want, Len(InfoArrays))
    BY LayoutIs, RoundUpIs
  <1> HIDE DEF len
  <1>4. ASSUME NEW a \in shown
        PROVE  WholeIn(prog, info, want, len, mem, a)
    <2>1. mem = Written(prog, info, offs, shown, len)
      OBVIOUS
    <2> HIDE DEF mem
    <2>2. len \in Nat /\ a \in shown
      BY <1>3
    <2> QED BY <1>3, <2>1, <2>2, WrittenIs
  <1>5. Len(mem) = len
    BY <1>3 DEF Written
  <1> HIDE DEF mem
  <1>6. \A a \in shown : ptr[a] = base + OffsetOf(info, want, a)
    BY DEF Offsets
  <1>7. \A a \in s : ptr[a] = 0
    BY DEF Null
  <1> HIDE DEF ptr
  <1>8. ASSUME NEW a \in want \ lin.secret PROVE HasArray(prog, InfoOf(prog, known), want, lin, base, a)
    <2>1. a \in shown
      BY <1>1
    <2> QED BY <1>1, <1>4, <1>5, <1>6, <2>1 DEF HasArray, WholeIn
  <1>9. Hidden(lin, base, moved)
    <2>1. base \in Nat /\ AddressSpace \in Nat /\ AddressSpace > 0
      BY <1>0, <1>3, AddressesAre
    <2>2. (base - base) % AddressSpace = 0
      <3>1. base - base = 0
        BY <2>1
      <3> QED BY <2>1, <3>1, ModSmall
    <2>3. base + Len(lin.mem) < AddressSpace /\ base = lin.base
      BY <1>0, <1>1, <1>5
    <2>4. \A a \in lin.secret : lin.ptr[a] = (base - base) % AddressSpace
      BY <1>1, <1>7, <2>2
    <2> QED BY <2>3, <2>4 DEF Hidden
  <1>10. lin.base \in InfoAddresses /\ Len(lin.mem) \in Nat /\ lin.base + Len(lin.mem) < AddressSpace
    BY <1>0, <1>1, <1>3, <1>5
  <1>11. lin.secret \subseteq want \cap Secret
    BY <1>1
  <1> HIDE DEF s
  <1> QED BY <1>2, <1>8, <1>9, <1>10, <1>11 DEF BlockOf

\* A pointer moved with the block.
LEMMA RebasedIs ==
  ASSUME NEW w \in Nat \ {0}, NEW from \in Int, NEW by \in Int, NEW off \in Nat, from + by + off \in 0 .. w - 1
  PROVE  ((from + off) + by) % w = (from + by) + off
  <1>1. (from + off) + by = from + by + off
    OBVIOUS
  <1>2. from + by + off \in Nat /\ from + by + off < w
    OBVIOUS
  <1> QED BY <1>1, <1>2, ModSmall

\* So do all the pointers of a block, and it stays one.
LEMMA MovedPointers ==
  ASSUME NEW prog \in InfoPrograms, NEW known \in SUBSET Arrays, NEW want \in SUBSET known,
         NEW lin, NEW from \in Nat, NEW to \in Nat, NEW by \in Int, from + by = to, NEW moved,
         BlockOf(prog, known, want, lin, from, moved), to + Len(lin.mem) < AddressSpace,
         NEW new, new = [lin EXCEPT !.ptr = [a \in want |-> (lin.ptr[a] + by) % AddressSpace]]
  PROVE  BlockOf(prog, known, want, new, to, moved) /\ new.base = lin.base
  <1> DEFINE info == InfoOf(prog, known)
             ptr == [a \in want |-> (lin.ptr[a] + by) % AddressSpace]
             w == AddressSpace
  <1>1. /\ IsBlock(lin)
        /\ lin.base \in InfoAddresses /\ Len(lin.mem) \in Nat /\ lin.base + Len(lin.mem) < w
        /\ lin.secret \subseteq want \cap Secret
        /\ \A a \in want \ lin.secret : HasArray(prog, info, want, lin, from, a)
        /\ Hidden(lin, from, moved)
    BY DEF BlockOf
  <1>2. new.base = lin.base /\ new.secret = lin.secret /\ new.mem = lin.mem /\ new.ptr = ptr /\ IsBlock(new)
    <2>1. new = [lin EXCEPT !.ptr = ptr]
      OBVIOUS
    <2> HIDE DEF ptr
    <2> QED BY ONLY <1>1, <2>1, WithPointers
  <1>3. w \in Nat \ {0}
    BY <1>1, AddressesAre
  <1>4. \A a \in want : ptr[a] = (lin.ptr[a] + by) % w
    OBVIOUS
  <1> HIDE DEF ptr, w
  <1>5. ASSUME NEW a \in want \ new.secret PROVE HasArray(prog, info, want, new, to, a)
    <2> DEFINE off == OffsetOf(info, want, a)
               ext == Extent(info, a)
               len == Len(lin.mem)
    <2>1. HasArray(prog, info, want, lin, from, a)
      BY <1>1, <1>2
    <2>2. /\ lin.ptr[a] = from + off /\ off + ext <= len
          /\ \A k \in 1 .. info[a].count : lin.mem[off + (k - 1) * info[a].size + 1] = prog[a].recs[k]
      BY <2>1 DEF HasArray
    <2>3. off \in Nat /\ ext \in Nat
      BY LayoutIs
    <2>4. len \in Nat /\ to + len < w
      BY <1>1 DEF w
    <2>5. ptr[a] = (lin.ptr[a] + by) % w
      BY <1>4
    <2>6. ptr[a] = to + off
      <3> HIDE DEF off, ext, len
      <3>1. from + by + off \in 0 .. w - 1
        <4>1. off <= len
          BY <2>2, <2>3, <2>4
        <4>2. from + by + off = to + off
          BY <2>3
        <4> QED BY <1>3, <2>3, <2>4, <4>1, <4>2
      <3>2. ((from + off) + by) % w = (from + by) + off
        BY <1>3, <2>3, <3>1, RebasedIs
      <3> QED BY <2>2, <2>5, <3>2
    <2> HIDE DEF info
    <2> QED BY <1>2, <2>2, <2>6 DEF HasArray
  <1>6. Hidden(new, to, moved)
    <2>1. PICK old \in InfoAddresses : /\ old + Len(lin.mem) < w /\ (moved = TRUE \/ old = lin.base)
                                       /\ \A a \in lin.secret : lin.ptr[a] = (from - old) % w
      BY <1>1 DEF Hidden, w
    <2>2. old \in Nat
      BY AddressesAre
    <2>3. ASSUME NEW a \in lin.secret PROVE ptr[a] = (to - old) % w
      <3>1. ptr[a] = (((from - old) % w) + by) % w
        BY <1>1, <1>4, <2>1
      <3>2. from - old \in Int /\ (from - old) + by = to - old
        BY <2>2
      <3>3. (((from - old) % w) + by) % w = ((from - old) + by) % w
        BY <1>3, <3>2, ModAdd
      <3> QED BY <3>1, <3>2, <3>3
    <2> QED BY <1>2, <2>1, <2>3 DEF Hidden, w
  <1>7. new.secret \subseteq want \cap Secret /\ new.base \in InfoAddresses /\ Len(new.mem) \in Nat /\ new.base + Len(new.mem) < w
    BY <1>1, <1>2
  <1> QED BY <1>2, <1>5, <1>6, <1>7 DEF BlockOf, w

\* The block is read at another address.
LEMMA MovedBlock ==
  ASSUME NEW prog, NEW known, NEW want, NEW lin, NEW moved,
         BlockOf(prog, known, want, lin, 0, moved),
         NEW base \in InfoAddresses, base + Len(lin.mem) < AddressSpace,
         NEW new, new = [lin EXCEPT !.base = base]
  PROVE  BlockOf(prog, known, want, new, 0, TRUE)
  <1> DEFINE info == InfoOf(prog, known)
  <1>1. /\ IsBlock(lin)
        /\ lin.base \in InfoAddresses /\ Len(lin.mem) \in Nat
        /\ lin.secret \subseteq want \cap Secret
        /\ \A a \in want \ lin.secret : HasArray(prog, info, want, lin, 0, a)
        /\ Hidden(lin, 0, moved)
    BY DEF BlockOf
  <1>2. new.base = base /\ new.secret = lin.secret /\ new.mem = lin.mem /\ new.ptr = lin.ptr /\ IsBlock(new)
    BY <1>1, WithBase
  <1> HIDE DEF info
  <1>3. \A a \in want \ new.secret : HasArray(prog, info, want, new, 0, a)
    BY <1>1, <1>2 DEF HasArray
  <1>4. Hidden(new, 0, TRUE)
    BY <1>1, <1>2 DEF Hidden
  <1>5. new.secret \subseteq want \cap Secret /\ new.base \in InfoAddresses /\ Len(new.mem) \in Nat /\ new.base + Len(new.mem) < AddressSpace
    BY <1>1, <1>2
  <1> QED BY <1>2, <1>3, <1>4, <1>5 DEF BlockOf, info

\* Each array that was shown is found at its pointer.
ArrayFound(prog, info, lin, a) ==
  /\ lin.ptr[a] - lin.base \in 0 .. Len(lin.mem) - Extent(info, a)
  /\ [k \in 1 .. info[a].count |-> lin.mem[lin.ptr[a] - lin.base + (k - 1) * info[a].size + 1]] = prog[a].recs
\* Each array that was shown is.
LEMMA FoundInBlock ==
  ASSUME NEW prog \in InfoPrograms, NEW known \in SUBSET Arrays, NEW want \in SUBSET known,
         NEW lin, NEW moved, BlockOf(prog, known, want, lin, lin.base, moved),
         NEW a \in want \ lin.secret
  PROVE  ArrayFound(prog, InfoOf(prog, known), lin, a)
  <1> DEFINE info == InfoOf(prog, known)
             off == OffsetOf(info, want, a)
             ext == Extent(info, a)
             len == Len(lin.mem)
             base == lin.base
  <1>1. HasArray(prog, info, want, lin, lin.base, a) /\ base \in Nat /\ len \in Nat
    BY AddressesAre DEF BlockOf
  <1>2. /\ lin.ptr[a] = base + off /\ off + ext <= len
        /\ \A k \in 1 .. info[a].count : lin.mem[off + (k - 1) * info[a].size + 1] = prog[a].recs[k]
    BY <1>1 DEF HasArray
  <1>3. off \in Nat /\ ext \in Nat
    BY LayoutIs
  <1>4. lin.ptr[a] - lin.base = off
    <2> HIDE DEF off
    <2>1. (base + off) - base = off
      <3> HIDE DEF base
      <3> QED BY <1>1, <1>3
    <2> QED BY <1>2, <2>1
  <1>5. off \in 0 .. len - ext
    <2> HIDE DEF off, len, ext
    <2> QED BY <1>1, <1>2, <1>3
  <1>6. info[a].count = Len(prog[a].recs) /\ prog[a].recs \in Seq(Nat)
    <2>1. info[a].count = Len(prog[a].recs)
      <3>1. a \in want
        OBVIOUS
      <3> QED BY <3>1 DEF InfoOf
    <2>2. prog[a].recs \in Seq(Nat)
      BY ProgramIs
    <2> QED BY <2>1, <2>2
  <1> DEFINE s == prog[a].recs
  <1>7. s = [k \in 1 .. Len(s) |-> s[k]]
    <2>1. s \in Seq(Nat)
      BY <1>6
    <2> HIDE DEF s
    <2> QED BY <2>1
  <1> HIDE DEF off
  <1>8. [k \in 1 .. info[a].count |-> lin.mem[off + (k - 1) * info[a].size + 1]] = [k \in 1 .. Len(s) |-> s[k]]
    BY <1>2, <1>6
  <1> QED BY <1>4, <1>5, <1>7, <1>8 DEF ArrayFound

\* A pointer of an array that was not shown is 0, or the block was moved and it leads out of it.
Strayed(info, lin, moved, a) ==
  moved = TRUE /\ lin.ptr[a] - lin.base \notin 0 .. Len(lin.mem) - Extent(info, a)
\* That of an array that was not shown is 0 or does.
LEMMA HiddenIsOutside ==
  ASSUME NEW prog \in InfoPrograms, NEW known \in SUBSET Arrays, NEW want \in SUBSET known,
         NEW lin, NEW moved, BlockOf(prog, known, want, lin, lin.base, moved),
         NEW a \in lin.secret, lin.ptr[a] # 0
  PROVE  Strayed(InfoOf(prog, known), lin, moved, a)
  <1> DEFINE info == InfoOf(prog, known)
             ext == Extent(info, a)
             len == Len(lin.mem)
             base == lin.base
             w == AddressSpace
             p == lin.ptr[a]
  <1>1. /\ a \in want /\ base \in InfoAddresses /\ len \in Nat /\ base + len < w /\ Hidden(lin, base, moved)
    BY DEF BlockOf
  <1>2. base \in Nat /\ base # 0 /\ w \in Nat \ {0} /\ ext \in Nat
    BY <1>1, AddressesAre, LayoutIs
  <1>3. PICK old \in InfoAddresses : old + len < w /\ (moved = TRUE \/ old = base) /\ p = (base - old) % w
    BY <1>1 DEF Hidden
  <1>4. old \in Nat /\ old # 0
    BY AddressesAre
  <1> HIDE DEF ext, len, base, w, p
  <1>5. old # base
    <2> SUFFICES ASSUME old = base PROVE FALSE
      OBVIOUS
    <2>1. base - old = 0
      BY <1>2
    <2>2. 0 % w = 0
      BY <1>2, ModSmall
    <2> QED BY <1>3, <2>1, <2>2 DEF p
  <1>6. CASE old < base
    <2>1. base - old \in Nat /\ base - old < w
      BY <1>1, <1>2, <1>4, <1>6
    <2>2. p = base - old
      BY <1>2, <1>3, <2>1, ModSmall
    <2>3. p - base \notin 0 .. len - ext
      BY <1>1, <1>2, <1>4, <2>2
    <2> QED BY <1>3, <1>5, <2>3 DEF p, base, len, ext, Strayed
  <1>7. CASE old > base
    <2> DEFINE r == w + base - old
    <2>1. r \in 0 .. w - 1 /\ w * (-1) + r = base - old
      BY <1>1, <1>2, <1>3, <1>4, <1>7
    <2> HIDE DEF r
    <2>2. p = r
      <3>1. -1 \in Int
        OBVIOUS
      <3>2. (w * (-1) + r) % w = r
        BY <1>2, <2>1, <3>1, ModUnique
      <3> QED BY <1>3, <2>1, <3>2
    <2>3. p - base \notin 0 .. len - ext
      <3>1. p - base = w - old /\ w - old > len
        BY <1>1, <1>2, <1>3, <1>4, <2>2 DEF r
      <3> QED BY <1>1, <1>2, <1>4, <3>1
    <2> QED BY <1>3, <1>5, <2>3 DEF p, base, len, ext, Strayed
  <1>8. old < base \/ old > base
    BY <1>2, <1>4, <1>5
  <1> QED BY <1>6, <1>7, <1>8

\* The block has been laid out.
Laid == pi_pc \in {"addr", "offs", "astray"}
\* What its pointers count from.
OriginOf(pc, lin) == IF pc = "offs" THEN 0 ELSE lin.base

\* struct bpf_prog_linfo of a program.
LinfoIs(prog, linfo) ==
  /\ linfo # NoLinfo /\ linfo.lines = prog["line_info"].recs /\ linfo.nr_func = Len(linfo.idx)
  /\ linfo.idx \in Seq(Nat)
  /\ linfo.idx # <<>> =>
       /\ linfo.jited = prog["jited_line_info"].recs
       /\ FuncsFound(prog["jited_line_info"].recs, prog["jited_ksyms"].recs, prog["jited_func_lens"].recs, linfo.idx)

\* The steps.
PiPcs == {"dims", "fill", "addr", "offs", "astray", "failed"}
\* The types of what does not depend on the step.
PiTypes ==
  /\ pi_prog \in InfoPrograms /\ pi_want \in SUBSET Arrays /\ pi_known \in SUBSET Arrays /\ "line_info" \in pi_known
  /\ pi_moved \in BOOLEAN /\ pi_faults \in Nat /\ pi_pc \in PiPcs
\* The kernel has said how large its arrays are.
InfoIsOf == pi_want \in SUBSET pi_known /\ pi_info = InfoOf(pi_prog, pi_known)
\* There is a struct bpf_prog_linfo, and it is proper, or nothing was searched.
LinfoNow == (pi_linfo = NoLinfo /\ pi_found = NotAsked) \/ (pi_pc = "addr" /\ LinfoIs(pi_prog, pi_linfo))
\* The invariant.
PiInv ==
  /\ PiTypes
  /\ pi_pc = "fill" \/ Laid => InfoIsOf
  /\ Laid => BlockOf(pi_prog, pi_known, pi_want, pi_lin, OriginOf(pi_pc, pi_lin), pi_moved)
  /\ LinfoNow
  /\ AstrayHasReason /\ RefusesForReason /\ FindsTheLine

\* The four arrays that bpf_prog_linfo__new reads.
LEMMA NamedArrays ==
  "jited_ksyms" \in Arrays /\ "jited_func_lens" \in Arrays /\ "line_info" \in Arrays /\ "jited_line_info" \in Arrays
  <1> QED BY ProgInfoAssumption

\* An array that was shown is read as the kernel gave it.
LEMMA RecordsAre ==
  ASSUME PiInv, pi_pc = "addr", NEW a \in pi_want \ pi_lin.secret
  PROVE  InBlock(a) /\ RecordsOf(a) = pi_prog[a].recs /\ CountOf(a) = Len(pi_prog[a].recs)
  <1>1. /\ pi_prog \in InfoPrograms /\ pi_known \in SUBSET Arrays /\ pi_want \in SUBSET pi_known
        /\ pi_info = InfoOf(pi_prog, pi_known) /\ BlockOf(pi_prog, pi_known, pi_want, pi_lin, pi_lin.base, pi_moved)
    BY DEF PiInv, PiTypes, InfoIsOf, Laid, OriginOf
  <1>2. /\ pi_lin.ptr[a] - pi_lin.base \in 0 .. Len(pi_lin.mem) - Extent(pi_info, a)
        /\ [k \in 1 .. pi_info[a].count |-> pi_lin.mem[pi_lin.ptr[a] - pi_lin.base + (k - 1) * pi_info[a].size + 1]]
             = pi_prog[a].recs
    <2>1. ArrayFound(pi_prog, InfoOf(pi_prog, pi_known), pi_lin, a)
      BY <1>1, FoundInBlock
    <2>2. ArrayFound(pi_prog, pi_info, pi_lin, a)
      BY <1>1, <2>1
    <2> QED BY <2>2 DEF ArrayFound
  <1>3. a \in pi_want /\ a \in pi_known
    BY <1>1
  <1>4. PtrOf(a) = pi_lin.ptr[a] /\ CountOf(a) = pi_info[a].count /\ pi_info[a].count = Len(pi_prog[a].recs)
    BY <1>1, <1>3 DEF PtrOf, CountOf, InfoOf
  <1> QED BY <1>2, <1>4 DEF InBlock, RecordsOf

\* An array whose pointer is none but leads into the block is there.
LEMMA ShownIs ==
  ASSUME PiInv, pi_pc = "addr", NEW a \in Arrays, PtrOf(a) # Null, InBlock(a)
  PROVE  a \in pi_want \ pi_lin.secret
  <1>1. /\ pi_prog \in InfoPrograms /\ pi_known \in SUBSET Arrays /\ pi_want \in SUBSET pi_known
        /\ pi_info = InfoOf(pi_prog, pi_known) /\ BlockOf(pi_prog, pi_known, pi_want, pi_lin, pi_lin.base, pi_moved)
    BY DEF PiInv, PiTypes, InfoIsOf, Laid, OriginOf
  <1>2. a \in pi_want /\ PtrOf(a) = pi_lin.ptr[a] /\ pi_lin.ptr[a] # 0
    BY DEF PtrOf, Null
  <1>3. ASSUME a \in pi_lin.secret PROVE FALSE
    <2>1. pi_lin.ptr[a] - pi_lin.base \notin 0 .. Len(pi_lin.mem) - Extent(pi_info, a)
      BY <1>1, <1>2, <1>3, HiddenIsOutside DEF Strayed
    <2> QED BY <1>2, <2>1 DEF InBlock
  <1> QED BY <1>2, <1>3

\* A hidden one whose pointer is not 0 was moved.
LEMMA MovedIs ==
  ASSUME PiInv, pi_pc = "addr", NEW a \in pi_lin.secret, PtrOf(a) # Null
  PROVE  pi_moved
  <1>1. /\ pi_prog \in InfoPrograms /\ pi_known \in SUBSET Arrays /\ pi_want \in SUBSET pi_known
        /\ pi_info = InfoOf(pi_prog, pi_known) /\ BlockOf(pi_prog, pi_known, pi_want, pi_lin, pi_lin.base, pi_moved)
    BY DEF PiInv, PiTypes, InfoIsOf, Laid, OriginOf
  <1>2. pi_lin.ptr[a] # 0
    BY DEF PtrOf, Null
  <1>3. a \in pi_lin.secret
    OBVIOUS
  <1>4. Strayed(InfoOf(pi_prog, pi_known), pi_lin, pi_moved, a)
    BY <1>1, <1>2, <1>3, HiddenIsOutside
  <1> QED BY <1>4 DEF Strayed

\* bpf_prog_linfo__new follows a pointer that is none only for a reason.
LEMMA AstrayFor ==
  ASSUME PiInv, pi_pc = "addr", Astray
  PROVE  "line_info" \notin pi_want \/ (pi_moved /\ pi_lin.secret # {})
  <1>1. BlockOf(pi_prog, pi_known, pi_want, pi_lin, pi_lin.base, pi_moved)
    BY DEF PiInv, Laid, OriginOf
  <1>2. "line_info" \notin pi_lin.secret
    BY <1>1 DEF BlockOf, Secret
  <1>3. CASE ~ InBlock("line_info")
    BY <1>2, <1>3, RecordsAre
  <1>4. CASE JitedIsThere /\ \E a \in {"jited_line_info", "jited_ksyms", "jited_func_lens"} : ~ InBlock(a)
    <2>1. PICK a \in {"jited_line_info", "jited_ksyms", "jited_func_lens"} : ~ InBlock(a)
      BY <1>4
    <2>2. PtrOf(a) # Null
      BY <1>4 DEF JitedIsThere
    <2>3. a \in pi_want
      BY <2>2 DEF PtrOf
    <2>4. a \in pi_lin.secret
      BY <2>1, <2>3, RecordsAre
    <2> QED BY <2>2, <2>4, MovedIs
  <1> QED BY <1>3, <1>4 DEF Astray

\* Otherwise it reads what the kernel gave.
LEMMA LinesAreThere ==
  ASSUME PiInv, pi_pc = "addr", ~ Astray, CountOf("line_info") # 0
  PROVE  RecordsOf("line_info") = pi_prog["line_info"].recs /\ CountOf("line_info") = Len(pi_prog["line_info"].recs)
  <1>1. /\ BlockOf(pi_prog, pi_known, pi_want, pi_lin, pi_lin.base, pi_moved) /\ "line_info" \in pi_known
        /\ pi_info = InfoOf(pi_prog, pi_known) /\ pi_prog \in InfoPrograms
    BY DEF PiInv, PiTypes, InfoIsOf, Laid, OriginOf
  <1>2. CountOf("line_info") = Len(pi_prog["line_info"].recs)
    BY <1>1 DEF CountOf, InfoOf
  <1>3. InBlock("line_info")
    <2>1. CountOf("line_info") > 0
      BY <1>1, <1>2, NamedArrays, ProgramIs
    <2> QED BY <2>1 DEF Astray
  <1>4. "line_info" \in pi_want
    <2> SUFFICES ASSUME "line_info" \notin pi_want PROVE FALSE
      OBVIOUS
    <2>1. PtrOf("line_info") = 0
      BY DEF PtrOf, Null
    <2>2. pi_lin.base \in Nat /\ pi_lin.base # 0
      BY <1>1, AddressesAre DEF BlockOf
    <2> DEFINE base == pi_lin.base
    <2> HIDE DEF base
    <2>3. ~ 0 - base \in 0 .. Len(pi_lin.mem) - Extent(pi_info, "line_info")
      BY <2>2 DEF base
    <2> QED BY <1>3, <2>1, <2>3 DEF InBlock, base
  <1>5. "line_info" \notin pi_lin.secret
    BY <1>1 DEF BlockOf, Secret
  <1> QED BY <1>4, <1>5, RecordsAre

\* So are the arrays of the jited program.
LEMMA JitedAreThere ==
  ASSUME PiInv, pi_pc = "addr", ~ Astray, CountOf("line_info") # 0, JitedIsThere
  PROVE  /\ \A a \in {"jited_line_info", "jited_ksyms", "jited_func_lens"} : RecordsOf(a) = pi_prog[a].recs
         /\ Len(pi_prog["jited_ksyms"].recs) > 0 /\ Len(pi_prog["jited_line_info"].recs) > 0
         /\ Len(pi_prog["jited_func_lens"].recs) = Len(pi_prog["jited_ksyms"].recs)
  <1>1. CountOf("line_info") \in Nat /\ CountOf("line_info") > 0
    <2>1. CountOf("line_info") = Len(pi_prog["line_info"].recs) /\ pi_prog \in InfoPrograms
      BY LinesAreThere DEF PiInv, PiTypes
    <2> QED BY <2>1, NamedArrays, ProgramIs
  <1>2. ASSUME NEW a \in {"jited_line_info", "jited_ksyms", "jited_func_lens"}
        PROVE  RecordsOf(a) = pi_prog[a].recs /\ CountOf(a) = Len(pi_prog[a].recs)
    <2>1. InBlock(a)
      BY <1>1 DEF Astray
    <2>2. PtrOf(a) # Null
      BY DEF JitedIsThere
    <2>3. a \in Arrays
      BY NamedArrays
    <2> QED BY <2>1, <2>2, <2>3, ShownIs, RecordsAre
  <1>3. /\ CountOf("jited_ksyms") > 0 /\ CountOf("jited_line_info") = CountOf("line_info")
        /\ CountOf("jited_func_lens") = CountOf("jited_ksyms")
    BY DEF JitedIsThere
  <1> QED BY <1>1, <1>2, <1>3

\* What is assumed of the kernel.
LEMMA KernelGives ==
  ASSUME NEW prog \in InfoPrograms
  PROVE  /\ \A j, k \in 1 .. Len(prog["line_info"].recs) : j <= k => prog["line_info"].recs[j] <= prog["line_info"].recs[k]
         /\ Len(prog["jited_func_lens"].recs) = Len(prog["jited_ksyms"].recs) /\ Len(prog["jited_ksyms"].recs) > 0 =>
              Apart(prog["jited_line_info"].recs, prog["jited_ksyms"].recs, prog["jited_func_lens"].recs)
  <1> DEFINE jited == prog["jited_line_info"].recs
             ksyms == prog["jited_ksyms"].recs
             lens == prog["jited_func_lens"].recs
             lines == prog["line_info"].recs
  <1>1. /\ jited \in Seq(Nat) /\ ksyms \in Seq(Nat) /\ lens \in Seq(Nat) /\ lines \in Seq(Nat)
        /\ DOMAIN jited = 1 .. Len(jited) /\ DOMAIN ksyms = 1 .. Len(ksyms) /\ DOMAIN lens = 1 .. Len(lens)
        /\ DOMAIN lines = 1 .. Len(lines) /\ \A k \in 1 .. Len(lines) : lines[k] \in Nat
    BY NamedArrays, ProgramIs
  <1>2. /\ \A j, k \in DOMAIN lines : j < k => lines[j] < lines[k]
        /\ \A f, g \in DOMAIN ksyms \cap DOMAIN lens : f # g => ksyms[f] + lens[f] <= ksyms[g] \/ ksyms[g] + lens[g] <= ksyms[f]
        /\ \A f \in DOMAIN ksyms \cap DOMAIN lens, k \in DOMAIN jited : f = Len(ksyms) /\ jited[k] = ksyms[f] =>
             \A j \in k .. Len(jited) : jited[j] < ksyms[f] + lens[f] /\ \A i \in k .. j : jited[i] <= jited[j]
    BY ProgInfoAssumption DEF OfKernel
  <1> HIDE DEF jited, ksyms, lens, lines
  <1>3. \A j, k \in 1 .. Len(lines) : j <= k => lines[j] <= lines[k]
    <2> SUFFICES ASSUME NEW j \in 1 .. Len(lines), NEW k \in 1 .. Len(lines), j <= k PROVE lines[j] <= lines[k]
      OBVIOUS
    <2>1. lines[j] \in Nat /\ lines[k] \in Nat /\ j \in Nat /\ k \in Nat
      BY <1>1
    <2>2. j < k => lines[j] < lines[k]
      BY <1>1, <1>2
    <2> QED BY <2>1, <2>2
  <1>4. ASSUME Len(lens) = Len(ksyms), Len(ksyms) > 0 PROVE Apart(jited, ksyms, lens)
    <2>1. DOMAIN ksyms \cap DOMAIN lens = 1 .. Len(ksyms) /\ Len(ksyms) \in 1 .. Len(ksyms) /\ DOMAIN jited = 1 .. Len(jited)
      BY <1>1, <1>4
    <2> QED BY <1>2, <2>1 DEF Apart
  <1> QED BY <1>3, <1>4 DEF jited, ksyms, lens, lines

\* The answer of a search among none.
LEMMA MaxOfNone ==
  ASSUME NEW S, S = {} PROVE Max(S \cup {0}) = 0
  <1> DEFINE Z == S \cup {0}
  <1>1. 0 \in Z /\ 0 \in Int /\ \A y \in Z : y \in Int /\ y <= 0
    OBVIOUS
  <1> HIDE DEF Z
  <1>2. Max(Z) = 0
    BY <1>1, MaxIs
  <1> QED BY <1>2 DEF Z

\* The search by instruction.
LEMMA InsnFound ==
  ASSUME pi_prog \in InfoPrograms, LinfoIs(pi_prog, pi_linfo), NEW x \in Int, NEW skip \in Nat
  PROVE  LET recs == pi_prog["line_info"].recs
         IN lfind(x, skip) = LastOf(recs, Skipped(DOMAIN recs, skip), x)
  <1> DEFINE recs == pi_prog["line_info"].recs
             n == Len(recs)
  <1>1. n \in Nat /\ DOMAIN recs = 1 .. n /\ \A k \in 1 .. n : recs[k] \in Nat
    BY NamedArrays, ProgramIs
  <1>2. \A j, k \in 1 .. n : j <= k => recs[j] <= recs[k]
    BY KernelGives
  <1>3. lfind(x, skip) = IF skip >= n THEN 0 ELSE LastNotAfter(recs, skip + 1, n - skip, x)
    BY DEF lfind, LinfoIs
  <1> HIDE DEF recs, n
  <1>4. SearchFrom(recs, 1, n, skip, x) = LastOf(recs, Skipped(1 .. n, skip), x)
    <2>1. 1 \in Nat /\ 1 >= 1 /\ n \in Int /\ n = n - 1 + 1
      BY <1>1
    <2>2. InOrder(recs, 1, n)
      BY <1>1, <1>2 DEF InOrder
    <2> QED BY <2>1, <2>2, SearchIs
  <1>5. 1 + skip = skip + 1
    OBVIOUS
  <1>6. SearchFrom(recs, 1, n, skip, x) = IF skip >= n THEN 0 ELSE LastNotAfter(recs, skip + 1, n - skip, x)
    BY <1>5 DEF SearchFrom
  <1>7. lfind(x, skip) = LastOf(recs, Skipped(1 .. n, skip), x)
    BY <1>3, <1>4, <1>5, <1>6
  <1> QED BY <1>1, <1>7 DEF recs

\* The search by address.
LEMMA AddrFound ==
  ASSUME pi_prog \in InfoPrograms, LinfoIs(pi_prog, pi_linfo), NEW x \in Int, NEW skip \in Nat, NEW f \in Nat \ {0}
  PROVE  LET recs == pi_prog["jited_line_info"].recs
             of == IF f <= Len(pi_prog["jited_ksyms"].recs) /\ pi_linfo.nr_func > 0 THEN OfFunc(f) ELSE {}
         IN lfind_addr_func(x, f, skip) = LastOf(recs, Skipped(of, skip), x)
  <1> DEFINE recs == pi_prog["jited_line_info"].recs
             ksyms == pi_prog["jited_ksyms"].recs
             lens == pi_prog["jited_func_lens"].recs
             idx == pi_linfo.idx
             n == Len(recs)
             of == IF f <= Len(ksyms) /\ pi_linfo.nr_func > 0 THEN OfFunc(f) ELSE {}
  <1>1. /\ n \in Nat /\ DOMAIN recs = 1 .. n /\ \A k \in 1 .. n : recs[k] \in Nat
        /\ Len(ksyms) \in Nat
    BY NamedArrays, ProgramIs
  <1>2. /\ pi_linfo.nr_func = Len(idx) /\ idx \in Seq(Nat) /\ Len(idx) \in Nat
        /\ idx # <<>> => pi_linfo.jited = recs /\ FuncsFound(recs, ksyms, lens, idx)
    BY DEF LinfoIs
  <1>3. CASE f > pi_linfo.nr_func
    <2>1. lfind_addr_func(x, f, skip) = 0
      BY <1>3 DEF lfind_addr_func
    <2>2. of = {}
      <3>1. CASE idx = <<>>
        <4>1. Len(idx) = 0
          BY <3>1
        <4> QED BY <1>2, <4>1
      <3>2. CASE idx # <<>>
        <4>1. Len(idx) = Len(ksyms)
          BY <1>2, <3>2 DEF FuncsFound
        <4>2. ~ f <= Len(ksyms)
          BY <1>1, <1>2, <1>3, <4>1
        <4> QED BY <4>2
      <3> QED BY <3>1, <3>2
    <2> HIDE DEF of
    <2>3. {k \in Skipped(of, skip) : recs[k] <= x} = {}
      BY <2>2 DEF Skipped
    <2>4. Max({k \in Skipped(of, skip) : recs[k] <= x} \cup {0}) = 0
      <3> DEFINE S == {k \in Skipped(of, skip) : recs[k] <= x}
      <3> HIDE DEF S
      <3>1. Max(S \cup {0}) = 0
        BY <2>3, MaxOfNone DEF S
      <3> QED BY <3>1 DEF S
    <2> QED BY <2>1, <2>4 DEF of, LastOf
  <1>4. CASE ~ f > pi_linfo.nr_func
    <2> DEFINE a == idx[f]
               b == EndOf(n, idx, f)
    <2>1. f \in 1 .. Len(idx) /\ Len(idx) > 0
      BY <1>2, <1>4
    <2>2. idx # <<>>
      BY <2>1
    <2>3. /\ pi_linfo.jited = recs /\ Len(idx) = Len(ksyms)
          /\ a \in 1 .. n /\ b \in a .. n /\ OwnOf(recs, ksyms, lens, f) = a .. b /\ RisesWeakly(recs, a, b)
      BY <1>2, <2>1, <2>2 DEF FuncsFound
    <2>4. of = a .. b
      <3>1. OfFunc(f) = OwnOf(recs, ksyms, lens, f)
        BY <1>1 DEF OfFunc, OwnOf
      <3>2. of = OfFunc(f)
        BY <1>2, <2>1, <2>3
      <3> QED BY <2>3, <3>1, <3>2
    <2>5. NrPerFunc(f) = b - a + 1
      <3>1. CASE f = Len(idx)
        <4>1. NrPerFunc(f) = n + 1 - a /\ b = n
          <5>1. f = pi_linfo.nr_func /\ Len(pi_linfo.jited) = n
            BY <1>2, <2>3, <3>1
          <5>2. NrPerFunc(f) = Len(pi_linfo.jited) + 1 - a
            <6> DEFINE top == IF f = pi_linfo.nr_func THEN Len(pi_linfo.jited) + 1 ELSE pi_linfo.idx[f + 1]
            <6>1. NrPerFunc(f) = top - a
              BY DEF NrPerFunc
            <6>2. top = Len(pi_linfo.jited) + 1
              BY <5>1
            <6>3. a \in Nat /\ Len(pi_linfo.jited) \in Nat
              BY <1>1, <2>3, <5>1
            <6> HIDE DEF top, a
            <6> QED BY <6>1, <6>2, <6>3
          <5>3. b = n
            BY <3>1 DEF EndOf
          <5> QED BY <5>1, <5>2, <5>3
        <4>2. a \in Nat
          BY <1>1, <2>3
        <4> HIDE DEF a, b, n
        <4> QED BY <1>1, <4>1, <4>2
      <3>2. CASE f # Len(idx)
        <4> DEFINE e == idx[f + 1]
        <4>1. NrPerFunc(f) = e - a /\ b = e - 1
          BY <1>2, <3>2 DEF NrPerFunc, EndOf
        <4>2. a \in Nat /\ e \in Nat
          <5>1. f + 1 \in 1 .. Len(idx)
            BY <1>2, <2>1, <3>2
          <5> QED BY <1>1, <1>2, <2>3, <5>1
        <4> HIDE DEF a, b, e
        <4> QED BY <4>1, <4>2
      <3> QED BY <3>1, <3>2
    <2>6. lfind_addr_func(x, f, skip) = SearchFrom(recs, a, NrPerFunc(f), skip, x)
      BY <1>4, <2>3 DEF lfind_addr_func, SearchFrom
    <2> HIDE DEF a, b, n, of
    <2>7. a \in Nat /\ a >= 1 /\ b \in Int /\ \A k \in a .. b : k \in 1 .. n
      BY <1>1, <2>3
    <2>8. \A k \in a .. b : recs[k] \in Nat
      BY <1>1, <2>7
    <2>9. \A j, k \in a .. b : j <= k => recs[j] <= recs[k]
      BY <2>3 DEF RisesWeakly
    <2> HIDE DEF recs
    <2> DEFINE num == NrPerFunc(f)
    <2>10. SearchFrom(recs, a, num, skip, x) = LastOf(recs, Skipped(a .. b, skip), x)
      <3>1. num = b - a + 1 /\ num \in Int
        BY <2>5, <2>7
      <3>2. InOrder(recs, a, b)
        BY <2>8, <2>9 DEF InOrder
      <3> HIDE DEF num
      <3> QED BY <2>7, <3>1, <3>2, SearchIs
    <2>11. lfind_addr_func(x, f, skip) = LastOf(recs, Skipped(of, skip), x)
      BY <2>4, <2>6, <2>10
    <2> QED BY <2>11 DEF recs, of
  <1> QED BY <1>3, <1>4

\* The records are in order for the program as for its arrays.
LEMMA OrderIs ==
  ASSUME pi_prog \in InfoPrograms, Orderly
  PROVE  OrderlyIn(pi_prog["jited_line_info"].recs, pi_prog["jited_ksyms"].recs, pi_prog["jited_func_lens"].recs)
  <1> DEFINE jited == pi_prog["jited_line_info"].recs
             ksyms == pi_prog["jited_ksyms"].recs
             lens == pi_prog["jited_func_lens"].recs
  <1>1. DOMAIN jited = 1 .. Len(jited) /\ DOMAIN ksyms = 1 .. Len(ksyms)
    BY NamedArrays, ProgramIs
  <1>2. \A f : OfFunc(f) = OwnOf(jited, ksyms, lens, f)
    BY <1>1 DEF OfFunc, OwnOf
  <1>3. /\ \A f \in 1 .. Len(ksyms) : /\ OfFunc(f) # {} /\ jited[Min(OfFunc(f))] = ksyms[f]
                                      /\ \A j, k \in OfFunc(f) : j < k => jited[j] < jited[k]
        /\ \A f, g \in 1 .. Len(ksyms) : f < g => \A j \in OfFunc(f), k \in OfFunc(g) : j < k
        /\ UNION {OfFunc(f) : f \in 1 .. Len(ksyms)} = 1 .. Len(jited)
    BY <1>1 DEF Orderly
  <1> HIDE DEF jited, ksyms, lens
  <1>4. \A k \in 1 .. Len(jited) : \E f \in 1 .. Len(ksyms) : k \in OfFunc(f)
    BY <1>3
  <1>5. OrderlyIn(jited, ksyms, lens)
    BY <1>2, <1>3, <1>4 DEF OrderlyIn
  <1> QED BY <1>5 DEF jited, ksyms, lens

\* bpf_prog_linfo__new refuses only for a reason, and makes a proper struct bpf_prog_linfo.
LEMMA NewLinfo ==
  ASSUME PiInv, pi_pc = "addr", ~ Astray
  PROVE  /\ LinfoOf = NoLinfo => pi_prog["line_info"].recs = <<>> \/ ~ Orderly
         /\ LinfoOf # NoLinfo => LinfoIs(pi_prog, LinfoOf)
  <1> DEFINE jited == pi_prog["jited_line_info"].recs
             ksyms == pi_prog["jited_ksyms"].recs
             lens == pi_prog["jited_func_lens"].recs
             lines == RecordsOf("line_info")
             funcs == Dissect(RecordsOf("jited_line_info"), RecordsOf("jited_ksyms"), RecordsOf("jited_func_lens"))
             some == [nr_func |-> Len(funcs), lines |-> lines, jited |-> RecordsOf("jited_line_info"), idx |-> funcs]
             none == [nr_func |-> 0, lines |-> lines, jited |-> <<>>, idx |-> <<>>]
  <1>1. /\ pi_prog \in InfoPrograms /\ "line_info" \in pi_known /\ pi_info = InfoOf(pi_prog, pi_known)
        /\ pi_known \in SUBSET Arrays
    BY DEF PiInv, PiTypes, InfoIsOf, Laid
  <1>2. LinfoOf = IF CountOf("line_info") = 0 THEN NoLinfo ELSE IF ~ JitedIsThere THEN none
                  ELSE IF funcs # <<>> THEN some ELSE NoLinfo
    BY DEF LinfoOf
  <1>3. jited \in Seq(Nat) /\ ksyms \in Seq(Nat) /\ lens \in Seq(Nat) /\ pi_prog["line_info"].recs \in Seq(Nat)
    BY <1>1, NamedArrays, ProgramIs
  <1>4. CASE CountOf("line_info") = 0
    <2>1. Len(pi_prog["line_info"].recs) = 0
      BY <1>1, <1>4 DEF CountOf, InfoOf
    <2>2. pi_prog["line_info"].recs = <<>>
      BY <1>3, <2>1
    <2> QED BY <1>2, <1>4, <2>2
  <1>5. CASE CountOf("line_info") # 0 /\ ~ JitedIsThere
    <2>1. LinfoOf = none
      BY <1>2, <1>5
    <2>2. lines = pi_prog["line_info"].recs
      BY <1>5, LinesAreThere
    <2> HIDE DEF lines
    <2>3. none.nr_func = 0 /\ none.lines = lines /\ none.idx = <<>> /\ none.jited = <<>>
      OBVIOUS
    <2>4. NoLinfo.nr_func = -1
      BY DEF NoLinfo
    <2> HIDE DEF none
    <2>5. none # NoLinfo
      BY <2>3, <2>4
    <2>6. <<>> \in Seq(Nat) /\ Len(<<>>) = 0
      OBVIOUS
    <2> QED BY <2>1, <2>2, <2>3, <2>5, <2>6 DEF LinfoIs
  <1>6. CASE CountOf("line_info") # 0 /\ JitedIsThere
    <2>1. lines = pi_prog["line_info"].recs
      BY <1>6, LinesAreThere
    <2>2. /\ RecordsOf("jited_line_info") = jited /\ RecordsOf("jited_ksyms") = ksyms /\ RecordsOf("jited_func_lens") = lens
          /\ Len(ksyms) > 0 /\ Len(jited) > 0 /\ Len(lens) = Len(ksyms)
      BY <1>6, JitedAreThere
    <2> HIDE DEF lines, jited, ksyms, lens
    <2>3. funcs = Dissect(jited, ksyms, lens)
      BY <2>2
    <2>4. Orderly => funcs # <<>>
      <3> SUFFICES ASSUME Orderly PROVE funcs # <<>>
        OBVIOUS
      <3>1. OrderlyIn(jited, ksyms, lens)
        BY <1>1, OrderIs DEF jited, ksyms, lens
      <3>2. Dissect(jited, ksyms, lens) # <<>>
        BY <1>3, <2>2, <3>1, DissectComplete
      <3> QED BY <2>3, <3>2
    <2> HIDE DEF funcs
    <2>5. CASE funcs = <<>>
      BY <1>2, <1>6, <2>4, <2>5
    <2>6. CASE funcs # <<>>
      <3>1. LinfoOf = some
        BY <1>2, <1>6, <2>6
      <3>2. some.nr_func = Len(funcs) /\ some.lines = lines /\ some.jited = RecordsOf("jited_line_info") /\ some.idx = funcs
        OBVIOUS
      <3> HIDE DEF some
      <3>3. funcs \in Seq(Nat) /\ Len(funcs) = Len(ksyms) /\ FirstsAre(jited, ksyms, lens, Len(jited), funcs)
        <4>1. Len(ksyms) \in Nat \ {0}
          BY <1>3, <2>2
        <4> QED BY <1>3, <2>2, <2>3, <2>6, <4>1, DissectSound
      <3>4. Apart(jited, ksyms, lens)
        BY <1>1, <2>2, KernelGives DEF jited, ksyms, lens
      <3>5. FuncsFound(jited, ksyms, lens, funcs)
        BY <1>3, <2>2, <3>3, <3>4, FuncsAre
      <3>6. some # NoLinfo
        <4>1. NoLinfo.nr_func = -1
          BY DEF NoLinfo
        <4>2. Len(funcs) \in Nat
          BY <3>3
        <4> QED BY <3>2, <4>1, <4>2
      <3>7. LinfoIs(pi_prog, some)
        BY <2>1, <2>2, <3>2, <3>3, <3>5, <3>6 DEF LinfoIs, jited, ksyms, lens
      <3> QED BY <3>1, <3>6, <3>7
    <2> QED BY <2>5, <2>6
  <1> QED BY <1>4, <1>5, <1>6

\* The invariant at the start.
LEMMA PiInitInv ==
  ASSUME PiInit PROVE PiInv
  <1>1. PiTypes
    BY NamedArrays DEF PiInit, PiTypes, PiPcs
  <1>2. pi_pc = "dims" /\ pi_linfo = NoLinfo /\ pi_found = NotAsked
    BY DEF PiInit
  <1> QED BY <1>1, <1>2 DEF PiInv, Laid, LinfoNow, AstrayHasReason, RefusesForReason, FindsTheLine

\* What a step that touches neither struct bpf_prog_linfo nor the search leaves true.
LEMMA SearchIsKept ==
  ASSUME PiInv, UNCHANGED <<pi_prog, pi_linfo, pi_found>>,
         pi_pc' = "addr" \/ pi_linfo = NoLinfo
  PROVE  LinfoNow' /\ FindsTheLine'
  <1>1. LinfoNow'
    <2>1. LinfoNow
      BY DEF PiInv
    <2>2. LinfoIs(pi_prog, pi_linfo) => pi_linfo # NoLinfo
      BY DEF LinfoIs
    <2> QED BY <2>1, <2>2 DEF LinfoNow
  <1>2. FindsTheLine'
    <2>1. FindsTheLine
      BY DEF PiInv
    <2>2. Searched' = Searched
      BY DEF Searched, OfFunc
    <2> QED BY <2>1, <2>2 DEF FindsTheLine
  <1> QED BY <1>1, <1>2

\* A step that fails.
LEMMA FailStep ==
  ASSUME PiInv, PiFails, pi_linfo = NoLinfo, UNCHANGED <<pi_prog, pi_known, pi_moved, pi_linfo, pi_found>>, pi_want' = pi_want
  PROVE  PiInv'
  <1>1. pi_pc' = "failed" /\ pi_faults' = pi_faults + 1 /\ pi_faults \in Nat
    BY DEF PiFails, PiFault, PiInv, PiTypes
  <1>2. PiTypes'
    BY <1>1 DEF PiInv, PiTypes, PiPcs
  <1>3. LinfoNow' /\ FindsTheLine'
    BY SearchIsKept
  <1>4. ~ Laid' /\ ~ pi_pc' = "fill" /\ AstrayHasReason' /\ RefusesForReason'
    BY <1>1 DEF Laid, AstrayHasReason, RefusesForReason
  <1> QED BY <1>2, <1>3, <1>4 DEF PiInv

\* Before the block is there nothing was made of it.
LEMMA NotYetLoaded ==
  ASSUME PiInv, pi_pc # "addr" PROVE pi_linfo = NoLinfo
  <1> QED BY DEF PiInv, LinfoNow

\* Steps 1 and 2 of bpf_program__get_prog_info_linear.
LEMMA GetDimensionsStep ==
  ASSUME PiInv, GetDimensions PROVE PiInv'
  <1>1. pi_pc = "dims" /\ UNCHANGED <<pi_prog, pi_known, pi_lin, pi_moved, pi_linfo, pi_found>> /\ pi_linfo = NoLinfo
    BY NotYetLoaded DEF GetDimensions
  <1>2. CASE /\ pi_info' = [a \in pi_known |-> [count |-> Len(pi_prog[a].recs), size |-> pi_prog[a].size]]
             /\ pi_want' = pi_want \cap pi_known /\ pi_pc' = "fill" /\ UNCHANGED pi_faults
    <2>1. PiTypes'
      BY <1>1, <1>2 DEF PiInv, PiTypes, PiPcs
    <2>2. InfoIsOf'
      BY <1>1, <1>2 DEF InfoIsOf, InfoOf
    <2>3. LinfoNow' /\ FindsTheLine'
      BY <1>1, SearchIsKept
    <2>4. ~ Laid' /\ AstrayHasReason' /\ RefusesForReason'
      BY <1>2 DEF Laid, AstrayHasReason, RefusesForReason
    <2> QED BY <2>1, <2>2, <2>3, <2>4 DEF PiInv
  <1>3. CASE PiFails /\ UNCHANGED <<pi_info, pi_want>>
    BY <1>1, <1>3, FailStep
  <1> QED BY <1>2, <1>3 DEF GetDimensions

\* Steps 3 to 7.
LEMMA FillStep ==
  ASSUME PiInv, Fill PROVE PiInv'
  <1>1. /\ pi_pc = "fill" /\ pi_linfo = NoLinfo
        /\ UNCHANGED <<pi_prog, pi_want, pi_known, pi_info, pi_moved, pi_linfo, pi_found>>
    BY NotYetLoaded DEF Fill
  <1>2. /\ pi_prog \in InfoPrograms /\ pi_known \in SUBSET Arrays /\ pi_want \in SUBSET pi_known
        /\ pi_info = InfoOf(pi_prog, pi_known)
    BY <1>1 DEF PiInv, PiTypes, InfoIsOf
  <1>3. CASE PiFails /\ UNCHANGED pi_lin
    BY <1>1, <1>3, FailStep
  <1>4. CASE ~ (PiFails /\ UNCHANGED pi_lin)
    <2>1. PICK base \in InfoAddresses, raw_ok \in BOOLEAN :
            LET offs == [a \in pi_want |-> Before(pi_info, pi_want, PlaceOf(a) - 1)]
                shown == {a \in pi_want : raw_ok \/ a \notin Secret \/ pi_info[a].count = 0}
                len == RoundUp(Before(pi_info, pi_want, Len(InfoArrays)))
            IN /\ base + len < AddressSpace
               /\ pi_lin' = [base |-> base, secret |-> pi_want \ shown,
                             mem |-> Written(pi_prog, pi_info, offs, shown, len),
                             ptr |-> [a \in pi_want |-> IF a \in shown THEN base + offs[a] ELSE Null]]
               /\ pi_pc' = "addr" /\ UNCHANGED pi_faults
      BY <1>4 DEF Fill
    <2> DEFINE offs == Offsets(pi_info, pi_want)
               shown == {a \in pi_want : raw_ok \/ a \notin Secret \/ pi_info[a].count = 0}
               len == RoundUp(Before(pi_info, pi_want, Len(InfoArrays)))
    <2>2. /\ base + len < AddressSpace /\ pi_pc' = "addr" /\ UNCHANGED pi_faults
          /\ pi_lin' = [base |-> base, secret |-> pi_want \ shown,
                        mem |-> Written(pi_prog, pi_info, offs, shown, len),
                        ptr |-> [a \in pi_want |-> IF a \in shown THEN base + offs[a] ELSE Null]]
      BY <2>1 DEF Offsets, OffsetOf
    <2>3. shown \in SUBSET pi_want /\ pi_want \ shown \subseteq Secret
      OBVIOUS
    <2> DEFINE lin == [base |-> base, secret |-> pi_want \ shown,
                       mem |-> Written(pi_prog, pi_info, offs, shown, len),
                       ptr |-> [a \in pi_want |-> IF a \in shown THEN base + offs[a] ELSE Null]]
    <2> HIDE DEF shown
    <2>4. IsFilled(pi_prog, pi_info, pi_want, shown, base, lin)
      BY <2>2 DEF IsFilled
    <2>5. BlockOf(pi_prog, pi_known, pi_want, lin, base, pi_moved) /\ lin.base = base
      <3>1. lin.base = base
        OBVIOUS
      <3> HIDE DEF lin
      <3> QED BY <1>2, <2>2, <2>3, <2>4, <3>1, FilledIs
    <2>6. pi_lin' = lin
      BY <2>2
    <2> HIDE DEF lin
    <2>7. BlockOf(pi_prog, pi_known, pi_want, pi_lin, OriginOf(pi_pc, pi_lin), pi_moved)'
      BY <1>1, <2>2, <2>5, <2>6 DEF OriginOf
    <2>8. PiTypes' /\ InfoIsOf'
      BY <1>1, <1>2, <2>2 DEF PiInv, PiTypes, PiPcs, InfoIsOf
    <2>9. LinfoNow' /\ FindsTheLine'
      BY <1>1, SearchIsKept
    <2>10. AstrayHasReason' /\ RefusesForReason'
      BY <2>2 DEF AstrayHasReason, RefusesForReason
    <2> QED BY <2>7, <2>8, <2>9, <2>10 DEF PiInv
  <1> QED BY <1>3, <1>4

\* The address and the size of a block.
LEMMA BlockBase ==
  ASSUME NEW prog, NEW known, NEW want, NEW lin, NEW origin, NEW moved, BlockOf(prog, known, want, lin, origin, moved)
  PROVE  lin.base \in Nat /\ Len(lin.mem) \in Nat /\ lin.base + Len(lin.mem) < AddressSpace /\ Len(lin.mem) < AddressSpace
  <1>1. lin.base \in InfoAddresses /\ Len(lin.mem) \in Nat /\ lin.base + Len(lin.mem) < AddressSpace
    BY DEF BlockOf
  <1> DEFINE b == lin.base
             n == Len(lin.mem)
  <1>2. b \in Nat /\ AddressSpace \in Nat
    BY <1>1, AddressesAre
  <1> HIDE DEF b, n
  <1>3. n < AddressSpace
    BY <1>1, <1>2 DEF b, n
  <1> QED BY <1>1, <1>2, <1>3 DEF b, n

\* bpf_program__bpil_addr_to_offs.
LEMMA ToOffsStep ==
  ASSUME PiInv, bpil_addr_to_offs PROVE PiInv'
  <1>1. /\ pi_pc = "addr" /\ pi_linfo = NoLinfo /\ pi_pc' = "offs" /\ pi_lin' = [pi_lin EXCEPT !.ptr = Rebased(- pi_lin.base)]
        /\ UNCHANGED <<pi_prog, pi_want, pi_known, pi_info, pi_moved, pi_linfo, pi_found, pi_faults>>
    BY DEF bpil_addr_to_offs
  <1>2. /\ pi_prog \in InfoPrograms /\ pi_known \in SUBSET Arrays /\ pi_want \in SUBSET pi_known
        /\ BlockOf(pi_prog, pi_known, pi_want, pi_lin, pi_lin.base, pi_moved) /\ InfoIsOf
    BY <1>1 DEF PiInv, PiTypes, InfoIsOf, Laid, OriginOf
  <1> DEFINE from == pi_lin.base
             by == - from
             to == 0
  <1>3. from \in Nat /\ Len(pi_lin.mem) \in Nat /\ Len(pi_lin.mem) < AddressSpace
    BY <1>2, BlockBase
  <1>4. pi_lin' = [pi_lin EXCEPT !.ptr = [a \in pi_want |-> (pi_lin.ptr[a] + by) % AddressSpace]]
    BY <1>1 DEF Rebased
  <1>5. BlockOf(pi_prog, pi_known, pi_want, pi_lin, from, pi_moved)
    BY <1>2
  <1>6. by \in Int /\ from + by = to /\ to \in Nat /\ to + Len(pi_lin.mem) < AddressSpace
    <2> HIDE DEF from
    <2> QED BY <1>3
  <1> HIDE DEF from, by, to
  <1>7. BlockOf(pi_prog, pi_known, pi_want, pi_lin', to, pi_moved)
    BY <1>2, <1>3, <1>4, <1>5, <1>6, MovedPointers
  <1>8. BlockOf(pi_prog, pi_known, pi_want, pi_lin, OriginOf(pi_pc, pi_lin), pi_moved)'
    BY <1>1, <1>7 DEF OriginOf, to
  <1>9. PiTypes' /\ InfoIsOf'
    BY <1>1, <1>2 DEF PiInv, PiTypes, PiPcs, InfoIsOf
  <1>10. LinfoNow' /\ FindsTheLine'
    BY <1>1, SearchIsKept
  <1>11. AstrayHasReason' /\ RefusesForReason'
    BY <1>1 DEF AstrayHasReason, RefusesForReason
  <1> QED BY <1>8, <1>9, <1>10, <1>11 DEF PiInv

\* bpf_program__bpil_offs_to_addr.
LEMMA ToAddrStep ==
  ASSUME PiInv, bpil_offs_to_addr PROVE PiInv'
  <1>1. /\ pi_pc = "offs" /\ pi_pc' = "addr" /\ pi_lin' = [pi_lin EXCEPT !.ptr = Rebased(pi_lin.base)]
        /\ UNCHANGED <<pi_prog, pi_want, pi_known, pi_info, pi_moved, pi_linfo, pi_found, pi_faults>>
    BY DEF bpil_offs_to_addr
  <1>2. /\ pi_prog \in InfoPrograms /\ pi_known \in SUBSET Arrays /\ pi_want \in SUBSET pi_known
        /\ BlockOf(pi_prog, pi_known, pi_want, pi_lin, 0, pi_moved) /\ InfoIsOf
    BY <1>1 DEF PiInv, PiTypes, InfoIsOf, Laid, OriginOf
  <1> DEFINE from == 0
             by == pi_lin.base
             to == pi_lin.base
  <1>3. to \in Nat /\ to + Len(pi_lin.mem) < AddressSpace
    BY <1>2, BlockBase
  <1>4. pi_lin' = [pi_lin EXCEPT !.ptr = [a \in pi_want |-> (pi_lin.ptr[a] + by) % AddressSpace]]
    BY <1>1 DEF Rebased
  <1>5. BlockOf(pi_prog, pi_known, pi_want, pi_lin, from, pi_moved)
    BY <1>2
  <1>6. by \in Int /\ from + by = to /\ from \in Nat /\ to = pi_lin.base
    BY <1>3
  <1> HIDE DEF from, by, to
  <1>7. BlockOf(pi_prog, pi_known, pi_want, pi_lin', to, pi_moved) /\ pi_lin'.base = to
    BY <1>2, <1>3, <1>4, <1>5, <1>6, MovedPointers
  <1>8. BlockOf(pi_prog, pi_known, pi_want, pi_lin, OriginOf(pi_pc, pi_lin), pi_moved)'
    BY <1>1, <1>7 DEF OriginOf
  <1>9. PiTypes' /\ InfoIsOf'
    BY <1>1, <1>2 DEF PiInv, PiTypes, PiPcs, InfoIsOf
  <1>10. LinfoNow' /\ FindsTheLine'
    BY <1>1, SearchIsKept
  <1>11. AstrayHasReason' /\ RefusesForReason'
    BY <1>1 DEF AstrayHasReason, RefusesForReason
  <1> QED BY <1>8, <1>9, <1>10, <1>11 DEF PiInv

\* The caller saves the block and reads it elsewhere.
LEMMA SaveAndReadStep ==
  ASSUME PiInv, SaveAndRead PROVE PiInv'
  <1>1. /\ pi_pc = "offs" /\ pi_linfo = NoLinfo /\ pi_moved' = TRUE
        /\ UNCHANGED <<pi_prog, pi_want, pi_known, pi_pc, pi_info, pi_linfo, pi_found, pi_faults>>
    BY NotYetLoaded DEF SaveAndRead
  <1>2. PICK base \in InfoAddresses :
          base + Len(pi_lin.mem) < AddressSpace /\ pi_lin' = [pi_lin EXCEPT !.base = base]
    BY DEF SaveAndRead
  <1>3. BlockOf(pi_prog, pi_known, pi_want, pi_lin, 0, pi_moved) /\ InfoIsOf
    BY <1>1 DEF PiInv, Laid, OriginOf
  <1>4. BlockOf(pi_prog, pi_known, pi_want, pi_lin', 0, TRUE)
    BY <1>2, <1>3, MovedBlock
  <1>5. BlockOf(pi_prog, pi_known, pi_want, pi_lin, OriginOf(pi_pc, pi_lin), pi_moved)'
    BY <1>1, <1>4 DEF OriginOf
  <1>6. PiTypes' /\ InfoIsOf'
    BY <1>1, <1>3 DEF PiInv, PiTypes, PiPcs, InfoIsOf
  <1>7. LinfoNow' /\ FindsTheLine'
    BY <1>1, SearchIsKept
  <1>8. AstrayHasReason' /\ RefusesForReason'
    BY <1>1 DEF AstrayHasReason, RefusesForReason
  <1> QED BY <1>5, <1>6, <1>7, <1>8 DEF PiInv

\* bpf_prog_linfo__new.
LEMMA NewStep ==
  ASSUME PiInv, bpf_prog_linfo__new PROVE PiInv'
  <1>1. /\ pi_pc = "addr" /\ pi_linfo = NoLinfo
        /\ UNCHANGED <<pi_prog, pi_want, pi_known, pi_info, pi_lin, pi_moved, pi_found>>
    BY DEF bpf_prog_linfo__new
  <1>2. BlockOf(pi_prog, pi_known, pi_want, pi_lin, pi_lin.base, pi_moved) /\ InfoIsOf /\ pi_found = NotAsked
    BY <1>1 DEF PiInv, Laid, OriginOf, LinfoNow, LinfoIs
  <1>3. CASE Astray /\ pi_pc' = "astray" /\ UNCHANGED <<pi_linfo, pi_faults>>
    <2>1. AstrayHasReason'
      <3>1. "line_info" \notin pi_want \/ (pi_moved /\ pi_lin.secret # {})
        BY <1>1, <1>3, AstrayFor
      <3> QED BY <1>1, <3>1 DEF AstrayHasReason
    <2>2. PiTypes' /\ InfoIsOf' /\ RefusesForReason'
      BY <1>1, <1>2, <1>3 DEF PiInv, PiTypes, PiPcs, InfoIsOf, RefusesForReason
    <2>3. BlockOf(pi_prog, pi_known, pi_want, pi_lin, OriginOf(pi_pc, pi_lin), pi_moved)'
      BY <1>1, <1>2, <1>3 DEF OriginOf
    <2>4. LinfoNow' /\ FindsTheLine'
      BY <1>1, <1>3, SearchIsKept
    <2> QED BY <2>1, <2>2, <2>3, <2>4 DEF PiInv
  <1>4. CASE /\ ~ Astray /\ pi_linfo' = LinfoOf /\ UNCHANGED pi_faults
             /\ pi_pc' = (IF LinfoOf = NoLinfo THEN "failed" ELSE "addr")
    <2>1. /\ LinfoOf = NoLinfo => pi_prog["line_info"].recs = <<>> \/ ~ Orderly
          /\ LinfoOf # NoLinfo => LinfoIs(pi_prog, LinfoOf)
      BY <1>1, <1>4, NewLinfo
    <2>2. PiTypes' /\ InfoIsOf' /\ AstrayHasReason'
      BY <1>1, <1>2, <1>4 DEF PiInv, PiTypes, PiPcs, InfoIsOf, AstrayHasReason
    <2>3. BlockOf(pi_prog, pi_known, pi_want, pi_lin, OriginOf(pi_pc, pi_lin), pi_moved)'
      BY <1>1, <1>2, <1>4 DEF OriginOf
    <2>4. LinfoNow'
      BY <1>1, <1>2, <1>4, <2>1 DEF LinfoNow
    <2>5. FindsTheLine'
      BY <1>1, <1>2 DEF FindsTheLine
    <2>6. RefusesForReason'
      <3>1. Orderly' = Orderly
        BY <1>1 DEF Orderly, OfFunc
      <3>2. LinfoOf = NoLinfo => pi_prog["line_info"].recs = <<>> \/ ~ Orderly'
        BY <2>1, <3>1
      <3> QED BY <1>1, <1>4, <3>2 DEF RefusesForReason
    <2> QED BY <2>2, <2>3, <2>4, <2>5, <2>6 DEF PiInv
  <1>5. CASE PiFails /\ UNCHANGED pi_linfo
    BY <1>1, <1>5, FailStep
  <1> QED BY <1>3, <1>4, <1>5 DEF bpf_prog_linfo__new

\* What is searched for.
LEMMA ValuesAreInts ==
  ASSUME pi_prog \in InfoPrograms, NEW a \in Arrays, NEW x \in Values(a) PROVE x \in Int
  <1> DEFINE T == ToSet(pi_prog[a].recs)
             V == {y - 1 .. z + 1 : y, z \in T}
  <1>1. x \in UNION V
    BY DEF Values
  <1>2. PICK t \in V : x \in t
    <2> HIDE DEF V
    <2> QED BY <1>1
  <1>3. PICK y \in T, z \in T : t = y - 1 .. z + 1
    BY <1>2
  <1>4. x \in y - 1 .. z + 1
    BY <1>2, <1>3
  <1> QED BY <1>4

\* A search.
LEMMA FindStep ==
  ASSUME PiInv, Find PROVE PiInv'
  <1>1. /\ pi_linfo # NoLinfo /\ pi_pc = "addr"
        /\ UNCHANGED <<pi_prog, pi_want, pi_known, pi_pc, pi_info, pi_lin, pi_moved, pi_linfo, pi_faults>>
    BY DEF Find
  <1>2. /\ pi_prog \in InfoPrograms /\ LinfoIs(pi_prog, pi_linfo) /\ PiTypes /\ InfoIsOf /\ AstrayHasReason /\ RefusesForReason
        /\ BlockOf(pi_prog, pi_known, pi_want, pi_lin, OriginOf(pi_pc, pi_lin), pi_moved)
    BY <1>1 DEF PiInv, PiTypes, Laid, LinfoNow
  <1>3. PICK skip \in 0 .. 2 :
          \/ \E x \in Values("line_info") :
               pi_found' = [what |-> "insn", x |-> x, func |-> 0, skip |-> skip, line |-> lfind(x, skip)]
          \/ \E x \in Values("jited_line_info"), f \in 1 .. Len(pi_prog["jited_ksyms"].recs) + 1 :
               pi_found' = [what |-> "addr", x |-> x, func |-> f, skip |-> skip, line |-> lfind_addr_func(x, f, skip)]
    BY DEF Find
  <1>4. skip \in Nat
    OBVIOUS
  <1>5. FindsTheLine'
    <2>1. CASE \E x \in Values("line_info") :
                 pi_found' = [what |-> "insn", x |-> x, func |-> 0, skip |-> skip, line |-> lfind(x, skip)]
      <3>1. PICK x \in Values("line_info") :
              pi_found' = [what |-> "insn", x |-> x, func |-> 0, skip |-> skip, line |-> lfind(x, skip)]
        BY <2>1
      <3> DEFINE recs == pi_prog["line_info"].recs
      <3>2. pi_found'.what = "insn" /\ pi_found'.x = x /\ pi_found'.skip = skip /\ pi_found'.line = lfind(x, skip)
        BY <3>1
      <3>3. x \in Int
        BY <1>2, NamedArrays, ValuesAreInts
      <3>4. lfind(x, skip) = LastOf(recs, Skipped(DOMAIN recs, skip), x)
        BY <1>2, <1>4, <3>3, InsnFound
      <3>5. Searched' = Skipped(DOMAIN recs, skip)
        BY <1>1, <3>2 DEF Searched
      <3>6. pi_found'.line = LastOf(recs, Searched', pi_found'.x)
        BY <3>2, <3>4, <3>5
      <3> QED BY <1>1, <3>2, <3>6 DEF FindsTheLine, LastOf
    <2>2. CASE \E x \in Values("jited_line_info"), f \in 1 .. Len(pi_prog["jited_ksyms"].recs) + 1 :
                 pi_found' = [what |-> "addr", x |-> x, func |-> f, skip |-> skip, line |-> lfind_addr_func(x, f, skip)]
      <3>1. PICK x \in Values("jited_line_info"), f \in 1 .. Len(pi_prog["jited_ksyms"].recs) + 1 :
              pi_found' = [what |-> "addr", x |-> x, func |-> f, skip |-> skip, line |-> lfind_addr_func(x, f, skip)]
        BY <2>2
      <3> DEFINE recs == pi_prog["jited_line_info"].recs
                 of == IF f <= Len(pi_prog["jited_ksyms"].recs) /\ pi_linfo.nr_func > 0 THEN OfFunc(f) ELSE {}
      <3>2. /\ pi_found'.what = "addr" /\ pi_found'.x = x /\ pi_found'.skip = skip /\ pi_found'.func = f
            /\ pi_found'.line = lfind_addr_func(x, f, skip)
        BY <3>1
      <3>3. x \in Int /\ f \in Nat \ {0}
        <4>1. Len(pi_prog["jited_ksyms"].recs) \in Nat
          BY <1>2, NamedArrays, ProgramIs
        <4> QED BY <1>2, <4>1, NamedArrays, ValuesAreInts
      <3>4. lfind_addr_func(x, f, skip) = LastOf(recs, Skipped(of, skip), x)
        BY <1>2, <1>4, <3>3, AddrFound
      <3>5. Searched' = Skipped(of, skip)
        <4>1. OfFunc(f)' = OfFunc(f)
          BY <1>1 DEF OfFunc
        <4> QED BY <1>1, <3>2, <4>1 DEF Searched
      <3>6. pi_found'.line = LastOf(recs, Searched', pi_found'.x)
        BY <3>2, <3>4, <3>5
      <3> QED BY <1>1, <3>2, <3>6 DEF FindsTheLine, LastOf
    <2> QED BY <1>3, <2>1, <2>2
  <1>6. LinfoNow'
    BY <1>1, <1>2 DEF LinfoNow
  <1>7. PiTypes' /\ InfoIsOf' /\ BlockOf(pi_prog, pi_known, pi_want, pi_lin, OriginOf(pi_pc, pi_lin), pi_moved)'
    BY <1>1, <1>2 DEF PiTypes, InfoIsOf
  <1>8. AstrayHasReason' /\ RefusesForReason'
    BY <1>1 DEF AstrayHasReason, RefusesForReason
  <1> QED BY <1>5, <1>6, <1>7, <1>8 DEF PiInv

\* Every step keeps the invariant.
LEMMA PiNextInv ==
  ASSUME PiInv, [PiNext]_piVars PROVE PiInv'
  <1>1. CASE UNCHANGED piVars
    <2>1. UNCHANGED <<pi_prog, pi_want, pi_known, pi_pc, pi_info, pi_lin, pi_moved, pi_linfo, pi_found, pi_faults>>
      BY <1>1 DEF piVars
    <2>2. LinfoNow' /\ FindsTheLine'
      <3>1. pi_pc' = "addr" \/ pi_linfo = NoLinfo
        BY <2>1 DEF PiInv, LinfoNow
      <3> QED BY <2>1, <3>1, SearchIsKept
    <2>3. PiTypes' /\ AstrayHasReason'
      BY <2>1 DEF PiInv, PiTypes, AstrayHasReason
    <2>4. Orderly' = Orderly
      BY <2>1 DEF Orderly, OfFunc
    <2>5. RefusesForReason'
      BY <2>1, <2>4 DEF PiInv, RefusesForReason
    <2>6. (pi_pc = "fill" \/ Laid)' => InfoIsOf'
      BY <2>1 DEF PiInv, Laid, InfoIsOf
    <2>7. Laid' => BlockOf(pi_prog, pi_known, pi_want, pi_lin, OriginOf(pi_pc, pi_lin), pi_moved)'
      BY <2>1 DEF PiInv, Laid
    <2> QED BY <2>2, <2>3, <2>5, <2>6, <2>7 DEF PiInv
  <1>2. CASE PiNext
    BY <1>2, GetDimensionsStep, FillStep, ToOffsStep, ToAddrStep, SaveAndReadStep, NewStep, FindStep DEF PiNext
  <1> QED BY <1>1, <1>2

\* It implies the property.
LEMMA PiInvFinds ==
  ASSUME PiInv PROVE LinesAreFound
  <1>1. BlockIsWhole
    <2> SUFFICES ASSUME pi_pc = "addr", NEW a \in pi_want \ pi_lin.secret
                 PROVE  InBlock(a) /\ RecordsOf(a) = pi_prog[a].recs
      BY DEF BlockIsWhole
    <2> QED BY RecordsAre
  <1> QED BY <1>1 DEF PiInv, LinesAreFound

\* ProgInfo.tla: for any programs, addresses and sets of arrays, the block is whole wherever it is
\* read, a program is refused or a pointer followed amiss only for a reason, and a search finds its line.
THEOREM LinesAlwaysFound == PiSpec => []LinesAreFound
  <1>1. PiInit => PiInv
    BY PiInitInv
  <1>2. PiInv /\ [PiNext]_piVars => PiInv'
    BY PiNextInv
  <1>3. PiInv => LinesAreFound
    BY PiInvFinds
  <1> QED BY <1>1, <1>2, <1>3, PTL DEF PiSpec
=============================================================================
