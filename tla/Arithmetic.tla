----------------------------- MODULE Arithmetic ------------------------------
(***************************************************************************)
(* Facts about natural numbers and remainders that the proofs share.       *)
(***************************************************************************)
EXTENDS Integers, FiniteSets, WellFoundedInduction, TLAPS

-----------------------------------------------------------------------------
(* Remainders.                                                             *)

\* What % and \div are, the one fact about them that the provers bring along.
LEMMA ModDef ==
  ASSUME NEW a \in Int, NEW w \in Nat \ {0}
  PROVE  a % w \in 0 .. w - 1 /\ a \div w \in Int /\ a = w * (a \div w) + (a % w)
  OBVIOUS

\* A remainder is found by exhibiting it.
LEMMA ModUnique ==
  ASSUME NEW w \in Nat \ {0}, NEW q \in Int, NEW r \in 0 .. w - 1
  PROVE  (w * q + r) % w = r
  OBVIOUS

\* Whole turns do not count.
LEMMA ModShift ==
  ASSUME NEW w \in Nat \ {0}, NEW a \in Int, NEW k \in Int
  PROVE  (a + w * k) % w = a % w
  <1>. PICK q \in Int, r \in 0 .. w - 1 : a = w * q + r /\ r = a % w
    BY ModDef
  <1>1. a + w * k = w * (q + k) + r
    OBVIOUS
  <1>2. q + k \in Int
    OBVIOUS
  <1>3. (w * (q + k) + r) % w = r
    BY ONLY <1>2, ModUnique, w \in Nat \ {0}, r \in 0 .. w - 1
  <1>. QED BY <1>1, <1>3

\* A wrapped counter may be advanced and wrapped again,
LEMMA ModAdd ==
  ASSUME NEW w \in Nat \ {0}, NEW a \in Int, NEW k \in Int
  PROVE  ((a % w) + k) % w = (a + k) % w
  <1>. PICK q \in Int : a = w * q + (a % w)
    BY ModDef
  <1>. DEFINE r == a % w
  <1>0. r \in Int /\ r + k \in Int
    BY ModDef
  <1>1. a + k = (r + k) + w * q
    BY <1>0
  <1>2. ((r + k) + w * q) % w = (r + k) % w
    BY <1>0, ModShift
  <1>. QED BY <1>1, <1>2

\* and two wrapped counters differ as the unwrapped ones do.
LEMMA ModDiff ==
  ASSUME NEW w \in Nat \ {0}, NEW a \in Int, NEW b \in Int
  PROVE  ((a % w) - (b % w)) % w = (a - b) % w
  <1>. DEFINE r == a % w  s == b % w
  <1>. PICK q \in Int : a = w * q + r
    BY ModDef
  <1>. PICK p \in Int : b = w * p + s
    BY ModDef
  <1>0. r \in Int /\ s \in Int /\ r - s \in Int /\ q - p \in Int
    BY ModDef
  <1>. HIDE DEF r, s
  <1>1. a - b = (r - s) + w * (q - p)
    BY <1>0
  <1>2. ((r - s) + w * (q - p)) % w = (r - s) % w
    BY <1>0, ModShift
  <1>. QED BY <1>1, <1>2 DEF r, s

\* A counter that wraps at a multiple of the ring's size finds the same slot.
LEMMA ModMod ==
  ASSUME NEW w \in Nat \ {0}, NEW n \in Nat \ {0}, NEW a \in Int, w % n = 0
  PROVE  (a % w) % n = a % n
  <1>. DEFINE r == a % w
  <1>. PICK q \in Int : a = w * q + r
    BY ModDef
  <1>. PICK p \in Int : w = n * p
    <2>1. w \in Int /\ w \div n \in Int /\ w = n * (w \div n) + (w % n)
      BY ONLY w \in Nat \ {0}, n \in Nat \ {0}, ModDef
    <2>2. w = n * (w \div n)
      BY <2>1
    <2>. QED BY <2>1, <2>2
  <1>0. r \in Int /\ p * q \in Int
    BY ModDef
  <1>. HIDE DEF r
  <1>1. a = r + n * (p * q)
    BY <1>0
  <1>2. (r + n * (p * q)) % n = r % n
    BY <1>0, ModShift
  <1>. QED BY <1>1, <1>2 DEF r

\* Numbers less than a turn apart have different slots.
LEMMA ModApart ==
  ASSUME NEW n \in Nat \ {0}, NEW a \in Int, NEW b \in Int, a < b, b < a + n
  PROVE  a % n # b % n
  <1>. SUFFICES ASSUME a % n = b % n PROVE FALSE
    OBVIOUS
  <1>. DEFINE r == a % n
  <1>1. (b - a) % n = 0
    <2>1. ((b % n) - (a % n)) % n = (b - a) % n
      BY ModDiff
    <2>2. r \in Int /\ r - r = 0
      BY ModDef
    <2>3. (b % n) - (a % n) = 0
      BY <2>2
    <2>4. 0 % n = 0
      <3>1. n * 0 + 0 = 0 /\ 0 \in 0 .. n - 1
        OBVIOUS
      <3>. QED BY <3>1, ModUnique
    <2>. QED BY <2>1, <2>3, <2>4
  <1>2. (b - a) % n = b - a
    <2>1. b - a \in 0 .. n - 1 /\ n * 0 + (b - a) = b - a
      OBVIOUS
    <2>2. (n * 0 + (b - a)) % n = b - a
      BY <2>1, ModUnique
    <2>. QED BY <2>1, <2>2
  <1>. QED BY <1>1, <1>2

-----------------------------------------------------------------------------
(* Induction over the natural numbers, as the existence of a least one.     *)

\* A set of natural numbers that has an element has a least one.
LEMMA LeastElement ==
  ASSUME NEW T \in SUBSET Nat, T # {}
  PROVE  \E x \in T : \A y \in T : x <= y
  <1>. PICK R : R = {ss \in Nat \X Nat : ss[1] < ss[2]}
    OBVIOUS
  <1>1. IsWellFoundedOn(R, Nat)
    BY NatLessThanWellFounded DEF OpToRel
  <1>2. \E x \in T : \A y \in T : ~ (<<y, x>> \in R)
    BY <1>1, WFMin
  <1>. PICK x \in T : \A y \in T : ~ (<<y, x>> \in R)
    BY <1>2
  <1>3. ASSUME NEW y \in T PROVE x <= y
    <2>1. x \in Nat /\ y \in Nat
      OBVIOUS
    <2>2. ~ (y < x)
      BY <2>1
    <2>. QED BY ONLY <2>1, <2>2
  <1>. QED BY <1>3

\* A set that has 0 and with every number the next one has them all.
LEMMA SetInduction ==
  ASSUME NEW S \in SUBSET Nat, 0 \in S, \A n \in S : n + 1 \in S
  PROVE  S = Nat
  <1>. SUFFICES ASSUME Nat \ S # {} PROVE FALSE
    OBVIOUS
  <1>. PICK x \in Nat \ S : \A y \in Nat \ S : x <= y
    BY LeastElement
  <1>1. x # 0 /\ x - 1 \in Nat
    OBVIOUS
  <1>2. x - 1 \in S
    BY <1>1
  <1>3. (x - 1) + 1 = x
    OBVIOUS
  <1>. QED BY <1>2, <1>3
=============================================================================
