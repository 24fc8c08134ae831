----------------------------- MODULE RingProofs -----------------------------
(***************************************************************************)
(* The two kinds of rings, proved for every size of ring and every width   *)
(* of the counters, however often they wrap.  The rings of an AF_XDP       *)
(* socket implement a queue, and how stale the copies are that xsk.h works *)
(* from makes no difference.  The reader of a perf ring meets whole        *)
(* records, whatever the kernel writes meanwhile, and forgets none.        *)
(***************************************************************************)
EXTENDS XskRing, PerfRing, Arithmetic

Submitted == Len(xr_put) - xr_prod.done
Released == Len(xr_got) - xr_cons.done

Rings == [cached_prod : Int, cached_cons : Int, producer : Int, consumer : Int, ring : [Slots -> Int]]
Calls == [idx : Int, nb : Nat, done : Nat]
Failures == [call : {"none", "reserve", "peek"}, nb : Int, room : Int]

XrTypeOK ==
  /\ tx \in Rings /\ comp \in Rings
  /\ xr_prod \in Calls /\ xr_cons \in Calls
  /\ xr_put \in Seq(Int) /\ xr_got \in Seq(Int)
  /\ xr_failed \in Failures

\* The counters of the tx ring are numbers of descriptors, wrapped: those submitted, the
\* sent that the kernel has taken, and the seen that the program knows to be taken.
TxCounts(sent, seen) ==
  /\ xr_prod.done <= xr_prod.nb
  /\ xr_prod.nb > 0 => xr_prod.idx = Wrap(Submitted)
  /\ tx.producer = Wrap(Submitted)
  /\ tx.cached_prod = Wrap(Submitted + xr_prod.nb)
  /\ tx.consumer = Wrap(sent)
  /\ tx.cached_cons = Wrap(seen + RingSize)
  /\ seen <= sent /\ sent <= Submitted
  /\ Submitted + xr_prod.nb <= seen + RingSize

\* So are those of the completion ring: those sent, those released, and the known that the
\* program knows to be there.
CompCounts(sent, known) ==
  /\ xr_cons.done <= xr_cons.nb
  /\ xr_cons.nb > 0 => xr_cons.idx = Wrap(Released)
  /\ Released >= 0
  /\ comp.producer = Wrap(sent)
  /\ comp.consumer = Wrap(Released)
  /\ comp.cached_cons = Wrap(Released + xr_cons.nb)
  /\ comp.cached_prod = Wrap(known)
  /\ Released + xr_cons.nb <= known /\ known <= sent
  /\ sent <= Released + RingSize

\* The slots between two counters hold the descriptors of those numbers.
TxHolds(sent) ==
  \A j \in Nat : sent <= j /\ j < Len(xr_put) => tx.ring[j % RingSize] = j + 1
CompHolds(sent) ==
  \A j \in Nat : Released <= j /\ j < sent => comp.ring[j % RingSize] = j + 1

\* The descriptors are numbered as they are written, and come back so.
InOrder ==
  /\ \A j \in 1 .. Len(xr_put) : xr_put[j] = j
  /\ \A j \in 1 .. Len(xr_got) : xr_got[j] = j

RingsAgree(sent, seen, known) ==
  /\ XrTypeOK /\ TxCounts(sent, seen) /\ CompCounts(sent, known)
  /\ TxHolds(sent) /\ CompHolds(sent) /\ InOrder /\ FailuresAreReal

\* The inductive invariant.
XrInv == \E sent, seen, known \in Nat : RingsAgree(sent, seen, known)


-----------------------------------------------------------------------------
(* The counters.                                                           *)

\* The sizes of an AF_XDP ring: a word that counts further than the ring is long.
LEMMA Sizes == RingSize \in Nat \ {0} /\ XskWord \in Nat \ {0} /\ XskWord > RingSize /\ MaxDescs \in Nat
  BY XskRingAssumption

\* A wrapped number is a word.
LEMMA WrapType == ASSUME NEW a \in Int PROVE Wrap(a) \in 0 .. XskWord - 1 /\ Wrap(a) \in Int
  <1>1. Wrap(a) \in 0 .. XskWord - 1
    BY Sizes, ModDef DEF Wrap
  <1>. QED BY <1>1, Sizes

\* A word wraps to itself.
LEMMA WrapSmall == ASSUME NEW a \in 0 .. XskWord - 1 PROVE Wrap(a) = a
  <1>1. XskWord * 0 + a = a
    BY Sizes
  <1>2. (XskWord * 0 + a) % XskWord = a
    BY Sizes, ModUnique
  <1>. QED BY <1>1, <1>2 DEF Wrap

\* Wrapping early or late makes no difference to a sum.
LEMMA WrapAdd == ASSUME NEW a \in Int, NEW k \in Int PROVE Wrap(Wrap(a) + k) = Wrap(a + k)
  BY Sizes, ModAdd DEF Wrap

\* Less than a word apart, two wrapped counters give their distance.
LEMMA Distance ==
  ASSUME NEW a \in Int, NEW b \in Int, 0 <= a - b, a - b < XskWord
  PROVE  Wrap(Wrap(a) - Wrap(b)) = a - b
  <1>1. Wrap(Wrap(a) - Wrap(b)) = Wrap(a - b)
    BY Sizes, ModDiff DEF Wrap
  <1>2. a - b \in 0 .. XskWord - 1
    BY Sizes
  <1>. QED BY <1>1, <1>2, WrapSmall

\* A wrapped number has the slot of the number: the ring's length divides the word.
LEMMA SlotOfWrapped == ASSUME NEW a \in Int PROVE Wrap(a) % RingSize = a % RingSize
  BY XskRingAssumption, Sizes, ModMod DEF Wrap

\* The slot of a number is a slot of the ring.
LEMMA SlotType == ASSUME NEW a \in Int PROVE a % RingSize \in Slots
  BY Sizes, ModDef DEF Slots

\* Numbers less than a ring apart have slots of their own.
LEMMA SlotsApart ==
  ASSUME NEW a \in Int, NEW b \in Int, a < b, b < a + RingSize
  PROVE  a % RingSize # b % RingSize
  BY Sizes, ModApart

\* Fresh rings agree with nothing sent and nothing seen.
LEMMA RingsStart == XrInit => RingsAgree(0, 0, 0)
  <1>. SUFFICES ASSUME XrInit PROVE RingsAgree(0, 0, 0)
    OBVIOUS
  <1>1. Wrap(0) = 0 /\ Wrap(RingSize) = RingSize
    BY Sizes, WrapSmall
  <1>2. XrTypeOK
    BY Sizes DEF XrInit, XrTypeOK, Rings, Calls, Failures, NewRing, NoSlots, NoFailure, Slots
  <1>3. Submitted = 0 /\ Released = 0 /\ Len(xr_put) = 0 /\ Len(xr_got) = 0
    BY DEF XrInit, Submitted, Released, NoSlots
  <1>4. TxCounts(0, 0)
    BY <1>1, <1>3, Sizes DEF TxCounts, XrInit, NewRing, NoSlots
  <1>5. CompCounts(0, 0)
    BY <1>1, <1>3, Sizes DEF CompCounts, XrInit, NewRing, NoSlots
  <1>6. TxHolds(0) /\ CompHolds(0) /\ InOrder
    BY <1>3 DEF TxHolds, CompHolds, InOrder
  <1>7. FailuresAreReal
    BY DEF FailuresAreReal, XrInit, NoFailure
  <1>. QED BY <1>2, <1>4, <1>5, <1>6, <1>7 DEF RingsAgree

-----------------------------------------------------------------------------
(* The producing half.                                                     *)

\* xsk_ring_prod__reserve keeps the rings in agreement.
LEMMA ReserveStep ==
  ASSUME NEW nb \in 1 .. RingSize + 1, NEW sent \in Nat, NEW seen \in Nat, NEW known \in Nat,
         RingsAgree(sent, seen, known), xsk_ring_prod__reserve(nb)
  PROVE  XrInv'
  <1>. DEFINE r == xsk_prod_nb_free(tx, nb)
              room == Wrap(r.cached_cons - r.cached_prod)
  <1>. PICK seen2 \in Nat : seen2 = IF Wrap(tx.cached_cons - tx.cached_prod) >= nb THEN seen ELSE sent
    OBVIOUS
  <1>1. seen <= seen2 /\ seen2 <= sent
    BY DEF RingsAgree, TxCounts
  <1>2. /\ Submitted = Len(xr_put) /\ Submitted \in Nat /\ xr_prod.nb = 0 /\ xr_prod.done = 0
        /\ tx.cached_prod = Wrap(Submitted)
        /\ sent <= Submitted /\ Submitted <= seen + RingSize
    BY Sizes, SMTT(30) DEF RingsAgree, TxCounts, xsk_ring_prod__reserve, Submitted, XrTypeOK, Calls
  <1>3. r \in Rings /\ r = [tx EXCEPT !.cached_cons = Wrap(seen2 + RingSize)]
    <2>1. CASE Wrap(tx.cached_cons - tx.cached_prod) >= nb
      BY <2>1 DEF xsk_prod_nb_free, RingsAgree, TxCounts, XrTypeOK, Rings
    <2>2. CASE ~ (Wrap(tx.cached_cons - tx.cached_prod) >= nb)
      <3>1. Wrap(tx.consumer + RingSize) = Wrap(sent + RingSize) /\ Wrap(sent + RingSize) \in Int
        <4>1. tx.consumer = Wrap(sent) /\ sent \in Int /\ RingSize \in Int /\ sent + RingSize \in Int
          BY Sizes DEF RingsAgree, TxCounts
        <4>. QED BY <4>1, WrapAdd, WrapType, ZenonT(60)
      <3>. QED BY <2>2, <3>1 DEF xsk_prod_nb_free, RingsAgree, TxCounts, XrTypeOK, Rings
    <2>. QED BY <2>1, <2>2
  <1>4. /\ r.cached_prod = tx.cached_prod /\ r.cached_cons = Wrap(seen2 + RingSize)
        /\ r.producer = tx.producer /\ r.consumer = tx.consumer /\ r.ring = tx.ring
    BY <1>3 DEF RingsAgree, XrTypeOK, Rings
  <1>5. room = seen2 + RingSize - Submitted
    <2>1. 0 <= (seen2 + RingSize) - Submitted /\ (seen2 + RingSize) - Submitted < XskWord
      BY <1>1, <1>2, Sizes
    <2>2. seen2 + RingSize \in Int /\ Submitted \in Int
      BY <1>2, Sizes
    <2>3. Wrap(Wrap(seen2 + RingSize) - Wrap(Submitted)) = (seen2 + RingSize) - Submitted
      BY <2>1, <2>2, Distance
    <2>4. r.cached_cons = Wrap(seen2 + RingSize) /\ r.cached_prod = Wrap(Submitted)
      BY <1>2, <1>4
    <2>. HIDE DEF r
    <2>5. room = (seen2 + RingSize) - Submitted
      BY <2>3, <2>4 DEF room
    <2>. QED BY <2>5, <1>2, Sizes
  <1>6. /\ UNCHANGED <<comp, xr_cons, xr_put, xr_got>>
        /\ \/ room < nb /\ tx' = r /\ UNCHANGED xr_prod
              /\ xr_failed' = [call |-> "reserve", nb |-> nb,
                               room |-> RingSize - Wrap(tx.cached_prod - tx.consumer)]
           \/ room >= nb /\ xr_prod' = [idx |-> r.cached_prod, nb |-> nb, done |-> 0]
              /\ tx' = [r EXCEPT !.cached_prod = Wrap(@ + nb)] /\ UNCHANGED xr_failed
    <2>1. room \in Int
      BY <1>5, <1>1, <1>2, Sizes
    <2>. QED BY <2>1 DEF xsk_ring_prod__reserve
  <1>. HIDE DEF r, room
  <1>7. RingsAgree(sent, seen2, known)'
    <2>1. CASE /\ room < nb /\ tx' = r /\ UNCHANGED xr_prod
               /\ xr_failed' = [call |-> "reserve", nb |-> nb,
                                room |-> RingSize - Wrap(tx.cached_prod - tx.consumer)]
      <3>1. seen2 = sent
        <4>. SUFFICES ASSUME Wrap(tx.cached_cons - tx.cached_prod) >= nb PROVE FALSE
          OBVIOUS
        <4>1. room = Wrap(tx.cached_cons - tx.cached_prod)
          BY DEF room, r, xsk_prod_nb_free
        <4>2. room \in Int
          BY <1>5, <1>2, Sizes
        <4>. QED BY <4>1, <4>2, <2>1
      <3>2. Wrap(tx.cached_prod - tx.consumer) = Submitted - sent
        <4>1. 0 <= Submitted - sent /\ Submitted - sent < XskWord
          BY <1>1, <1>2, Sizes
        <4>. QED BY <4>1, <1>2, Distance DEF RingsAgree, TxCounts
      <3>3. xr_failed'.room < nb /\ xr_failed' \in Failures /\ xr_failed'.nb = nb /\ xr_failed'.call = "reserve"
        BY <2>1, <3>1, <3>2, <1>2, <1>5, Sizes DEF Failures
      <3>4. FailuresAreReal'
        BY <3>3 DEF FailuresAreReal
      <3>5. XrTypeOK'
        BY <3>3, <2>1, <1>6, <1>3 DEF XrTypeOK, RingsAgree
      <3>6. TxCounts(sent, seen2)'
        <4>1. Submitted' = Submitted
          BY <2>1, <1>6 DEF Submitted
        <4>2. TxCounts(sent, seen)
          BY DEF RingsAgree
        <4>3. Submitted <= seen2 + RingSize
          BY <1>1, <1>2, Sizes
        <4>. QED BY <2>1, <4>1, <4>2, <4>3, <1>1, <1>2, <1>4 DEF TxCounts
      <3>7. CompCounts(sent, known)' /\ CompHolds(sent)' /\ InOrder'
        BY <1>6 DEF CompCounts, CompHolds, InOrder, RingsAgree, Released
      <3>8. TxHolds(sent)'
        BY <1>4, <1>6, <2>1 DEF TxHolds, RingsAgree
      <3>. QED BY <3>4, <3>5, <3>6, <3>7, <3>8 DEF RingsAgree
    <2>2. CASE /\ room >= nb /\ xr_prod' = [idx |-> r.cached_prod, nb |-> nb, done |-> 0]
               /\ tx' = [r EXCEPT !.cached_prod = Wrap(@ + nb)] /\ UNCHANGED xr_failed
      <3>1. Wrap(r.cached_prod + nb) = Wrap(Submitted + nb) /\ Wrap(Submitted + nb) \in Int /\ nb \in Nat
        BY <1>2, <1>4, WrapAdd, WrapType
      <3>2. /\ tx' \in Rings
            /\ tx'.cached_prod = Wrap(Submitted + nb) /\ tx'.cached_cons = Wrap(seen2 + RingSize)
            /\ tx'.producer = tx.producer /\ tx'.consumer = tx.consumer /\ tx'.ring = tx.ring
        BY <2>2, <3>1, <1>3, <1>4 DEF Rings
      <3>3. xr_prod' \in Calls /\ xr_prod'.nb = nb /\ xr_prod'.done = 0 /\ xr_prod'.idx = Wrap(Submitted)
        BY <2>2, <1>2, <1>4, <3>1, WrapType DEF Calls
      <3>4. Submitted' = Submitted
        BY <3>3, <1>2, <1>6 DEF Submitted
      <3>5. XrTypeOK' /\ FailuresAreReal'
        BY <2>2, <3>2, <3>3, <1>6 DEF XrTypeOK, RingsAgree, FailuresAreReal
      <3>6. TxCounts(sent, seen2)'
        <4>1. Submitted + nb <= seen2 + RingSize /\ 0 <= nb
          <5>1. room >= nb
            BY <2>2
          <5>. QED BY <5>1, <1>2, <1>5, Sizes
        <4>2. tx.producer = Wrap(Submitted) /\ tx.consumer = Wrap(sent)
          BY DEF RingsAgree, TxCounts
        <4>. QED BY <4>1, <4>2, <3>2, <3>3, <3>4, <1>1, <1>2 DEF TxCounts
      <3>7. CompCounts(sent, known)' /\ CompHolds(sent)' /\ InOrder'
        BY <1>6 DEF CompCounts, CompHolds, InOrder, RingsAgree, Released
      <3>8. TxHolds(sent)'
        BY <3>2, <1>6 DEF TxHolds, RingsAgree
      <3>. QED BY <3>5, <3>6, <3>7, <3>8 DEF RingsAgree
    <2>. QED BY <1>6, <2>1, <2>2
  <1>. QED BY <1>7, <1>1 DEF XrInv

\* Writing a reserved descriptor keeps the rings in agreement.
LEMMA WriteStep ==
  ASSUME NEW sent \in Nat, NEW seen \in Nat, NEW known \in Nat,
         RingsAgree(sent, seen, known), WriteDesc
  PROVE  RingsAgree(sent, seen, known)'
  <1>. DEFINE n == Len(xr_put)
              slot == xsk_ring_prod__tx_desc(Wrap(xr_prod.idx + xr_prod.done))
  <1>1. /\ UNCHANGED <<comp, xr_cons, xr_got, xr_failed>>
        /\ xr_prod.done < xr_prod.nb
        /\ xr_put' = Append(xr_put, n + 1)
        /\ xr_prod' = [xr_prod EXCEPT !.done = @ + 1]
        /\ tx' = [tx EXCEPT !.ring[slot] = n + 1]
    BY DEF WriteDesc
  <1>2. /\ XrTypeOK /\ TxCounts(sent, seen) /\ CompCounts(sent, known)
        /\ TxHolds(sent) /\ CompHolds(sent) /\ InOrder /\ FailuresAreReal
    BY DEF RingsAgree
  <1>3. /\ n \in Nat /\ Submitted \in Int /\ Submitted + xr_prod.done = n
        /\ xr_prod.nb \in Nat /\ xr_prod.done \in Nat /\ xr_prod.done \in Int /\ Submitted >= 0
    BY <1>2, SMTT(30) DEF XrTypeOK, Calls, Submitted, TxCounts
  <1>4. slot = n % RingSize
    <2>1. xr_prod.idx = Wrap(Submitted)
      BY <1>1, <1>2, <1>3 DEF TxCounts
    <2>2. Wrap(xr_prod.idx + xr_prod.done) = Wrap(n)
      <3>1. Wrap(Wrap(Submitted) + xr_prod.done) = Wrap(Submitted + xr_prod.done)
        BY <1>3, WrapAdd
      <3>. QED BY <2>1, <3>1, <1>3
    <2>. QED BY <2>2, <1>3, SlotOfWrapped DEF xsk_ring_prod__tx_desc
  <1>. HIDE DEF slot
  <1>5. n % RingSize \in Slots
    BY <1>3, SlotType
  <1>6. /\ tx' \in Rings
        /\ tx'.cached_prod = tx.cached_prod /\ tx'.cached_cons = tx.cached_cons
        /\ tx'.producer = tx.producer /\ tx'.consumer = tx.consumer
        /\ tx'.ring[n % RingSize] = n + 1
        /\ \A s \in Slots : s # n % RingSize => tx'.ring[s] = tx.ring[s]
    <2>1. tx \in Rings
      BY <1>2 DEF XrTypeOK
    <2>2. tx.ring \in [Slots -> Int] /\ n + 1 \in Int
      BY <2>1, <1>3 DEF Rings
    <2>. DEFINE ring == [tx.ring EXCEPT ![n % RingSize] = n + 1]
    <2>3. /\ ring \in [Slots -> Int] /\ ring[n % RingSize] = n + 1
          /\ \A s \in Slots : s # n % RingSize => ring[s] = tx.ring[s]
      BY <2>2, <1>5
    <2>4. tx' = [tx EXCEPT !.ring = ring]
      BY <1>1, <1>4
    <2>. HIDE DEF ring
    <2>. QED BY <2>1, <2>3, <2>4 DEF Rings
  <1>7. /\ xr_prod' \in Calls /\ xr_prod'.nb = xr_prod.nb /\ xr_prod'.idx = xr_prod.idx
        /\ xr_prod'.done = xr_prod.done + 1
    BY <1>1, <1>2, SMTT(30) DEF XrTypeOK, Calls
  <1>8. /\ xr_put' \in Seq(Int) /\ Len(xr_put') = n + 1 /\ xr_put'[n + 1] = n + 1
        /\ \A j \in 1 .. n : xr_put'[j] = xr_put[j]
    BY <1>1, <1>2 DEF XrTypeOK
  <1>9. Submitted' = Submitted
    BY <1>3, <1>7, <1>8, SMTT(30) DEF Submitted
  <1>10. XrTypeOK' /\ FailuresAreReal'
    BY <1>1, <1>2, <1>6, <1>7, <1>8 DEF XrTypeOK, FailuresAreReal
  <1>11. TxCounts(sent, seen)'
    BY <1>1, <1>2, <1>3, <1>6, <1>7, <1>9 DEF TxCounts
  <1>12. CompCounts(sent, known)' /\ CompHolds(sent)'
    BY <1>1, <1>2 DEF CompCounts, CompHolds, Released
  <1>13. TxHolds(sent)'
    <2>. SUFFICES ASSUME NEW j \in Nat, sent <= j, j < n + 1
                  PROVE  tx'.ring[j % RingSize] = j + 1
      BY <1>8 DEF TxHolds
    <2>1. CASE j = n
      BY <2>1, <1>6
    <2>2. CASE j # n
      <3>1. j < n /\ n < j + RingSize
        <4>1. n < Submitted + xr_prod.nb /\ Submitted + xr_prod.nb <= seen + RingSize /\ seen <= sent
          BY <1>1, <1>2, <1>3 DEF TxCounts
        <4>. PICK m \in Nat : m = n
          BY <1>3
        <4>. PICK b \in Int : b = Submitted + xr_prod.nb
          BY <1>3
        <4>2. /\ m < b /\ b <= seen + RingSize /\ seen <= sent /\ sent <= j /\ j < m + 1 /\ j # m
          BY <4>1, <2>2
        <4>3. j < m /\ m < j + RingSize
          BY ONLY <4>2, Sizes, m \in Nat, b \in Int, j \in Nat, seen \in Nat, sent \in Nat
        <4>. QED BY <4>3
      <3>2. j % RingSize # n % RingSize
        BY <3>1, <1>3, SlotsApart
      <3>3. j % RingSize \in Slots
        BY SlotType
      <3>4. tx.ring[j % RingSize] = j + 1
        BY <3>1, <1>2 DEF TxHolds
      <3>. QED BY <3>2, <3>3, <3>4, <1>6
    <2>. QED BY <2>1, <2>2
  <1>14. InOrder'
    <2>1. \A j \in 1 .. n + 1 : xr_put'[j] = j
      <3>. SUFFICES ASSUME NEW j \in 1 .. n + 1 PROVE xr_put'[j] = j
        OBVIOUS
      <3>1. CASE j = n + 1
        BY <3>1, <1>8
      <3>2. CASE j \in 1 .. n
        BY <3>2, <1>2, <1>8 DEF InOrder
      <3>. QED BY <3>1, <3>2, <1>3
    <2>. QED BY <2>1, <1>1, <1>2, <1>8 DEF InOrder
  <1>. QED BY <1>10, <1>11, <1>12, <1>13, <1>14 DEF RingsAgree

\* xsk_ring_prod__submit keeps the rings in agreement.
LEMMA SubmitStep ==
  ASSUME NEW sent \in Nat, NEW seen \in Nat, NEW known \in Nat,
         RingsAgree(sent, seen, known), xsk_ring_prod__submit
  PROVE  RingsAgree(sent, seen, known)'
  <1>1. /\ UNCHANGED <<comp, xr_cons, xr_put, xr_got, xr_failed>>
        /\ xr_prod.nb > 0 /\ xr_prod.done = xr_prod.nb
        /\ xr_prod' = NoSlots
        /\ tx' = [tx EXCEPT !.producer = Wrap(@ + xr_prod.nb)]
    BY DEF xsk_ring_prod__submit
  <1>2. /\ XrTypeOK /\ TxCounts(sent, seen) /\ CompCounts(sent, known)
        /\ TxHolds(sent) /\ CompHolds(sent) /\ InOrder /\ FailuresAreReal
    BY DEF RingsAgree
  <1>3. /\ Submitted \in Int /\ Submitted' \in Int /\ Submitted' = Submitted + xr_prod.nb
        /\ xr_prod.nb \in Nat /\ xr_prod.nb \in Int
    BY <1>1, <1>2 DEF XrTypeOK, Calls, Submitted, NoSlots
  <1>4. Wrap(tx.producer + xr_prod.nb) = Wrap(Submitted') /\ Wrap(Submitted') \in Int
    <2>1. Wrap(Wrap(Submitted) + xr_prod.nb) = Wrap(Submitted + xr_prod.nb)
      BY <1>3, WrapAdd
    <2>. QED BY <2>1, <1>2, <1>3, WrapType DEF TxCounts
  <1>5. /\ tx' \in Rings
        /\ tx'.cached_prod = tx.cached_prod /\ tx'.cached_cons = tx.cached_cons
        /\ tx'.producer = Wrap(Submitted') /\ tx'.consumer = tx.consumer /\ tx'.ring = tx.ring
    BY <1>1, <1>2, <1>4 DEF XrTypeOK, Rings
  <1>6. XrTypeOK' /\ FailuresAreReal'
    BY <1>1, <1>2, <1>5 DEF XrTypeOK, FailuresAreReal, NoSlots, Calls
  <1>7. TxCounts(sent, seen)'
    <2>1. xr_prod'.nb = 0 /\ xr_prod'.done = 0
      BY <1>1 DEF NoSlots
    <2>2. /\ tx.cached_prod = Wrap(Submitted') /\ tx.cached_cons = Wrap(seen + RingSize)
          /\ tx.consumer = Wrap(sent) /\ seen <= sent /\ sent <= Submitted
          /\ Submitted' <= seen + RingSize
      BY <1>2, <1>3 DEF TxCounts
    <2>3. sent <= Submitted' /\ Submitted' + 0 = Submitted'
      BY <2>2, <1>3
    <2>. QED BY <2>1, <2>2, <2>3, <1>5 DEF TxCounts
  <1>8. CompCounts(sent, known)' /\ CompHolds(sent)' /\ InOrder'
    BY <1>1, <1>2 DEF CompCounts, CompHolds, InOrder, Released
  <1>9. TxHolds(sent)'
    BY <1>1, <1>2, <1>5 DEF TxHolds
  <1>. QED BY <1>6, <1>7, <1>8, <1>9 DEF RingsAgree

-----------------------------------------------------------------------------
(* The consuming half.                                                     *)

\* xsk_ring_cons__peek keeps the rings in agreement.
LEMMA PeekStep ==
  ASSUME NEW nb \in 1 .. RingSize + 1, NEW sent \in Nat, NEW seen \in Nat, NEW known \in Nat,
         RingsAgree(sent, seen, known), xsk_ring_cons__peek(nb)
  PROVE  XrInv'
  <1>. DEFINE r == xsk_cons_nb_avail(comp, nb)
              avail == Wrap(r.cached_prod - r.cached_cons)
              entries == IF avail > nb THEN nb ELSE avail
  <1>. PICK known2 \in Nat : known2 = IF Wrap(comp.cached_prod - comp.cached_cons) = 0 THEN sent ELSE known
    OBVIOUS
  <1>1. /\ XrTypeOK /\ TxCounts(sent, seen) /\ CompCounts(sent, known)
        /\ TxHolds(sent) /\ CompHolds(sent) /\ InOrder /\ FailuresAreReal
    BY DEF RingsAgree
  <1>2. /\ Released = Len(xr_got) /\ Released \in Nat /\ xr_cons.nb = 0 /\ xr_cons.done = 0
        /\ comp.cached_cons = Wrap(Released) /\ comp.cached_prod = Wrap(known)
        /\ comp.producer = Wrap(sent) /\ comp.consumer = Wrap(Released)
        /\ Released <= known /\ known <= sent /\ sent <= Released + RingSize
        /\ nb \in Nat /\ nb > 0
    BY <1>1, Sizes, SMTT(30) DEF CompCounts, xsk_ring_cons__peek, Released, XrTypeOK, Calls
  <1>3. known <= known2 /\ known2 <= sent /\ Released <= known2
    BY <1>2
  <1>4. /\ r \in Rings /\ r.cached_cons = Wrap(Released) /\ r.cached_prod = Wrap(known2)
        /\ r.producer = comp.producer /\ r.consumer = comp.consumer /\ r.ring = comp.ring
    <2>1. comp \in Rings
      BY <1>1 DEF XrTypeOK
    <2>2. CASE Wrap(comp.cached_prod - comp.cached_cons) = 0
      <3>1. r = [comp EXCEPT !.cached_prod = comp.producer]
        BY <2>2 DEF xsk_cons_nb_avail
      <3>2. known2 = sent
        BY <2>2
      <3>. HIDE DEF r
      <3>. QED BY <2>1, <3>1, <3>2, <1>2 DEF Rings
    <2>3. CASE Wrap(comp.cached_prod - comp.cached_cons) # 0
      <3>1. r = comp
        BY <2>3 DEF xsk_cons_nb_avail
      <3>2. known2 = known
        BY <2>3
      <3>. HIDE DEF r
      <3>. QED BY <2>1, <3>1, <3>2, <1>2
    <2>. QED BY <2>2, <2>3
  <1>5. avail = known2 - Released /\ avail \in Nat
    <2>1. 0 <= known2 - Released /\ known2 - Released < XskWord /\ known2 - Released \in Nat
      BY <1>2, <1>3, Sizes
    <2>2. known2 \in Int /\ Released \in Int
      BY <1>2
    <2>3. Wrap(Wrap(known2) - Wrap(Released)) = known2 - Released
      BY <2>1, <2>2, Distance
    <2>. HIDE DEF r
    <2>. QED BY <1>4, <2>1, <2>3
  <1>6. entries \in Nat /\ entries <= avail /\ (entries = 0 => avail = 0)
    <2>. HIDE DEF avail
    <2>. QED BY <1>2, <1>5
  <1>7. /\ UNCHANGED <<tx, xr_prod, xr_put, xr_got>>
        /\ \/ entries > 0 /\ xr_cons' = [idx |-> r.cached_cons, nb |-> entries, done |-> 0]
              /\ comp' = [r EXCEPT !.cached_cons = Wrap(@ + entries)] /\ UNCHANGED xr_failed
           \/ entries = 0 /\ comp' = r /\ UNCHANGED xr_cons
              /\ xr_failed' = [call |-> "peek", nb |-> nb, room |-> Wrap(comp.producer - comp.consumer)]
    <2>1. entries > 0 \/ entries = 0
      BY <1>6
    <2>. QED BY <2>1, <1>6 DEF xsk_ring_cons__peek
  <1>8. r.cached_cons = Wrap(Released) /\ r.cached_prod = Wrap(known2)
    BY <1>4
  <1>. HIDE DEF r, avail, entries
  <1>9. TxCounts(sent, seen)' /\ TxHolds(sent)' /\ InOrder'
    BY <1>1, <1>7 DEF TxCounts, TxHolds, InOrder, Submitted
  <1>10. RingsAgree(sent, seen, known2)'
    <2>1. CASE /\ entries > 0 /\ xr_cons' = [idx |-> r.cached_cons, nb |-> entries, done |-> 0]
               /\ comp' = [r EXCEPT !.cached_cons = Wrap(@ + entries)] /\ UNCHANGED xr_failed
      <3>1. Wrap(r.cached_cons + entries) = Wrap(Released + entries) /\ Wrap(Released + entries) \in Int
        <4>1. Released \in Int /\ entries \in Int /\ Released + entries \in Int
          BY <1>2, <1>6
        <4>2. Wrap(Wrap(Released) + entries) = Wrap(Released + entries)
          BY <4>1, WrapAdd
        <4>3. Wrap(Released + entries) \in Int
          BY <4>1, WrapType
        <4>. QED BY <4>2, <4>3, <1>8
      <3>2. /\ comp' \in Rings
            /\ comp'.cached_prod = Wrap(known2) /\ comp'.cached_cons = Wrap(Released + entries)
            /\ comp'.producer = comp.producer /\ comp'.consumer = comp.consumer /\ comp'.ring = comp.ring
        BY <2>1, <3>1, <1>4 DEF Rings
      <3>3. xr_cons' \in Calls /\ xr_cons'.nb = entries /\ xr_cons'.done = 0 /\ xr_cons'.idx = Wrap(Released)
        <4>1. Wrap(Released) \in Int
          BY <1>2, WrapType
        <4>. QED BY <2>1, <4>1, <1>6, <1>8 DEF Calls
      <3>4. Released' = Released
        BY <3>3, <1>2, <1>7 DEF Released
      <3>5. XrTypeOK' /\ FailuresAreReal'
        BY <2>1, <3>2, <3>3, <1>1, <1>7 DEF XrTypeOK, FailuresAreReal
      <3>6. CompCounts(sent, known2)'
        <4>1. Released + entries <= known2
          BY <1>2, <1>3, <1>5, <1>6
        <4>. QED BY <4>1, <3>2, <3>3, <3>4, <1>2, <1>3, <1>6 DEF CompCounts
      <3>7. CompHolds(sent)'
        BY <3>2, <3>4, <1>1 DEF CompHolds
      <3>. QED BY <3>5, <3>6, <3>7, <1>9 DEF RingsAgree
    <2>2. CASE /\ entries = 0 /\ comp' = r /\ UNCHANGED xr_cons
               /\ xr_failed' = [call |-> "peek", nb |-> nb, room |-> Wrap(comp.producer - comp.consumer)]
      <3>1. known2 = Released /\ sent = Released
        <4>1. avail = 0
          BY <2>2, <1>6
        <4>2. known2 = Released
          BY <4>1, <1>5, <1>2
        <4>3. CASE Wrap(comp.cached_prod - comp.cached_cons) = 0
          BY <4>2, <4>3
        <4>4. CASE Wrap(comp.cached_prod - comp.cached_cons) # 0
          <5>1. r = comp
            BY <4>4 DEF r, xsk_cons_nb_avail
          <5>. QED BY <4>1, <4>4, <5>1 DEF avail
        <4>. QED BY <4>2, <4>3, <4>4
      <3>2. Wrap(comp.producer - comp.consumer) = 0
        <4>1. 0 <= Released - Released /\ Released - Released < XskWord /\ Released - Released = 0
              /\ Released \in Int
          BY <1>2, Sizes
        <4>2. Wrap(Wrap(Released) - Wrap(Released)) = 0
          BY <4>1, Distance
        <4>. QED BY <4>2, <3>1, <1>2
      <3>3. xr_failed' \in Failures /\ xr_failed'.call = "peek" /\ xr_failed'.room = 0
        BY <2>2, <3>2, <1>2 DEF Failures
      <3>4. FailuresAreReal'
        BY <3>3 DEF FailuresAreReal
      <3>5. XrTypeOK'
        BY <2>2, <3>3, <1>1, <1>4, <1>7 DEF XrTypeOK
      <3>6. CompCounts(sent, known2)'
        <4>1. Released' = Released /\ Released + 0 = Released
          BY <2>2, <1>2, <1>7 DEF Released
        <4>. QED BY <2>2, <4>1, <1>2, <1>3, <1>4 DEF CompCounts
      <3>7. CompHolds(sent)'
        BY <2>2, <1>1, <1>4, <1>7 DEF CompHolds, Released
      <3>. QED BY <3>4, <3>5, <3>6, <3>7, <1>9 DEF RingsAgree
    <2>. QED BY <1>7, <2>1, <2>2
  <1>. QED BY <1>10 DEF XrInv

\* Reading a peeked descriptor keeps the rings in agreement.
LEMMA ReadStep ==
  ASSUME NEW sent \in Nat, NEW seen \in Nat, NEW known \in Nat,
         RingsAgree(sent, seen, known), ReadDesc
  PROVE  /\ RingsAgree(sent, seen, known)'
         /\ Len(xr_got) < Len(xr_put)
         /\ xr_got' = Append(xr_got, Len(xr_got) + 1)
  <1>. DEFINE n == Len(xr_got)
              slot == xsk_ring_prod__tx_desc(Wrap(xr_cons.idx + xr_cons.done))
  <1>1. /\ UNCHANGED <<tx, comp, xr_prod, xr_put, xr_failed>>
        /\ xr_cons.done < xr_cons.nb
        /\ xr_got' = Append(xr_got, comp.ring[slot])
        /\ xr_cons' = [xr_cons EXCEPT !.done = @ + 1]
    BY DEF ReadDesc
  <1>2. /\ XrTypeOK /\ TxCounts(sent, seen) /\ CompCounts(sent, known)
        /\ TxHolds(sent) /\ CompHolds(sent) /\ InOrder /\ FailuresAreReal
    BY DEF RingsAgree
  <1>3. /\ n \in Nat /\ Released \in Nat /\ Released \in Int /\ Released + xr_cons.done = n
        /\ xr_cons.nb \in Nat /\ xr_cons.done \in Nat /\ xr_cons.done \in Int
    BY <1>2 DEF XrTypeOK, Calls, Released, CompCounts
  <1>4. slot = n % RingSize
    <2>1. xr_cons.idx = Wrap(Released)
      BY <1>1, <1>2, <1>3 DEF CompCounts
    <2>2. Wrap(xr_cons.idx + xr_cons.done) = Wrap(n)
      <3>1. Wrap(Wrap(Released) + xr_cons.done) = Wrap(Released + xr_cons.done)
        BY <1>3, WrapAdd
      <3>. QED BY <2>1, <3>1, <1>3
    <2>. QED BY <2>2, <1>3, SlotOfWrapped DEF xsk_ring_prod__tx_desc
  <1>. HIDE DEF slot
  <1>5. Released <= n /\ n < sent
    <2>1. n < Released + xr_cons.nb
      BY <1>1, <1>3
    <2>2. Released + xr_cons.nb <= known /\ known <= sent
      BY <1>2 DEF CompCounts
    <2>. QED BY <2>1, <2>2, <1>3
  <1>6. xr_got' = Append(xr_got, n + 1)
    <2>1. comp.ring[n % RingSize] = n + 1
      BY <1>2, <1>3, <1>5 DEF CompHolds
    <2>. QED BY <2>1, <1>1, <1>4
  <1>7. n < Len(xr_put)
    <2>1. sent <= Submitted /\ Submitted <= Len(xr_put) /\ Submitted \in Int /\ Len(xr_put) \in Nat
      BY <1>2, SMTT(30) DEF TxCounts, Submitted, XrTypeOK, Calls
    <2>. QED BY <2>1, <1>3, <1>5
  <1>8. /\ xr_cons' \in Calls /\ xr_cons'.nb = xr_cons.nb /\ xr_cons'.idx = xr_cons.idx
        /\ xr_cons'.done = xr_cons.done + 1
    <2>1. xr_cons \in Calls
      BY <1>2 DEF XrTypeOK
    <2>2. xr_cons' = [xr_cons EXCEPT !.done = @ + 1]
      BY <1>1
    <2>. QED BY <2>1, <2>2 DEF Calls
  <1>9. /\ xr_got' \in Seq(Int) /\ Len(xr_got') = n + 1 /\ xr_got'[n + 1] = n + 1
        /\ \A j \in 1 .. n : xr_got'[j] = xr_got[j]
    BY <1>6, <1>2 DEF XrTypeOK
  <1>10. Released' = Released
    BY <1>3, <1>8, <1>9, SMTT(30) DEF Released
  <1>11. XrTypeOK' /\ FailuresAreReal'
    BY <1>1, <1>2, <1>8, <1>9 DEF XrTypeOK, FailuresAreReal
  <1>12. TxCounts(sent, seen)' /\ TxHolds(sent)'
    BY <1>1, <1>2 DEF TxCounts, TxHolds, Submitted
  <1>13. CompCounts(sent, known)'
    BY <1>1, <1>2, <1>3, <1>8, <1>10 DEF CompCounts
  <1>14. CompHolds(sent)'
    BY <1>1, <1>2, <1>10 DEF CompHolds
  <1>15. InOrder'
    <2>1. \A j \in 1 .. n + 1 : xr_got'[j] = j
      <3>. SUFFICES ASSUME NEW j \in 1 .. n + 1 PROVE xr_got'[j] = j
        OBVIOUS
      <3>1. CASE j = n + 1
        BY <3>1, <1>9
      <3>2. CASE j \in 1 .. n
        BY <3>2, <1>2, <1>9 DEF InOrder
      <3>. QED BY <3>1, <3>2, <1>3
    <2>. QED BY <2>1, <1>1, <1>2, <1>9 DEF InOrder
  <1>. QED BY <1>6, <1>7, <1>11, <1>12, <1>13, <1>14, <1>15 DEF RingsAgree

\* xsk_ring_cons__release keeps the rings in agreement.
LEMMA ReleaseStep ==
  ASSUME NEW sent \in Nat, NEW seen \in Nat, NEW known \in Nat,
         RingsAgree(sent, seen, known), xsk_ring_cons__release
  PROVE  RingsAgree(sent, seen, known)'
  <1>1. /\ UNCHANGED <<tx, xr_prod, xr_put, xr_got, xr_failed>>
        /\ xr_cons.nb > 0 /\ xr_cons.done = xr_cons.nb
        /\ xr_cons' = NoSlots
        /\ comp' = [comp EXCEPT !.consumer = Wrap(@ + xr_cons.nb)]
    BY DEF xsk_ring_cons__release
  <1>2. /\ XrTypeOK /\ TxCounts(sent, seen) /\ CompCounts(sent, known)
        /\ TxHolds(sent) /\ CompHolds(sent) /\ InOrder /\ FailuresAreReal
    BY DEF RingsAgree
  <1>3. /\ Released \in Nat /\ Released' \in Nat /\ Released' = Released + xr_cons.nb
        /\ Released \in Int /\ Released' \in Int /\ xr_cons.nb \in Nat /\ xr_cons.nb \in Int
    BY <1>1, <1>2, SMTT(30) DEF XrTypeOK, Calls, Released, NoSlots, CompCounts
  <1>4. Wrap(comp.consumer + xr_cons.nb) = Wrap(Released') /\ Wrap(Released') \in Int
    <2>1. Wrap(Wrap(Released) + xr_cons.nb) = Wrap(Released + xr_cons.nb)
      BY <1>3, WrapAdd
    <2>. QED BY <2>1, <1>2, <1>3, WrapType DEF CompCounts
  <1>5. /\ comp' \in Rings
        /\ comp'.cached_prod = comp.cached_prod /\ comp'.cached_cons = comp.cached_cons
        /\ comp'.producer = comp.producer /\ comp'.consumer = Wrap(Released') /\ comp'.ring = comp.ring
    BY <1>1, <1>2, <1>4 DEF XrTypeOK, Rings
  <1>6. XrTypeOK' /\ FailuresAreReal'
    BY <1>1, <1>2, <1>5 DEF XrTypeOK, FailuresAreReal, NoSlots, Calls
  <1>7. TxCounts(sent, seen)' /\ TxHolds(sent)' /\ InOrder'
    BY <1>1, <1>2 DEF TxCounts, TxHolds, InOrder, Submitted
  <1>8. CompCounts(sent, known)'
    <2>1. xr_cons'.nb = 0 /\ xr_cons'.done = 0
      BY <1>1 DEF NoSlots
    <2>2. /\ comp.cached_cons = Wrap(Released') /\ comp.cached_prod = Wrap(known)
          /\ comp.producer = Wrap(sent) /\ Released' <= known /\ known <= sent
          /\ sent <= Released + RingSize
      BY <1>2, <1>3 DEF CompCounts
    <2>3. sent <= Released' + RingSize /\ Released' + 0 = Released'
      BY <2>2, <1>3, Sizes
    <2>. QED BY <2>1, <2>2, <2>3, <1>3, <1>5 DEF CompCounts
  <1>9. CompHolds(sent)'
    <2>1. comp'.ring = comp.ring /\ Released <= Released'
      BY <1>3, <1>5
    <2>. SUFFICES ASSUME NEW j \in Nat, Released' <= j, j < sent
                  PROVE  comp'.ring[j % RingSize] = j + 1
      BY DEF CompHolds
    <2>2. Released <= j
      BY <2>1, <1>3
    <2>. QED BY <2>1, <2>2, <1>2 DEF CompHolds
  <1>. QED BY <1>6, <1>7, <1>8, <1>9 DEF RingsAgree

-----------------------------------------------------------------------------
(* The kernel.                                                             *)

\* The kernel's move of a descriptor keeps the rings in agreement.
LEMMA KernelStep ==
  ASSUME NEW sent \in Nat, NEW seen \in Nat, NEW known \in Nat,
         RingsAgree(sent, seen, known), KernelSends
  PROVE  RingsAgree(sent + 1, seen, known)'
  <1>. DEFINE s == sent % RingSize
  <1>1. /\ UNCHANGED <<xr_prod, xr_cons, xr_put, xr_got, xr_failed>>
        /\ tx.producer # tx.consumer
        /\ Wrap(comp.producer - comp.consumer) < RingSize
        /\ tx' = [tx EXCEPT !.consumer = Wrap(@ + 1)]
        /\ comp' = [comp EXCEPT !.ring[comp.producer % RingSize] = tx.ring[tx.consumer % RingSize],
                                !.producer = Wrap(@ + 1)]
    BY DEF KernelSends
  <1>2. /\ XrTypeOK /\ TxCounts(sent, seen) /\ CompCounts(sent, known)
        /\ TxHolds(sent) /\ CompHolds(sent) /\ InOrder /\ FailuresAreReal
    BY DEF RingsAgree
  <1>3. /\ Submitted \in Int /\ Released \in Nat /\ Released \in Int /\ sent \in Int
        /\ Submitted <= Len(xr_put) /\ Len(xr_put) \in Nat
        /\ xr_cons.nb \in Nat
    BY <1>2 DEF XrTypeOK, Calls, Submitted, Released, CompCounts
  <1>4. /\ tx.producer = Wrap(Submitted) /\ tx.consumer = Wrap(sent) /\ sent <= Submitted
        /\ comp.producer = Wrap(sent) /\ comp.consumer = Wrap(Released)
        /\ Released + xr_cons.nb <= sent /\ sent <= Released + RingSize
    <2>1. Released + xr_cons.nb <= known /\ known <= sent
      BY <1>2 DEF CompCounts
    <2>. QED BY <2>1, <1>2, <1>3 DEF TxCounts, CompCounts
  <1>5. sent < Submitted
    BY <1>1, <1>3, <1>4
  <1>6. sent < Released + RingSize /\ Released <= sent
    <2>1. 0 <= sent - Released /\ sent - Released < XskWord
      BY <1>3, <1>4, Sizes
    <2>2. Wrap(Wrap(sent) - Wrap(Released)) = sent - Released
      BY <2>1, <1>3, Distance
    <2>. QED BY <2>1, <2>2, <1>1, <1>3, <1>4, Sizes
  <1>7. Wrap(Wrap(sent) + 1) = Wrap(sent + 1) /\ Wrap(sent + 1) \in Int
    <2>1. sent \in Int /\ 1 \in Int /\ sent + 1 \in Int
      BY <1>3
    <2>2. Wrap(Wrap(sent) + 1) = Wrap(sent + 1)
      BY <2>1, WrapAdd
    <2>. QED BY <2>1, <2>2, WrapType
  <1>8. Wrap(sent) % RingSize = s /\ s \in Slots
    BY <1>3, SlotOfWrapped, SlotType
  <1>9. tx.ring[s] = sent + 1
    BY <1>2, <1>3, <1>5 DEF TxHolds
  <1>. HIDE DEF s
  <1>10. /\ tx' \in Rings
         /\ tx'.cached_prod = tx.cached_prod /\ tx'.cached_cons = tx.cached_cons
         /\ tx'.producer = tx.producer /\ tx'.consumer = Wrap(sent + 1) /\ tx'.ring = tx.ring
    BY <1>1, <1>2, <1>4, <1>7 DEF XrTypeOK, Rings
  <1>11. /\ comp' \in Rings
         /\ comp'.cached_prod = comp.cached_prod /\ comp'.cached_cons = comp.cached_cons
         /\ comp'.producer = Wrap(sent + 1) /\ comp'.consumer = comp.consumer
         /\ comp'.ring[s] = sent + 1
         /\ \A k \in Slots : k # s => comp'.ring[k] = comp.ring[k]
    <2>1. comp \in Rings
      BY <1>2 DEF XrTypeOK
    <2>2. comp.ring \in [Slots -> Int] /\ sent + 1 \in Int
      BY <2>1, <1>3 DEF Rings
    <2>. DEFINE ring == [comp.ring EXCEPT ![s] = sent + 1]
    <2>3. /\ ring \in [Slots -> Int] /\ ring[s] = sent + 1
          /\ \A k \in Slots : k # s => ring[k] = comp.ring[k]
      BY <2>2, <1>8
    <2>4. comp' = [comp EXCEPT !.ring = ring, !.producer = Wrap(sent + 1)]
      <3>1. comp' = [comp EXCEPT !.ring[s] = sent + 1, !.producer = Wrap(sent + 1)]
        BY <1>1, <1>4, <1>7, <1>8, <1>9
      <3>. QED BY <3>1
    <2>. HIDE DEF ring
    <2>. QED BY <2>1, <2>3, <2>4, <1>7 DEF Rings
  <1>12. Submitted' = Submitted /\ Released' = Released
    BY <1>1 DEF Submitted, Released
  <1>13. XrTypeOK' /\ FailuresAreReal' /\ InOrder'
    BY <1>1, <1>2, <1>10, <1>11 DEF XrTypeOK, FailuresAreReal, InOrder
  <1>14. TxCounts(sent + 1, seen)'
    <2>1. sent + 1 <= Submitted /\ seen <= sent + 1
      BY <1>2, <1>3, <1>5 DEF TxCounts
    <2>. QED BY <2>1, <1>1, <1>2, <1>10, <1>12 DEF TxCounts
  <1>15. CompCounts(sent + 1, known)'
    <2>1. sent + 1 <= Released + RingSize /\ known <= sent + 1
      BY <1>2, <1>3, <1>6, Sizes DEF CompCounts
    <2>. QED BY <2>1, <1>1, <1>2, <1>11, <1>12 DEF CompCounts
  <1>16. TxHolds(sent + 1)'
    <2>. SUFFICES ASSUME NEW j \in Nat, sent + 1 <= j, j < Len(xr_put)
                  PROVE  tx'.ring[j % RingSize] = j + 1
      BY <1>1 DEF TxHolds
    <2>1. sent <= j
      OBVIOUS
    <2>. QED BY <2>1, <1>2, <1>10 DEF TxHolds
  <1>17. CompHolds(sent + 1)'
    <2>. SUFFICES ASSUME NEW j \in Nat, Released <= j, j < sent + 1
                  PROVE  comp'.ring[j % RingSize] = j + 1
      BY <1>12 DEF CompHolds
    <2>1. CASE j = sent
      BY <2>1, <1>11 DEF s
    <2>2. CASE j # sent
      <3>1. j < sent /\ sent < j + RingSize /\ j \in Int
        BY <2>2, <1>3, <1>6, Sizes
      <3>2. j % RingSize # s
        BY <3>1, <1>3, SlotsApart DEF s
      <3>3. j % RingSize \in Slots
        BY <3>1, SlotType
      <3>4. comp.ring[j % RingSize] = j + 1
        BY <3>1, <1>2 DEF CompHolds
      <3>. QED BY <3>2, <3>3, <3>4, <1>11
    <2>. QED BY <2>1, <2>2
  <1>. QED BY <1>13, <1>14, <1>15, <1>16, <1>17 DEF RingsAgree

-----------------------------------------------------------------------------
(* The invariant, and the queue.                                           *)

\* A step that changes nothing keeps the rings in agreement.
LEMMA XrStutter ==
  ASSUME NEW sent \in Nat, NEW seen \in Nat, NEW known \in Nat,
         RingsAgree(sent, seen, known), UNCHANGED xrVars
  PROVE  RingsAgree(sent, seen, known)'
  <1>1. UNCHANGED <<tx, comp, xr_prod, xr_cons, xr_put, xr_got, xr_failed>>
    BY DEF xrVars
  <1>. QED BY <1>1 DEF RingsAgree, XrTypeOK, TxCounts, CompCounts, TxHolds, CompHolds, InOrder,
                     FailuresAreReal, Submitted, Released

\* Every step of the AF_XDP rings keeps the invariant.
LEMMA XrInvStep == XrInv /\ [XrNext]_xrVars => XrInv'
  <1>. SUFFICES ASSUME XrInv, [XrNext]_xrVars PROVE XrInv'
    OBVIOUS
  <1>. PICK sent \in Nat, seen \in Nat, known \in Nat : RingsAgree(sent, seen, known)
    BY DEF XrInv
  <1>1. ASSUME NEW nb \in 1 .. RingSize + 1, xsk_ring_prod__reserve(nb) PROVE XrInv'
    BY <1>1, ReserveStep
  <1>2. ASSUME NEW nb \in 1 .. RingSize + 1, xsk_ring_cons__peek(nb) PROVE XrInv'
    BY <1>2, PeekStep
  <1>3. CASE WriteDesc
    BY <1>3, WriteStep DEF XrInv
  <1>4. CASE xsk_ring_prod__submit
    BY <1>4, SubmitStep DEF XrInv
  <1>5. CASE ReadDesc
    BY <1>5, ReadStep DEF XrInv
  <1>6. CASE xsk_ring_cons__release
    BY <1>6, ReleaseStep DEF XrInv
  <1>7. CASE KernelSends
    <2>1. RingsAgree(sent + 1, seen, known)' /\ sent + 1 \in Nat
      BY <1>7, KernelStep
    <2>. QED BY <2>1 DEF XrInv
  <1>8. CASE UNCHANGED xrVars
    BY <1>8, XrStutter DEF XrInv
  <1>. QED BY <1>1, <1>2, <1>3, <1>4, <1>5, <1>6, <1>7, <1>8 DEF XrNext

\* The counters, the copies and the slots agree, whatever is wrapped and whatever is stale.
THEOREM RingsInvariant == XrSpec => []XrInv
  <1>1. XrInit => XrInv
    BY RingsStart DEF XrInv
  <1>. QED BY <1>1, XrInvStep, PTL DEF XrSpec

\* Every step of the rings is a step of the queue, or none: a descriptor written is put in,
\* and one read back is the next that was put in and not yet taken out.
LEMMA RingStepIsQueueStep ==
  XrInv /\ [XrNext]_xrVars => [DescQueue!Next]_<<xr_put, xr_got>>
  <1>. SUFFICES ASSUME XrInv, [XrNext]_xrVars
                PROVE  DescQueue!Next \/ UNCHANGED <<xr_put, xr_got>>
    OBVIOUS
  <1>. PICK sent \in Nat, seen \in Nat, known \in Nat : RingsAgree(sent, seen, known)
    BY DEF XrInv
  <1>1. CASE WriteDesc
    <2>1. Len(xr_put) + 1 \in 1 .. MaxDescs
      BY <1>1, Sizes DEF WriteDesc, RingsAgree, XrTypeOK
    <2>2. DescQueue!Put(Len(xr_put) + 1)
      BY <1>1 DEF WriteDesc, DescQueue!Put
    <2>. QED BY <2>1, <2>2 DEF DescQueue!Next
  <1>2. CASE ReadDesc
    <2>1. /\ Len(xr_got) < Len(xr_put) /\ xr_got' = Append(xr_got, Len(xr_got) + 1)
          /\ UNCHANGED xr_put
      BY <1>2, ReadStep DEF ReadDesc
    <2>2. xr_put[Len(xr_got) + 1] = Len(xr_got) + 1
      BY <2>1 DEF RingsAgree, InOrder, XrTypeOK
    <2>. QED BY <2>1, <2>2 DEF DescQueue!Get, DescQueue!Next
  <1>3. CASE ~ WriteDesc /\ ~ ReadDesc
    BY <1>3 DEF XrNext, xrVars, xsk_ring_prod__reserve, xsk_ring_prod__submit,
                xsk_ring_cons__peek, xsk_ring_cons__release, KernelSends
  <1>. QED BY <1>1, <1>2, <1>3

\* RingServes: the rings implement the queue (every descriptor comes back once, whole and in
\* order), and a reserve or a peek gives nothing only when there is nothing to give.
THEOREM RingsServeTheProgram == XrSpec => RingServes
  <1>1. XrInit => DescQueue!Init
    BY DEF XrInit, DescQueue!Init
  <1>2. XrSpec => DescsComeBack
    BY <1>1, RingsInvariant, RingStepIsQueueStep, PTL DEF XrSpec, DescsComeBack, DescQueue!Spec
  <1>3. XrInv => FailuresAreReal
    BY DEF XrInv, RingsAgree
  <1>. QED BY <1>2, <1>3, RingsInvariant, PTL DEF RingServes

-----------------------------------------------------------------------------
(* The perf ring.  Its invariant speaks of positions that never wrap: the  *)
(* record of number r begins at the word start[r], and data_tail, the      *)
(* reader's tail and its head are where the records t, c and e begin.      *)

MemWords == [rec : Nat, at : Nat]
PerfRecords == [type : {"SAMPLE", "LOST"}, size : Nat \ {0}, id : Nat]

PrTypeOK ==
  /\ ring_mem \in [0 .. mmap_size - 1 -> MemWords]
  /\ data_head \in Int /\ data_tail \in Int /\ ring_wake \in BOOLEAN
  /\ writer \in [pc : {"idle", "write", "wake"}, todo : Seq(PerfRecords), at : Nat]
  /\ ring_lost \in Nat /\ records \in Seq(PerfRecords) /\ emitted \in Nat
  /\ reader \in [pc : {"idle", "head", "next", "call", "tail"}, head : Int, tail : Int,
                 copied : BOOLEAN, ret : {"CONT", "ERROR"}]
  /\ copy_mem \in Seq(MemWords) /\ copy_size \in Nat

\* The number of the first record that is not published, if there is one.
Published == Len(records) + 1 - Len(writer.todo)

Lengths == [r \in DOMAIN records |-> records[r].size]

\* n records of these lengths lie one behind the other and leave no word out.
LaidOut(n, len, start) ==
  /\ start[1] = 0
  /\ \A r \in 1 .. n : start[r + 1] = start[r] + len[r]
  /\ \A r, q \in 1 .. n + 1 : r < q => start[r] < start[q]
  /\ \A p \in Nat : p < start[n + 1] =>
       \E r \in 1 .. n : start[r] <= p /\ p < start[r + 1]

WriterInv(start) ==
  /\ Published \in 1 .. Len(records) + 1
  /\ data_head = start[Published] % RingWord
  /\ writer.pc # "write" => writer.todo = <<>> /\ writer.at = 0
  /\ writer.pc = "write" =>
       /\ Len(writer.todo) \in {1, 2}
       /\ Head(writer.todo) = records[Published]
       /\ Len(writer.todo) = 2 => records[Len(records)].size = SampleSize
       /\ writer.at <= WriterSize

\* From data_tail on, what is written and what is being written fits into the ring.
Freed(start, t) ==
  /\ t \in 1 .. Published
  /\ data_tail = start[t] % RingWord
  /\ start[Len(records) + 1] - start[t] < mmap_size

ReaderInv(start, t, c, e) ==
  /\ c \in t .. e /\ e \in 1 .. Published
  /\ reader.pc \in {"idle", "head"} => c = t /\ e = t
  /\ reader.pc \notin {"idle", "head"} =>
       reader.tail = start[c] % RingWord /\ reader.head = start[e] % RingWord
  /\ reader.pc = "call" => c < e
  /\ reader.pc \in {"next", "call"} => reader.ret = "CONT"
  /\ reader.pc = "tail" /\ reader.ret = "CONT" => c = e

\* The words from data_tail to the kernel's place are those of the records.
WordsWritten(start, t) ==
  \A r \in 1 .. Len(records), k \in Nat :
    k < Lengths[r] /\ start[t] <= start[r] + k /\ start[r] + k < start[Published] + writer.at
      => ring_mem[(start[r] + k) % mmap_size] = [rec |-> r, at |-> k]

WordsCopied(c) ==
  reader.pc = "call" /\ reader.copied =>
    /\ Lengths[c] <= Len(copy_mem)
    /\ \A k \in 1 .. Lengths[c] : copy_mem[k] = [rec |-> c, at |-> k - 1]

\* Without a wake-up set or on its way, the reader has seen all that is published.
WakeUps(t, e) ==
  ~ ring_wake /\ writer.pc # "wake" =>
    /\ reader.pc = "idle" /\ reader.ret # "ERROR" => t = Published
    /\ reader.pc \in {"next", "call", "tail"} => e = Published

RingAgrees(start, t, c, e) ==
  /\ PrTypeOK /\ LaidOut(Len(records), Lengths, start)
  /\ WriterInv(start) /\ Freed(start, t) /\ ReaderInv(start, t, c, e)
  /\ WordsWritten(start, t) /\ WordsCopied(c) /\ WakeUps(t, e)

\* The inductive invariant.
PrInv == \E start \in [Nat -> Nat], t, c, e \in Nat : RingAgrees(start, t, c, e)

-----------------------------------------------------------------------------
\* The sizes of a perf ring: a record is shorter than the ring, and the word counts further.
LEMMA RingSizes ==
  /\ mmap_size \in Nat \ {0} /\ RingWord \in Nat \ {0} /\ RingWord > mmap_size
  /\ SampleSize \in 1 .. mmap_size - 1 /\ LostSize \in 1 .. mmap_size - 1
  /\ mmap_size \in Int /\ RingWord \in Int
  BY RingAssumption

\* A distance below the modulus is found from the remainders.
LEMMA ModDistance ==
  ASSUME NEW w \in Nat \ {0}, NEW a \in Int, NEW b \in Int, 0 <= a - b, a - b < w
  PROVE  ((a % w) - (b % w)) % w = a - b
  <1>1. ((a % w) - (b % w)) % w = (a - b) % w
    BY ModDiff
  <1>2. a - b \in 0 .. w - 1 /\ w * 0 + (a - b) = a - b
    OBVIOUS
  <1>3. (w * 0 + (a - b)) % w = a - b
    BY <1>2, ModUnique
  <1>. QED BY <1>1, <1>2, <1>3

\* The k-th word behind a wrapped counter lies in the slot of its position.
LEMMA WordPlace ==
  ASSUME NEW a \in Int, NEW k \in Int
  PROVE  ((a % RingWord) + k) % mmap_size = (a + k) % mmap_size
  <1>. DEFINE b == a % RingWord
  <1>1. b \in Int
    BY RingSizes, ModDef
  <1>2. b % mmap_size = a % mmap_size
    BY RingSizes, RingAssumption, ModMod
  <1>. HIDE DEF b
  <1>3. ((b % mmap_size) + k) % mmap_size = (b + k) % mmap_size
    BY <1>1, RingSizes, ModAdd
  <1>4. ((a % mmap_size) + k) % mmap_size = (a + k) % mmap_size
    BY RingSizes, ModAdd
  <1>. QED BY <1>2, <1>3, <1>4 DEF b

\* The place of a byte is in the ring.
LEMMA PlaceType == ASSUME NEW a \in Int PROVE a % mmap_size \in 0 .. mmap_size - 1
  BY RingSizes, ModDef

Prolongs(n, len, len2) == \A r \in 1 .. n : len2[r] = len[r]

\* A record behind the others leaves them where they are.
LEMMA OneMoreRecord ==
  ASSUME NEW n \in Nat, NEW len, NEW start \in [Nat -> Nat], LaidOut(n, len, start),
         NEW len2, Prolongs(n, len, len2), len2[n + 1] \in Nat \ {0}
  PROVE  \E s2 \in [Nat -> Nat] :
           /\ LaidOut(n + 1, len2, s2)
           /\ s2[n + 2] = start[n + 1] + len2[n + 1]
           /\ \A r \in 1 .. n + 1 : s2[r] = start[r]
  <1>0. \A r \in 1 .. n : len2[r] = len[r]
    BY DEF Prolongs
  <1>. PICK size \in Nat \ {0} : size = len2[n + 1]
    OBVIOUS
  <1>. DEFINE s2 == [start EXCEPT ![n + 2] = start[n + 1] + size]
  <1>1. n + 2 \in Nat /\ start[n + 1] \in Nat /\ start[n + 1] + size \in Nat
    OBVIOUS
  <1>2. /\ s2 \in [Nat -> Nat] /\ s2[n + 2] = start[n + 1] + size
        /\ \A r \in Nat : r # n + 2 => s2[r] = start[r]
    BY <1>1
  <1>. HIDE DEF s2
  <1>4. /\ start[1] = 0
        /\ \A r \in 1 .. n : start[r + 1] = start[r] + len[r]
        /\ \A r, q \in 1 .. n + 1 : r < q => start[r] < start[q]
        /\ \A p \in Nat : p < start[n + 1] => \E r \in 1 .. n : start[r] <= p /\ p < start[r + 1]
    BY DEF LaidOut
  <1>5. \A r \in 1 .. n + 1 : s2[r] = start[r]
    BY <1>1, <1>2
  <1>6. s2[1] = 0
    BY <1>4, <1>5
  <1>7. \A r \in 1 .. n + 1 : s2[r + 1] = s2[r] + len2[r]
    <2>. SUFFICES ASSUME NEW r \in 1 .. n + 1 PROVE s2[r + 1] = s2[r] + len2[r]
      OBVIOUS
    <2>1. CASE r = n + 1
      BY <2>1, <1>1, <1>2, <1>5
    <2>2. CASE r # n + 1
      <3>1. r \in 1 .. n /\ r + 1 \in 1 .. n + 1
        BY <2>2
      <3>. QED BY <3>1, <1>0, <1>4, <1>5
    <2>. QED BY <2>1, <2>2
  <1>8. \A r, q \in 1 .. n + 2 : r < q => s2[r] < s2[q]
    <2>. SUFFICES ASSUME NEW r \in 1 .. n + 2, NEW q \in 1 .. n + 2, r < q PROVE s2[r] < s2[q]
      OBVIOUS
    <2>1. CASE q = n + 2
      <3>1. r \in 1 .. n + 1 /\ s2[r] = start[r] /\ start[r] \in Nat /\ n + 1 \in 1 .. n + 1
        BY <2>1, <1>1, <1>5
      <3>2. start[r] <= start[n + 1]
        <4>1. CASE r = n + 1
          BY <4>1, <1>1
        <4>2. CASE r < n + 1
          BY <4>2, <3>1, <1>1, <1>4
        <4>. QED BY <3>1, <1>1, <4>1, <4>2
      <3>. QED BY <2>1, <3>1, <3>2, <1>1, <1>2
    <2>2. CASE q # n + 2
      <3>1. r \in 1 .. n + 1 /\ q \in 1 .. n + 1
        BY <2>2
      <3>. QED BY <3>1, <1>4, <1>5
    <2>. QED BY <2>1, <2>2
  <1>9. \A p \in Nat : p < s2[n + 2] => \E r \in 1 .. n + 1 : s2[r] <= p /\ p < s2[r + 1]
    <2>. SUFFICES ASSUME NEW p \in Nat, p < s2[n + 2]
                  PROVE  \E r \in 1 .. n + 1 : s2[r] <= p /\ p < s2[r + 1]
      OBVIOUS
    <2>1. CASE p < start[n + 1]
      <3>. PICK r \in 1 .. n : start[r] <= p /\ p < start[r + 1]
        BY <2>1, <1>4
      <3>1. r \in 1 .. n + 1 /\ s2[r] = start[r] /\ s2[r + 1] = start[r + 1]
        BY <1>1, <1>5
      <3>. QED BY <3>1
    <2>2. CASE start[n + 1] <= p
      <3>1. n + 1 \in 1 .. n + 1 /\ s2[n + 1] = start[n + 1] /\ (n + 1) + 1 = n + 2
        BY <1>1, <1>5
      <3>. QED BY <2>2, <3>1
    <2>. QED BY <2>1, <2>2, <1>1
  <1>10. LaidOut(n + 1, len2, s2)
    <2>1. (n + 1) + 1 = n + 2
      OBVIOUS
    <2>. QED BY <2>1, <1>6, <1>7, <1>8, <1>9 DEF LaidOut
  <1>. QED BY <1>2, <1>5, <1>10

\* A word before the end of the last record is a word of one of the records.
LEMMA WordOfRecord ==
  ASSUME NEW n \in Nat, NEW len, NEW start \in [Nat -> Nat], LaidOut(n, len, start),
         \A r \in 1 .. n : len[r] \in Nat,
         NEW p \in Nat, p < start[n + 1]
  PROVE  \E r \in 1 .. n : \E k \in Nat : k < len[r] /\ p = start[r] + k
  <1>. PICK r \in 1 .. n : start[r] <= p /\ p < start[r + 1]
    BY DEF LaidOut
  <1>1. start[r + 1] = start[r] + len[r]
    BY DEF LaidOut
  <1>. PICK a \in Nat, b \in Nat : a = start[r] /\ b = len[r]
    OBVIOUS
  <1>2. p - a \in Nat /\ p - a < b /\ a + (p - a) = p
    BY <1>1
  <1>. QED BY <1>2

\* Records that are laid out one after the other start in order.
LEMMA StartsGrow ==
  ASSUME NEW n \in Nat, NEW len, NEW start \in [Nat -> Nat], LaidOut(n, len, start),
         NEW r \in 1 .. n + 1, NEW q \in 1 .. n + 1
  PROVE  /\ start[r] \in Nat /\ start[q] \in Nat
         /\ r < q <=> start[r] < start[q]
         /\ r <= q <=> start[r] <= start[q]
  <1>1. r \in Nat /\ q \in Nat /\ start[r] \in Nat /\ start[q] \in Nat
    OBVIOUS
  <1>2. (r < q => start[r] < start[q]) /\ (q < r => start[q] < start[r])
    BY DEF LaidOut
  <1>3. r = q => start[r] = start[q]
    OBVIOUS
  <1>. QED BY <1>1, <1>2, <1>3

-----------------------------------------------------------------------------
(* Types.                                                                  *)

\* The records have lengths.
LEMMA LengthsType ==
  ASSUME PrTypeOK
  PROVE  /\ Len(records) \in Nat /\ Len(writer.todo) \in Nat /\ writer.at \in Nat
         /\ DOMAIN records = 1 .. Len(records)
         /\ Lengths \in [1 .. Len(records) -> Nat \ {0}]
         /\ \A r \in 1 .. Len(records) : records[r].size = Lengths[r] /\ Lengths[r] \in Nat /\ Lengths[r] > 0
  <1>1. records \in Seq(PerfRecords) /\ writer.todo \in Seq(PerfRecords) /\ writer.at \in Nat
    BY DEF PrTypeOK
  <1>2. /\ Len(records) \in Nat /\ Len(writer.todo) \in Nat /\ DOMAIN records = 1 .. Len(records)
        /\ \A r \in 1 .. Len(records) : records[r] \in PerfRecords
    BY <1>1
  <1>3. \A r \in 1 .. Len(records) : records[r].size \in Nat \ {0}
    BY <1>2 DEF PerfRecords
  <1>. QED BY <1>1, <1>2, <1>3 DEF Lengths

\* A sequence with one more.
LEMMA AppendOne ==
  ASSUME NEW S, NEW rs \in Seq(S), NEW a \in S
  PROVE  /\ Len(rs \o <<a>>) = Len(rs) + 1 /\ (rs \o <<a>>)[Len(rs) + 1] = a
         /\ \A r \in 1 .. Len(rs) : (rs \o <<a>>)[r] = rs[r]
         /\ DOMAIN (rs \o <<a>>) = 1 .. Len(rs) + 1
  OBVIOUS

\* A sequence with two more.
LEMMA AppendTwo ==
  ASSUME NEW S, NEW rs \in Seq(S), NEW a \in S, NEW b \in S
  PROVE  /\ Len(rs \o <<a, b>>) = Len(rs) + 2
         /\ (rs \o <<a, b>>)[Len(rs) + 1] = a /\ (rs \o <<a, b>>)[Len(rs) + 2] = b
         /\ \A r \in 1 .. Len(rs) : (rs \o <<a, b>>)[r] = rs[r]
         /\ DOMAIN (rs \o <<a, b>>) = 1 .. Len(rs) + 2
  OBVIOUS

\* Emitting a sample keeps the types.
LEMMA EmitType == ASSUME PrTypeOK, Emit PROVE PrTypeOK'
  <1>. DEFINE sample == [type |-> "SAMPLE", size |-> SampleSize, id |-> emitted + 1]
              lost == [type |-> "LOST", size |-> LostSize, id |-> ring_lost]
              todo == IF ring_lost = 0 THEN <<sample>> ELSE <<lost, sample>>
  <1>1. SampleSize \in Nat \ {0} /\ LostSize \in Nat \ {0}
    BY RingSizes
  <1>2. sample \in PerfRecords /\ lost \in PerfRecords
    BY <1>1 DEF PrTypeOK, PerfRecords
  <1>. HIDE DEF sample, lost
  <1>3. todo \in Seq(PerfRecords)
    BY <1>2
  <1>4. \/ /\ records' = records \o todo /\ writer' = [pc |-> "write", todo |-> todo, at |-> 0]
           /\ ring_lost' = 0
        \/ ring_lost' = ring_lost + 1 /\ UNCHANGED <<records, writer>>
    BY DEF Emit, todo, sample, lost
  <1>. HIDE DEF todo
  <1>5. records' \in Seq(PerfRecords) /\ ring_lost' \in Nat
    <2>1. records \in Seq(PerfRecords) /\ ring_lost \in Nat
      BY DEF PrTypeOK
    <2>2. records \o todo \in Seq(PerfRecords)
      BY <2>1, <1>3
    <2>3. ring_lost + 1 \in Nat /\ 0 \in Nat
      BY <2>1
    <2>. QED BY ONLY <2>1, <2>2, <2>3, <1>4, Zenon
  <1>6. writer' \in [pc : {"idle", "write", "wake"}, todo : Seq(PerfRecords), at : Nat]
    BY <1>3, <1>4 DEF PrTypeOK
  <1>. QED BY <1>5, <1>6 DEF Emit, PrTypeOK, readerVars

\* What the writer has to write next is a record.
LEMMA HeadType ==
  ASSUME PrTypeOK, Len(writer.todo) \in {1, 2}
  PROVE  Head(writer.todo) \in PerfRecords
  <1>1. writer.todo \in Seq(PerfRecords)
    BY DEF PrTypeOK
  <1>2. writer.todo # <<>>
    <2>1. Len(<<>>) = 0
      OBVIOUS
    <2>. QED BY <2>1
  <1>. QED BY <1>1, <1>2

\* Writing a word keeps the types.
LEMMA WriteWordType ==
  ASSUME PrTypeOK, WriteWord, Len(writer.todo) \in {1, 2}, Published \in Nat, Published > 0
  PROVE  PrTypeOK'
  <1>1. writer.at \in Nat /\ Len(writer.todo) \in Nat /\ Len(records) \in Nat
    BY LengthsType
  <1>2. Head(writer.todo).size \in Nat
    <2>1. Head(writer.todo) \in PerfRecords
      BY HeadType
    <2>. QED BY <2>1 DEF PerfRecords
  <1>3. RecordWord(writer.at) \in MemWords
    <2>1. Len(records) - Len(writer.todo) \in Nat
      <3>. PICK n \in Nat, m \in Nat : n = Len(records) /\ m = Len(writer.todo)
        BY <1>1
      <3>1. n + (1 - m) > 0
        BY DEF Published
      <3>2. n - m \in Nat
        BY ONLY <3>1, n \in Nat, m \in Nat
      <3>. QED BY <3>2
    <2>. QED BY <2>1, <1>1, <1>2 DEF RecordWord, MemWords
  <1>4. ring_mem' \in [0 .. mmap_size - 1 -> MemWords]
    BY <1>3 DEF WriteWord, PrTypeOK
  <1>5. writer' \in [pc : {"idle", "write", "wake"}, todo : Seq(PerfRecords), at : Nat]
    <2>1. writer \in [pc : {"idle", "write", "wake"}, todo : Seq(PerfRecords), at : Nat]
      BY DEF PrTypeOK
    <2>2. writer' = [writer EXCEPT !.at = @ + 1]
      BY DEF WriteWord
    <2>. QED BY <2>1, <2>2
  <1>. QED BY <1>4, <1>5 DEF WriteWord, PrTypeOK, readerVars

\* The record being written has a size.
LEMMA WriterSizeType ==
  ASSUME PrTypeOK, Len(writer.todo) \in {1, 2}
  PROVE  WriterSize \in Nat
  <1>2. Head(writer.todo) \in PerfRecords
    BY HeadType
  <1>3. Head(writer.todo).size \in Nat
    BY <1>2 DEF PerfRecords
  <1>. QED BY <1>3, RingSizes DEF WriterSize

\* Publishing a record keeps the types.
LEMMA PublishType ==
  ASSUME PrTypeOK, Publish, Len(writer.todo) \in {1, 2} PROVE PrTypeOK'
  <1>1. data_head + WriterSize \in Int
    BY WriterSizeType DEF PrTypeOK
  <1>2. (data_head + WriterSize) % RingWord \in Int
    BY <1>1, RingSizes, ModDef
  <1>. QED BY <1>2 DEF Publish, PrTypeOK, readerVars

\* The header at the reader's place is a word of the ring, and gives a size.
LEMMA HeaderType ==
  ASSUME PrTypeOK
  PROVE  /\ Offset \in 0 .. mmap_size - 1
         /\ \A k \in Int : ring_mem[(Offset + k) % mmap_size] \in MemWords
         /\ \A w : EventSize(w) \in Nat /\ EventSize(w) > 0
  <1>1. Offset \in 0 .. mmap_size - 1
    BY PlaceType DEF Offset, PrTypeOK
  <1>2. ASSUME NEW k \in Int PROVE ring_mem[(Offset + k) % mmap_size] \in MemWords
    <2>1. Offset + k \in Int
      BY <1>1, RingSizes
    <2>2. (Offset + k) % mmap_size \in 0 .. mmap_size - 1
      BY <2>1, PlaceType
    <2>. QED BY <2>2 DEF PrTypeOK
  <1>3. ASSUME NEW w PROVE EventSize(w) \in Nat /\ EventSize(w) > 0
    BY LengthsType DEF EventSize
  <1>. QED BY <1>1, <1>2, <1>3

\* Copying a record out of the ring keeps the types.
LEMMA FetchCopyType == ASSUME PrTypeOK, FetchCopy PROVE PrTypeOK'
  <1>. PICK size \in Nat : size = EventSize(Ehdr)
    BY HeaderType
  <1>1. Wrapped = [k \in 1 .. size |-> ring_mem[(Offset + (k - 1)) % mmap_size]]
    BY DEF Wrapped
  <1>2. \A k \in 1 .. size : ring_mem[(Offset + (k - 1)) % mmap_size] \in MemWords
    BY HeaderType
  <1>3. Wrapped \in Seq(MemWords)
    BY <1>1, <1>2
  <1>4. SubSeq(copy_mem, size + 1, Len(copy_mem)) \in Seq(MemWords)
    BY DEF PrTypeOK
  <1>5. copy_mem' \in Seq(MemWords)
    BY <1>3, <1>4 DEF FetchCopy
  <1>6. copy_size' \in Nat
    BY DEF FetchCopy, PrTypeOK
  <1>. QED BY <1>5, <1>6 DEF FetchCopy, PrTypeOK, kernelVars

\* Handing a record to the callback keeps the types.
LEMMA CallbackType == ASSUME PrTypeOK, Callback, Len(EventWords) \in Int PROVE PrTypeOK'
  <1>. PICK tail \in Int : tail = reader.tail + Len(EventWords)
    BY DEF PrTypeOK
  <1>1. tail % RingWord \in Int
    <2>1. tail % RingWord \in 0 .. RingWord - 1
      BY ONLY tail \in Int, RingSizes, ModDef
    <2>. QED BY ONLY <2>1, RingSizes
  <1>2. (reader.tail + Len(EventWords)) % RingWord \in Int
    BY <1>1
  <1>3. reader' = [reader EXCEPT !.pc = "next", !.tail = (reader.tail + Len(EventWords)) % RingWord]
    BY DEF Callback
  <1>. QED BY <1>2, <1>3 DEF Callback, PrTypeOK, kernelVars

\* The other steps copy what has its type already.
LEMMA OtherTypes ==
  ASSUME PrTypeOK,
         \/ Wake \/ PollRing \/ ReadHead \/ FetchInPlace \/ FetchFails \/ EndRecords \/ WriteTail
  PROVE  PrTypeOK'
  <1>1. CASE Wake
    BY <1>1 DEF Wake, PrTypeOK, readerVars
  <1>2. CASE PollRing
    BY <1>2 DEF PollRing, PrTypeOK
  <1>3. CASE ReadHead
    BY <1>3 DEF ReadHead, PrTypeOK, kernelVars
  <1>4. CASE FetchInPlace
    BY <1>4 DEF FetchInPlace, PrTypeOK, kernelVars
  <1>5. CASE FetchFails
    <2>1. reader' \in [pc : {"idle", "head", "next", "call", "tail"}, head : Int, tail : Int,
                       copied : BOOLEAN, ret : {"CONT", "ERROR"}]
      BY <1>5 DEF FetchFails, PrTypeOK
    <2>2. copy_mem' \in Seq(MemWords) /\ copy_size' \in Nat
      BY <1>5 DEF FetchFails
    <2>. QED BY <1>5, <2>1, <2>2 DEF FetchFails, PrTypeOK, kernelVars
  <1>6. CASE EndRecords
    BY <1>6 DEF EndRecords, PrTypeOK, kernelVars
  <1>7. CASE WriteTail
    BY <1>7 DEF WriteTail, PrTypeOK, kernelVars
  <1>. QED BY <1>1, <1>2, <1>3, <1>4, <1>5, <1>6, <1>7

-----------------------------------------------------------------------------
(* What the steps use of the invariant.                                    *)

\* Tail, reader's place, head it read and head: in that order.
LEMMA PerfOrder ==
  ASSUME NEW start \in [Nat -> Nat], NEW t \in Nat, NEW c \in Nat, NEW e \in Nat,
         RingAgrees(start, t, c, e)
  PROVE  /\ Len(records) \in Nat /\ Published \in Nat
         /\ Published \in 1 .. Len(records) + 1 /\ t \in 1 .. Published
         /\ t <= c /\ c <= e /\ e <= Published /\ c > 0
         /\ start[t] <= start[c] /\ start[c] <= start[e] /\ start[e] <= start[Published]
         /\ start[Published] <= start[Len(records) + 1]
         /\ start[Len(records) + 1] - start[t] < mmap_size
  <1>. PICK n \in Nat : n = Len(records)
    BY LengthsType DEF RingAgrees
  <1>. PICK len : len = Lengths
    OBVIOUS
  <1>1. Published \in 1 .. n + 1 /\ t \in 1 .. Published /\ c \in t .. e /\ e \in 1 .. Published
    BY DEF RingAgrees, WriterInv, Freed, ReaderInv
  <1>. PICK v \in Nat : v = Published
    BY <1>1
  <1>2. v \in 1 .. n + 1 /\ t \in 1 .. n + 1 /\ c \in 1 .. n + 1 /\ e \in 1 .. n + 1 /\ n + 1 \in 1 .. n + 1
        /\ t <= c /\ c <= e /\ e <= v /\ t \in 1 .. v
    BY ONLY <1>1, v = Published, v \in Nat, n \in Nat, t \in Nat, c \in Nat, e \in Nat
  <1>3. LaidOut(n, len, start)
    BY DEF RingAgrees
  <1>4. start[t] <= start[c] /\ start[c] <= start[e] /\ start[e] <= start[v] /\ start[v] <= start[n + 1]
    BY ONLY <1>2, <1>3, StartsGrow, n \in Nat, start \in [Nat -> Nat]
  <1>5. start[n + 1] - start[t] < mmap_size
    BY DEF RingAgrees, Freed
  <1>. QED BY <1>1, <1>2, <1>4, <1>5

\* What the kernel is writing ends where the next record would begin.
LEMMA WriterReach ==
  ASSUME NEW start \in [Nat -> Nat], NEW t \in Nat, NEW c \in Nat, NEW e \in Nat,
         RingAgrees(start, t, c, e), writer.pc = "write"
  PROVE  /\ WriterSize \in Nat
         /\ start[Len(records) + 1] = start[Published] + WriterSize
         /\ Published <= Len(records)
         /\ Head(writer.todo).size = Lengths[Published]
         /\ Len(writer.todo) = 1 => Published = Len(records)
         /\ Len(writer.todo) = 2 => Published + 1 = Len(records) /\ Lengths[Len(records)] = SampleSize
  <1>. PICK n \in Nat, d \in Nat, v \in Nat : n = Len(records) /\ d = Len(writer.todo) /\ v = Published
    BY LengthsType, PerfOrder DEF RingAgrees
  <1>. PICK len : len = Lengths
    OBVIOUS
  <1>1. /\ d \in {1, 2} /\ Head(writer.todo) = records[v]
        /\ d = 2 => records[n].size = SampleSize
    BY DEF RingAgrees, WriterInv
  <1>2. v = n + (1 - d) /\ v \in 1 .. n + 1
    BY PerfOrder DEF Published
  <1>3. v \in 1 .. n /\ n \in 1 .. n /\ (d = 1 => v = n) /\ (d = 2 => v + 1 = n)
    BY ONLY <1>1, <1>2, n \in Nat, d \in Nat, v \in Nat
  <1>4. /\ records[v].size = len[v] /\ records[n].size = len[n] /\ len[v] \in Nat /\ len[n] \in Nat
    BY <1>3, LengthsType DEF RingAgrees
  <1>5. WriterSize = len[v] + (IF d = 1 THEN 0 ELSE SampleSize)
    BY <1>1, <1>4 DEF WriterSize
  <1>6. start[v + 1] = start[v] + len[v] /\ start[n + 1] = start[n] + len[n]
    BY <1>3 DEF RingAgrees, LaidOut
  <1>7. start[n + 1] = start[v] + WriterSize /\ WriterSize \in Nat
    <2>0. start[v] \in Nat /\ start[n] \in Nat
      BY ONLY <1>3, n \in Nat, start \in [Nat -> Nat]
    <2>1. CASE d = 1
      <3>1. v = n /\ WriterSize = len[v]
        BY ONLY <2>1, <1>3, <1>4, <1>5, v \in Nat
      <3>. QED BY <3>1, <1>4, <1>6
    <2>2. CASE d = 2
      <3>1. v + 1 = n /\ WriterSize = len[v] + len[n]
        BY ONLY <2>2, <1>1, <1>3, <1>4, <1>5, v \in Nat
      <3>2. start[n] = start[v] + len[v]
        BY <3>1, <1>6
      <3>. QED BY ONLY <3>1, <3>2, <1>4, <1>6, <2>0
    <2>. QED BY <2>1, <2>2, <1>1
  <1>8. v <= n /\ Head(writer.todo).size = len[v] /\ (d = 2 => len[n] = SampleSize)
    BY ONLY <1>1, <1>3, <1>4, n \in Nat, v \in Nat
  <1>. QED BY ONLY <1>3, <1>7, <1>8, n = Len(records), d = Len(writer.todo), v = Published,
      len = Lengths

\* Between two places of the ring head and tail differ as their positions do.
LEMMA PlacesApart ==
  ASSUME NEW a \in Nat, NEW b \in Nat, a <= b, b - a < mmap_size
  PROVE  /\ ((b % RingWord) - (a % RingWord)) % RingWord = b - a
         /\ (a % RingWord = b % RingWord) => a = b
  <1>1. 0 <= b - a /\ b - a < RingWord /\ a \in Int /\ b \in Int /\ (a # b => a < b /\ b < a + RingWord)
    BY RingSizes
  <1>2. ((b % RingWord) - (a % RingWord)) % RingWord = b - a
    BY <1>1, RingSizes, ModDistance
  <1>3. a # b => a % RingWord # b % RingWord
    BY <1>1, RingSizes, ModApart
  <1>. QED BY <1>2, <1>3

\* The word of memory at a position.
MemAt(p) == ring_mem[p % mmap_size]

\* A position whose word is published and not freed.
Covered(start, t, p) == start[t] <= p /\ p < start[Published]

\* The word there is word k of record r.
HoldsWord(start, p, r, k) == /\ r \in 1 .. Len(records) /\ k < Lengths[r] /\ p = start[r] + k
                             /\ MemAt(p) = [rec |-> r, at |-> k]

\* A published word, from data_tail on, is in the ring.
LEMMA PublishedWord ==
  ASSUME NEW start \in [Nat -> Nat], NEW t \in Nat, NEW c \in Nat, NEW e \in Nat,
         RingAgrees(start, t, c, e),
         NEW p \in Nat, Covered(start, t, p)
  PROVE  \E r, k \in Nat : HoldsWord(start, p, r, k)
  <1>0. start[t] <= p /\ p < start[Published]
    BY DEF Covered
  <1>. PICK n \in Nat : n = Len(records)
    BY PerfOrder
  <1>. PICK len : len = Lengths
    OBVIOUS
  <1>. PICK v \in Nat : v = Published
    BY PerfOrder
  <1>1. LaidOut(n, len, start) /\ (\A r \in 1 .. n : len[r] \in Nat) /\ writer.at \in Nat
    BY LengthsType DEF RingAgrees
  <1>2. p < start[n + 1]
    <2>1. start[v] <= start[n + 1] /\ v \in 1 .. n + 1
      BY PerfOrder
    <2>. QED BY <1>0, <2>1, SMTT(30)
  <1>3. \E r \in 1 .. n : \E k \in Nat : k < len[r] /\ p = start[r] + k
    BY ONLY <1>1, <1>2, WordOfRecord, n \in Nat, start \in [Nat -> Nat], p \in Nat
  <1>. PICK r \in 1 .. n, k \in Nat : k < len[r] /\ p = start[r] + k
    BY <1>3
  <1>. PICK at \in Nat : at = writer.at
    BY <1>1
  <1>. PICK z \in Nat : z = start[v]
    OBVIOUS
  <1>4. p < z + at
    BY ONLY <1>0, v = Published, z = start[v], z \in Nat, at \in Nat, p \in Nat
  <1>5. ring_mem[(start[r] + k) % mmap_size] = [rec |-> r, at |-> k]
    BY <1>0, <1>4 DEF RingAgrees, WordsWritten
  <1>6. HoldsWord(start, p, r, k)
    BY <1>5 DEF MemAt, HoldsWord
  <1>. QED BY ONLY <1>6, r \in 1 .. n, n \in Nat, k \in Nat

\* The record at the reader's place, when it has not reached its head.
LEMMA RecordAtReader ==
  ASSUME NEW start \in [Nat -> Nat], NEW t \in Nat, NEW c \in Nat, NEW e \in Nat,
         RingAgrees(start, t, c, e), c < e, reader.pc \notin {"idle", "head"}
  PROVE  /\ c \in 1 .. Len(records) /\ start[c + 1] = start[c] + Lengths[c]
         /\ Lengths[c] \in Nat /\ Lengths[c] > 0
         /\ Ehdr = [rec |-> c, at |-> 0] /\ EventSize(Ehdr) = Lengths[c]
         /\ \A k \in Nat : k < Lengths[c] =>
              ring_mem[(Offset + k) % mmap_size] = [rec |-> c, at |-> k]
  <1>. PICK n \in Nat : n = Len(records)
    BY PerfOrder
  <1>. PICK v \in Nat : v = Published
    BY PerfOrder
  <1>1. v \in 1 .. n + 1 /\ t \in 1 .. v /\ t <= c /\ c <= e /\ e <= v /\ c > 0
    BY PerfOrder
  <1>2. c \in 1 .. n /\ c + 1 \in 1 .. n + 1 /\ c + 1 <= v
    BY ONLY <1>1, n \in Nat, v \in Nat, c \in Nat, e \in Nat, c < e
  <1>3. PrTypeOK /\ LaidOut(n, Lengths, start) /\ WordsWritten(start, t)
    BY DEF RingAgrees
  <1>. PICK l \in Nat : l = Lengths[c]
    BY <1>2, <1>3, LengthsType
  <1>4. l > 0 /\ records[c].size = l /\ c \in DOMAIN records /\ writer.at \in Nat
    BY <1>2, <1>3, LengthsType
  <1>5. start[c + 1] = start[c] + l
    BY <1>2, <1>3 DEF LaidOut
  <1>6. start[c + 1] <= start[v] /\ start[t] <= start[c]
    BY <1>1, <1>2, <1>3, StartsGrow, PerfOrder
  <1>7. \A k \in Nat : k < l => ring_mem[(start[c] + k) % mmap_size] = [rec |-> c, at |-> k]
    <2>. SUFFICES ASSUME NEW k \in Nat, k < l
                  PROVE  ring_mem[(start[c] + k) % mmap_size] = [rec |-> c, at |-> k]
      OBVIOUS
    <2>. PICK a \in Nat, b \in Nat, z \in Nat, w \in Nat : a = start[t] /\ b = start[c] /\ z = start[v] /\ w = writer.at
      BY <1>4
    <2>1. a <= b + k /\ b + k < z + w
      BY ONLY <1>5, <1>6, a = start[t], b = start[c], z = start[v], k < l,
              a \in Nat, b \in Nat, z \in Nat, w \in Nat, k \in Nat, l \in Nat
    <2>. QED BY <2>1, <1>2, <1>3 DEF WordsWritten
  <1>8. \A k \in Nat : (Offset + k) % mmap_size = (start[c] + k) % mmap_size
    <2>. SUFFICES ASSUME NEW k \in Nat PROVE (Offset + k) % mmap_size = (start[c] + k) % mmap_size
      OBVIOUS
    <2>. PICK p \in Int : p = start[c]
      OBVIOUS
    <2>1. Offset = p % mmap_size
      <3>1. reader.tail = p % RingWord
        BY DEF RingAgrees, ReaderInv
      <3>2. (p % RingWord) % mmap_size = p % mmap_size
        BY RingSizes, RingAssumption, ModMod
      <3>. QED BY <3>1, <3>2 DEF Offset
    <2>2. ((p % mmap_size) + k) % mmap_size = (p + k) % mmap_size
      BY ONLY RingSizes, ModAdd, p \in Int, k \in Int
    <2>. QED BY <2>1, <2>2
  <1>9. Ehdr = [rec |-> c, at |-> 0]
    <2>1. (start[c] + 0) % mmap_size = Offset
      <3>. PICK p \in Int : p = start[c]
        OBVIOUS
      <3>1. reader.tail = p % RingWord
        BY DEF RingAgrees, ReaderInv
      <3>2. (p % RingWord) % mmap_size = p % mmap_size
        BY RingSizes, RingAssumption, ModMod
      <3>3. p + 0 = p
        OBVIOUS
      <3>. QED BY <3>1, <3>2, <3>3 DEF Offset
    <2>2. ring_mem[(start[c] + 0) % mmap_size] = [rec |-> c, at |-> 0]
      BY <1>4, <1>7
    <2>. QED BY <2>1, <2>2 DEF Ehdr
  <1>10. EventSize(Ehdr) = l
    BY <1>4, <1>9 DEF EventSize
  <1>. QED BY <1>2, <1>4, <1>5, <1>7, <1>8, <1>9, <1>10

-----------------------------------------------------------------------------
(* The kernel's steps.                                                     *)

\* A fresh ring satisfies the invariant.
LEMMA PerfStart == RingInit => PrInv
  <1>. SUFFICES ASSUME RingInit PROVE PrInv
    OBVIOUS
  <1>. DEFINE start == [r \in Nat |-> 0]
  <1>1. start \in [Nat -> Nat] /\ start[1] = 0
    OBVIOUS
  <1>. HIDE DEF start
  <1>2. Len(records) = 0 /\ Len(writer.todo) = 0 /\ Published = 1 /\ writer.at = 0
    BY DEF RingInit, Published
  <1>3. PrTypeOK
    <2>1. ring_mem \in [0 .. mmap_size - 1 -> MemWords]
      BY DEF RingInit, MemWords, Blank
    <2>2. writer \in [pc : {"idle", "write", "wake"}, todo : Seq(PerfRecords), at : Nat]
      BY DEF RingInit
    <2>3. records \in Seq(PerfRecords) /\ copy_mem \in Seq(MemWords)
      BY DEF RingInit
    <2>4. reader \in [pc : {"idle", "head", "next", "call", "tail"}, head : Int, tail : Int,
                      copied : BOOLEAN, ret : {"CONT", "ERROR"}]
      BY DEF RingInit
    <2>5. data_head = 0 /\ data_tail = 0 /\ ring_wake = FALSE /\ ring_lost = 0 /\ emitted = 0 /\ copy_size = 0
      BY DEF RingInit
    <2>6. ring_wake \in BOOLEAN
      BY <2>5, Zenon
    <2>. QED BY <2>1, <2>2, <2>3, <2>4, <2>5, <2>6 DEF PrTypeOK
  <1>4. LaidOut(Len(records), Lengths, start)
    BY <1>1, <1>2 DEF LaidOut
  <1>5. 0 % RingWord = 0
    <2>1. RingWord * 0 + 0 = 0 /\ 0 \in 0 .. RingWord - 1
      BY RingSizes
    <2>. QED BY <2>1, RingSizes, ModUnique
  <1>6. WriterInv(start)
    BY <1>1, <1>2, <1>5 DEF WriterInv, RingInit
  <1>7. Freed(start, 1)
    BY <1>1, <1>2, <1>5, RingSizes DEF Freed, RingInit
  <1>8. ReaderInv(start, 1, 1, 1)
    BY <1>2 DEF ReaderInv, RingInit
  <1>9. WordsWritten(start, 1) /\ WordsCopied(1) /\ WakeUps(1, 1)
    BY <1>2 DEF WordsWritten, WordsCopied, WakeUps, RingInit
  <1>10. RingAgrees(start, 1, 1, 1)
    BY <1>3, <1>4, <1>6, <1>7, <1>8, <1>9 DEF RingAgrees
  <1>. QED BY <1>1, <1>10 DEF PrInv

\* A kernel's step that leaves records and data_head alone.
LEMMA WriteWordStep ==
  ASSUME NEW start \in [Nat -> Nat], NEW t \in Nat, NEW c \in Nat, NEW e \in Nat,
         RingAgrees(start, t, c, e), WriteWord
  PROVE  RingAgrees(start, t, c, e)'
  <1>1. /\ UNCHANGED <<data_head, ring_wake, ring_lost, records, emitted, data_tail, reader,
                       copy_mem, copy_size, ring_queue, mallocs>>
        /\ writer.pc = "write" /\ writer.at < WriterSize
        /\ writer' = [writer EXCEPT !.at = @ + 1]
        /\ ring_mem' = [ring_mem EXCEPT ![(data_head + writer.at) % mmap_size] = RecordWord(writer.at)]
    BY DEF WriteWord, readerVars
  <1>2. /\ PrTypeOK /\ LaidOut(Len(records), Lengths, start) /\ WriterInv(start) /\ Freed(start, t)
        /\ ReaderInv(start, t, c, e) /\ WordsWritten(start, t) /\ WordsCopied(c) /\ WakeUps(t, e)
    BY SMTT(30) DEF RingAgrees
  <1>. PICK n \in Nat, v \in Nat, at \in Nat : n = Len(records) /\ v = Published /\ at = writer.at
    BY PerfOrder, <1>2, LengthsType
  <1>3. /\ WriterSize \in Nat /\ start[n + 1] = start[v] + WriterSize /\ v <= n
        /\ Head(writer.todo).size = Lengths[v]
        /\ Len(writer.todo) = 1 => v = n
        /\ Len(writer.todo) = 2 => v + 1 = n /\ Lengths[n] = SampleSize
    BY <1>1, WriterReach
  <1>4. v \in 1 .. n + 1 /\ t \in 1 .. v /\ start[v] <= start[n + 1] /\ start[t] <= start[v]
        /\ start[n + 1] - start[t] < mmap_size
    <2>1. start[t] <= start[c] /\ start[c] <= start[e] /\ start[e] <= start[v]
      BY PerfOrder
    <2>2. start[t] \in Nat /\ start[c] \in Nat /\ start[e] \in Nat /\ start[v] \in Nat
      OBVIOUS
    <2>3. start[t] <= start[v]
      BY ONLY <2>1, <2>2
    <2>. QED BY <2>3, PerfOrder
  <1>5. Len(writer.todo) \in {1, 2} /\ v > 0
    BY <1>1, <1>2, <1>4 DEF WriterInv
  <1>6. PrTypeOK'
    BY <1>2, <1>4, <1>5, WriteWordType
  <1>7. /\ Len(records') = n /\ Published' = v /\ Lengths' = Lengths
        /\ writer'.pc = "write" /\ writer'.todo = writer.todo /\ writer'.at = at + 1
    <2>1. writer' = [writer EXCEPT !.at = at + 1]
      BY <1>1
    <2>2. writer'.pc = "write" /\ writer'.todo = writer.todo /\ writer'.at = at + 1
      BY <2>1, <1>1, <1>2 DEF PrTypeOK
    <2>. QED BY <1>1, <2>2 DEF Published, Lengths
  <1>8. LaidOut(Len(records), Lengths, start)'
    BY <1>2, <1>7 DEF LaidOut
  <1>9. WriterInv(start)'
    <2>1. WriterSize' = WriterSize
      BY <1>7 DEF WriterSize
    <2>2. at + 1 <= WriterSize
      BY ONLY <1>1, <1>3, at = writer.at, at \in Nat
    <2>. QED BY <1>1, <1>2, <1>7, <2>1, <2>2 DEF WriterInv
  <1>10. Freed(start, t)' /\ ReaderInv(start, t, c, e)' /\ WordsCopied(c)' /\ WakeUps(t, e)'
    BY <1>1, <1>2, <1>7 DEF Freed, ReaderInv, WordsCopied, WakeUps
  <1>. PICK q \in Nat : q = start[v] + at
    <2>1. start[v] \in Nat
      BY ONLY v \in Nat, start \in [Nat -> Nat]
    <2>2. start[v] + at \in Nat
      BY ONLY <2>1, at \in Nat
    <2>. QED BY <2>2
  <1>. PICK len : len = Lengths
    OBVIOUS
  <1>11. q < start[n + 1]
    BY ONLY <1>1, <1>3, at = writer.at, at \in Nat, q = start[v] + at, v \in Nat,
       start \in [Nat -> Nat]
  <1>12. (data_head + at) % mmap_size = q % mmap_size /\ q % mmap_size \in 0 .. mmap_size - 1
    <2>. PICK z \in Int : z = start[v]
      OBVIOUS
    <2>1. data_head = z % RingWord
      BY <1>2 DEF WriterInv
    <2>2. ((z % RingWord) + at) % mmap_size = (z + at) % mmap_size
      BY ONLY WordPlace, z \in Int, at \in Nat
    <2>3. q \in Int /\ q = z + at
      OBVIOUS
    <2>4. q % mmap_size \in 0 .. mmap_size - 1
      BY <2>3, PlaceType
    <2>. QED BY <2>1, <2>2, <2>3, <2>4
  <1>13. \A r \in 1 .. n, k \in Nat : k < len[r] /\ start[r] + k = q => RecordWord(at) = [rec |-> r, at |-> k]
    <2>. SUFFICES ASSUME NEW r \in 1 .. n, NEW k \in Nat, k < len[r], start[r] + k = q
                  PROVE  RecordWord(at) = [rec |-> r, at |-> k]
      OBVIOUS
    <2>1. len \in [1 .. n -> Nat \ {0}]
      BY <1>2, LengthsType
    <2>2. r >= v
      <3>. SUFFICES ASSUME r < v PROVE FALSE
        OBVIOUS
      <3>0. start[r] \in Nat /\ start[r + 1] \in Nat /\ len[r] \in Nat /\ start[v] \in Nat
        <4>1. r \in Nat /\ r + 1 \in Nat
          BY ONLY r \in 1 .. n
        <4>2. len[r] \in Nat
          BY ONLY <2>1, r \in 1 .. n
        <4>. QED BY ONLY <4>1, <4>2, v \in Nat, start \in [Nat -> Nat]
      <3>. PICK a \in Nat : a = start[r]
        BY <3>0
      <3>. PICK b \in Nat : b = start[r + 1]
        BY <3>0
      <3>. PICK l \in Nat : l = len[r]
        BY <3>0
      <3>. PICK z \in Nat : z = start[v]
        BY <3>0
      <3>1. b = a + l
        BY <1>2 DEF LaidOut
      <3>2. b <= z
        <4>1. r + 1 \in 1 .. n + 1 /\ v \in 1 .. n + 1 /\ r + 1 <= v
          BY ONLY r \in 1 .. n, r < v, <1>4, n \in Nat, v \in Nat
        <4>. QED BY <4>1, <1>2, StartsGrow
      <3>. QED BY ONLY <3>1, <3>2, a + k = q, q = z + at, k < l, at \in Nat, a \in Nat, b \in Nat,
          l \in Nat,
                       z \in Nat, k \in Nat
    <2>3. Len(records) - Len(writer.todo) = v - 1
      <3>. PICK d \in Nat : d = Len(writer.todo)
        BY <1>5
      <3>1. v = n + (1 - d)
        BY DEF Published
      <3>2. n - d = v - 1
        BY ONLY <3>1, n \in Nat, d \in Nat, v \in Nat
      <3>. QED BY <3>2
    <2>4. CASE r = v
      <3>1. k = at
        <4>. PICK a \in Nat : a = start[v]
          OBVIOUS
        <4>. QED BY ONLY <2>4, start[r] + k = q, q = start[v] + at, a = start[v], a \in Nat,
            k \in Nat, at \in Nat
      <3>2. at < Head(writer.todo).size
        BY <3>1, <2>4, <1>3
      <3>3. (v - 1) + 1 = r
        BY ONLY <2>4, v \in Nat
      <3>. QED BY <3>1, <3>2, <3>3, <2>3 DEF RecordWord
    <2>5. CASE r # v
      <3>1. r = n /\ v + 1 = n
        <4>1. r > v /\ r <= n
          BY ONLY <2>2, <2>5, r \in 1 .. n, n \in Nat, v \in Nat
        <4>2. v # n
          BY ONLY <4>1, n \in Nat, v \in Nat, r \in 1 .. n
        <4>3. v + 1 = n
          BY <1>3, <1>5, <4>2
        <4>. QED BY ONLY <4>1, <4>3, n \in Nat, v \in Nat, r \in 1 .. n
      <3>2. start[r] = start[v] + len[v]
        <4>1. v \in 1 .. n
          BY ONLY <3>1, <1>4, n \in Nat, v \in Nat
        <4>. QED BY <4>1, <3>1, <1>2 DEF LaidOut
      <3>0. v \in 1 .. n /\ start[v] \in Nat
        BY ONLY <3>1, <1>4, n \in Nat, v \in Nat, start \in [Nat -> Nat]
      <3>. PICK l \in Nat : l = len[v]
        BY ONLY <2>1, <3>0
      <3>. PICK a \in Nat : a = start[v]
        BY <3>0
      <3>3. ~ (at < l) /\ k = at - l
        BY ONLY <3>2, start[r] + k = q, q = start[v] + at, l = len[v], a = start[v], a \in Nat,
           l \in Nat,
                k \in Nat, at \in Nat
      <3>4. (v - 1) + 2 = r
        BY ONLY <3>1, v \in Nat
      <3>. QED BY <3>3, <3>4, <2>3, <1>3 DEF RecordWord
    <2>. QED BY <2>4, <2>5
  <1>14. WordsWritten(start, t)'
    <2>. SUFFICES ASSUME NEW r \in 1 .. n, NEW k \in Nat, k < len[r], start[t] <= start[r] + k,
                         start[r] + k < start[v] + (at + 1)
                  PROVE  ring_mem'[(start[r] + k) % mmap_size] = [rec |-> r, at |-> k]
      BY <1>7 DEF WordsWritten
    <2>9. start[r] \in Nat /\ start[t] \in Nat /\ start[v] \in Nat
      BY ONLY r \in 1 .. n, t \in Nat, v \in Nat, start \in [Nat -> Nat]
    <2>. PICK p \in Nat : p = start[r] + k
      BY <2>9, SMTT(30)
    <2>. PICK b \in Nat : b = start[t]
      BY <2>9
    <2>. PICK z \in Nat : z = start[v]
      BY <2>9
    <2>0. p <= q
      BY ONLY p = start[r] + k, start[r] + k < start[v] + (at + 1), q = start[v] + at,
         z = start[v], z \in Nat,
              at \in Nat, p \in Nat
    <2>1. CASE p = q
      <3>1. RecordWord(at) = [rec |-> r, at |-> k]
        BY <2>1, <1>13
      <3>2. ring_mem' = [ring_mem EXCEPT ![q % mmap_size] = RecordWord(at)]
        BY <1>1, <1>12
      <3>. QED BY <3>1, <3>2, <2>1, <1>2, <1>12 DEF PrTypeOK
    <2>2. CASE p # q
      <3>1. p < q /\ q < p + mmap_size
        <4>. PICK m \in Nat : m = mmap_size
          BY RingSizes
        <4>. PICK w \in Nat : w = start[n + 1]
          BY ONLY n \in Nat, start \in [Nat -> Nat]
        <4>. QED BY ONLY <2>0, <2>2, <1>4, <1>11, b = start[t], start[t] <= start[r] + k,
            p = start[r] + k,
                         w = start[n + 1], m = mmap_size, m \in Nat, w \in Nat, p \in Nat, q \in Nat, b \in Nat
      <3>2. p % mmap_size # q % mmap_size
        <4>1. p \in Int /\ q \in Int
          OBVIOUS
        <4>. QED BY ONLY <3>1, <4>1, RingSizes, ModApart
      <3>3. p % mmap_size \in 0 .. mmap_size - 1
        BY PlaceType
      <3>4. p < z + at
        BY ONLY <3>1, q = start[v] + at, z = start[v]
      <3>5. ring_mem[p % mmap_size] = [rec |-> r, at |-> k]
        BY <3>4, <1>2 DEF WordsWritten
      <3>6. ring_mem' = [ring_mem EXCEPT ![q % mmap_size] = RecordWord(at)]
        BY <1>1, <1>12
      <3>. QED BY <3>2, <3>3, <3>5, <3>6, <1>2 DEF PrTypeOK
    <2>. QED BY <2>1, <2>2
  <1>. QED BY <1>6, <1>8, <1>9, <1>10, <1>14 DEF RingAgrees

\* What Emit appends, if there is room for it: a sample, or a record of the lost
\* ones and a sample.
EmitsRecords(n, d, size) ==
  /\ size <= RingSpace
  /\ Len(records') = n + d /\ Len(writer'.todo) = d
  /\ writer'.pc = "write" /\ writer'.at = 0
  /\ Head(writer'.todo) = records'[n + 1]
  /\ \A r \in 1 .. n : Lengths'[r] = Lengths[r]
  /\ Lengths'[n + d] = SampleSize /\ records'[n + d].size = SampleSize
  /\ Lengths'[n + 1] \in Nat \ {0}
  /\ d = 1 => size = SampleSize
  /\ d = 2 => size = Lengths'[n + 1] + SampleSize

\* What a sample makes the writer write: nothing, a record, or two with the lost ones first.
LEMMA EmitRecords ==
  ASSUME PrTypeOK, Emit
  PROVE  \/ UNCHANGED <<records, writer>>
         \/ \E d \in {1, 2}, size \in Nat : EmitsRecords(Len(records), d, size)
  <1>. DEFINE sample == [type |-> "SAMPLE", size |-> SampleSize, id |-> emitted + 1]
              lost == [type |-> "LOST", size |-> LostSize, id |-> ring_lost]
              todo == IF ring_lost = 0 THEN <<sample>> ELSE <<lost, sample>>
              size == IF ring_lost = 0 THEN SampleSize ELSE LostSize + SampleSize
  <1>0. SampleSize \in Nat \ {0} /\ LostSize \in Nat \ {0} /\ SampleSize \in Nat /\ LostSize \in Nat
    BY ONLY RingSizes
  <1>1. \/ /\ size <= RingSpace /\ records' = records \o todo
           /\ writer' = [pc |-> "write", todo |-> todo, at |-> 0]
        \/ UNCHANGED <<records, writer>>
    BY DEF Emit
  <1>2. /\ sample \in PerfRecords /\ lost \in PerfRecords /\ records \in Seq(PerfRecords)
        /\ sample.size = SampleSize /\ lost.size = LostSize
    BY <1>0 DEF PrTypeOK, PerfRecords
  <1>. HIDE DEF sample, lost
  <1>. PICK n \in Nat : n = Len(records)
    BY <1>2
  <1>3. DOMAIN records = 1 .. n
    BY <1>2
  <1>4. CASE /\ size <= RingSpace /\ records' = records \o todo
             /\ writer' = [pc |-> "write", todo |-> todo, at |-> 0]
    <2>0. writer'.pc = "write" /\ writer'.at = 0 /\ writer'.todo = todo
      BY <1>4
    <2>1. CASE ring_lost = 0
      <3>1. records' = records \o <<sample>> /\ todo = <<sample>> /\ size = SampleSize /\ size <= RingSpace
        BY <1>4, <2>1
      <3>. HIDE DEF todo, size
      <3>2. /\ Len(records') = n + 1 /\ records'[n + 1] = sample
            /\ \A r \in 1 .. n : records'[r] = records[r]
            /\ DOMAIN records' = 1 .. n + 1
        BY ONLY <1>2, <3>1, n = Len(records), AppendOne
      <3>3. (\A r \in 1 .. n : Lengths'[r] = Lengths[r]) /\ Lengths'[n + 1] = SampleSize
        BY <1>2, <1>3, <3>2 DEF Lengths
      <3>4. Len(todo) = 1 /\ Head(todo) = sample
        BY <3>1
      <3>5. EmitsRecords(n, 1, SampleSize)
        BY <1>0, <1>2, <2>0, <3>1, <3>2, <3>3, <3>4 DEF EmitsRecords
      <3>. QED BY <3>5, <1>0
    <2>2. CASE ring_lost # 0
      <3>1. /\ records' = records \o <<lost, sample>> /\ todo = <<lost, sample>>
            /\ size = LostSize + SampleSize /\ size <= RingSpace
        BY <1>4, <2>2
      <3>. HIDE DEF todo, size
      <3>2. /\ Len(records') = n + 2 /\ records'[n + 1] = lost /\ records'[n + 2] = sample
            /\ \A r \in 1 .. n : records'[r] = records[r]
            /\ DOMAIN records' = 1 .. n + 2
        BY ONLY <1>2, <3>1, n = Len(records), AppendTwo
      <3>3. /\ \A r \in 1 .. n : Lengths'[r] = Lengths[r]
            /\ Lengths'[n + 1] = LostSize /\ Lengths'[n + 2] = SampleSize
        BY <1>2, <1>3, <3>2 DEF Lengths
      <3>4. Len(todo) = 2 /\ Head(todo) = lost
        BY <3>1
      <3>5. EmitsRecords(n, 2, LostSize + SampleSize)
        BY <1>0, <1>2, <2>0, <3>1, <3>2, <3>3, <3>4 DEF EmitsRecords
      <3>6. LostSize + SampleSize \in Nat
        BY ONLY <1>0
      <3>. QED BY <3>5, <3>6
    <2>. QED BY <2>1, <2>2
  <1>. QED BY <1>1, <1>4

Adds(n, d, len2, size) ==
  /\ len2[n + d] \in Nat \ {0} /\ len2[n + 1] \in Nat \ {0}
  /\ d = 1 => size = len2[n + 1]
  /\ d = 2 => size = len2[n + 1] + len2[n + 2]

\* The places of the records, when one or two have come behind them.
LEMMA MorePlaces ==
  ASSUME NEW n \in Nat, NEW len, NEW start \in [Nat -> Nat], LaidOut(n, len, start),
         NEW d \in {1, 2}, NEW len2, NEW size \in Nat, Prolongs(n, len, len2),
         Adds(n, d, len2, size)
  PROVE  \E s2 \in [Nat -> Nat] :
           /\ LaidOut(n + d, len2, s2)
           /\ s2[(n + d) + 1] = start[n + 1] + size
           /\ \A r \in 1 .. n + 1 : s2[r] = start[r]
  <1>a. /\ len2[n + d] \in Nat \ {0} /\ len2[n + 1] \in Nat \ {0}
        /\ d = 1 => size = len2[n + 1]
        /\ d = 2 => size = len2[n + 1] + len2[n + 2]
    BY DEF Adds
  <1>. PICK a \in Nat \ {0} : a = len2[n + 1]
    BY <1>a
  <1>0. \E s1 \in [Nat -> Nat] : /\ LaidOut(n + 1, len2, s1)
                                 /\ s1[n + 2] = start[n + 1] + a
                                 /\ \A r \in 1 .. n + 1 : s1[r] = start[r]
    BY <1>a, OneMoreRecord
  <1>. PICK s1 \in [Nat -> Nat] : /\ LaidOut(n + 1, len2, s1)
                                  /\ s1[n + 2] = start[n + 1] + a
                                  /\ \A r \in 1 .. n + 1 : s1[r] = start[r]
    BY <1>0
  <1>1. (n + 1) + 1 = n + 2 /\ (n + 1) + 2 = (n + 2) + 1 /\ n + 1 \in Nat
    OBVIOUS
  <1>2. CASE d = 1
    BY <1>a, <1>1, <1>2
  <1>3. CASE d = 2
    <2>. PICK b \in Nat \ {0} : b = len2[(n + 1) + 1]
      BY <1>a, <1>1, <1>3
    <2>1. Prolongs(n + 1, len2, len2)
      BY DEF Prolongs
    <2>2. \E s2 \in [Nat -> Nat] : /\ LaidOut((n + 1) + 1, len2, s2)
                                   /\ s2[(n + 1) + 2] = s1[(n + 1) + 1] + len2[(n + 1) + 1]
                                   /\ \A r \in 1 .. (n + 1) + 1 : s2[r] = s1[r]
      BY ONLY <1>1, <2>1, OneMoreRecord, LaidOut(n + 1, len2, s1), s1 \in [Nat -> Nat],
              b = len2[(n + 1) + 1], b \in Nat \ {0}
    <2>. PICK s2 \in [Nat -> Nat] : /\ LaidOut((n + 1) + 1, len2, s2)
                                    /\ s2[(n + 1) + 2] = s1[(n + 1) + 1] + b
                                    /\ \A r \in 1 .. (n + 1) + 1 : s2[r] = s1[r]
      BY <2>2
    <2>3. s2[(n + 2) + 1] = start[n + 1] + size
      <3>. PICK z \in Nat : z = start[n + 1]
        OBVIOUS
      <3>1. s2[(n + 2) + 1] = (z + a) + b /\ size = a + b
        BY <1>a, <1>1, <1>3
      <3>2. (z + a) + b = z + (a + b)
        BY ONLY z \in Nat, a \in Nat \ {0}, b \in Nat \ {0}
      <3>. QED BY <3>1, <3>2
    <2>4. \A r \in 1 .. n + 1 : s2[r] = start[r]
      OBVIOUS
    <2>5. LaidOut(n + 2, len2, s2)
      BY <1>1
    <2>. QED BY <2>3, <2>4, <2>5, <1>3
  <1>. QED BY <1>2, <1>3

\* Emitting a sample keeps the invariant.
LEMMA EmitStep ==
  ASSUME NEW start \in [Nat -> Nat], NEW t \in Nat, NEW c \in Nat, NEW e \in Nat,
         RingAgrees(start, t, c, e), Emit
  PROVE  \E s2 \in [Nat -> Nat] : RingAgrees(s2, t, c, e)'
  <1>1. /\ UNCHANGED <<ring_mem, data_head, ring_wake, data_tail, reader, copy_mem, copy_size,
                       ring_queue, mallocs>>
        /\ writer.pc = "idle"
    BY DEF Emit, readerVars
  <1>2. /\ PrTypeOK /\ LaidOut(Len(records), Lengths, start) /\ WriterInv(start) /\ Freed(start, t)
        /\ ReaderInv(start, t, c, e) /\ WordsWritten(start, t) /\ WordsCopied(c) /\ WakeUps(t, e)
    BY DEF RingAgrees
  <1>. PICK n \in Nat : n = Len(records)
    BY PerfOrder
  <1>3. writer.todo = <<>> /\ writer.at = 0 /\ Published = n + 1
    <2>1. writer.todo = <<>> /\ writer.at = 0
      BY <1>1, <1>2 DEF WriterInv
    <2>2. Len(writer.todo) = 0
      BY <2>1
    <2>. QED BY <2>1, <2>2 DEF Published
  <1>4. PrTypeOK'
    BY <1>2, EmitType
  <1>5. CASE UNCHANGED <<records, writer>>
    <2>1. RingAgrees(start, t, c, e)'
      <3>1. /\ Len(records') = Len(records) /\ Lengths' = Lengths /\ Published' = Published
            /\ writer' = writer /\ records' = records /\ WriterSize' = WriterSize
        BY <1>5 DEF Lengths, Published, WriterSize
      <3>2. LaidOut(Len(records), Lengths, start)' /\ WriterInv(start)'
        BY <1>1, <1>2, <3>1 DEF WriterInv
      <3>3. Freed(start, t)' /\ ReaderInv(start, t, c, e)'
        BY <1>1, <1>2, <3>1 DEF Freed, ReaderInv
      <3>4. WordsWritten(start, t)' /\ WordsCopied(c)' /\ WakeUps(t, e)'
        BY <1>1, <1>2, <3>1 DEF WordsWritten, WordsCopied, WakeUps
      <3>. QED BY <1>4, <3>2, <3>3, <3>4 DEF RingAgrees
    <2>. QED BY <2>1
  <1>. PICK len : len = Lengths
    OBVIOUS
  <1>. PICK len2 : len2 = Lengths'
    OBVIOUS
  <1>6. ASSUME NEW d \in {1, 2}, NEW size \in Nat, EmitsRecords(n, d, size)
        PROVE  \E s2 \in [Nat -> Nat] : RingAgrees(s2, t, c, e)'
    <2>1. /\ size <= RingSpace
          /\ Len(records') = n + d /\ Len(writer'.todo) = d
          /\ writer'.pc = "write" /\ writer'.at = 0
          /\ Head(writer'.todo) = records'[n + 1]
          /\ \A r \in 1 .. n : len2[r] = len[r]
          /\ len2[n + d] = SampleSize /\ records'[n + d].size = SampleSize
          /\ len2[n + 1] \in Nat \ {0}
          /\ d = 1 => size = SampleSize
          /\ d = 2 => size = len2[n + 1] + SampleSize
      BY <1>6 DEF EmitsRecords
    <2>2. (start[n + 1] - start[t]) + size < mmap_size
      <3>. PICK a \in Nat : a = start[t]
        OBVIOUS
      <3>. PICK b \in Nat : b = start[n + 1]
        OBVIOUS
      <3>1. a <= b /\ b - a < mmap_size /\ data_tail = a % RingWord /\ data_head = b % RingWord
        <4>1. start[t] <= start[c] /\ start[c] <= start[e] /\ start[e] <= start[n + 1]
              /\ start[n + 1] - start[t] < mmap_size
          BY <1>3, PerfOrder
        <4>2. start[c] \in Nat /\ start[e] \in Nat
          BY ONLY c \in Nat, e \in Nat, start \in [Nat -> Nat]
        <4>3. a <= b /\ b - a < mmap_size
          BY ONLY <4>1, <4>2, a \in Nat, b \in Nat, a = start[t], b = start[n + 1]
        <4>. QED BY <4>3, <1>2, <1>3 DEF Freed, WriterInv
      <3>2. (data_head - data_tail) % RingWord = b - a
        BY <3>1, PlacesApart
      <3>3. RingSpace = (mmap_size - 1) - (b - a)
        BY <3>2 DEF RingSpace
      <3>4. (b - a) + size < mmap_size
        BY ONLY <2>1, <3>3, RingSizes, a \in Nat, b \in Nat, size \in Nat
      <3>. QED BY <3>4
    <2>3. \E s2 \in [Nat -> Nat] :
            /\ LaidOut(n + d, len2, s2)
            /\ s2[(n + d) + 1] = start[n + 1] + size
            /\ \A r \in 1 .. n + 1 : s2[r] = start[r]
      <3>1. LaidOut(n, len, start)
        BY <1>2
      <3>2. SampleSize \in Nat \ {0}
        BY ONLY RingSizes
      <3>3. (d = 1 => n + d = n + 1) /\ (d = 2 => n + d = n + 2)
        BY ONLY d \in {1, 2}
      <3>4. (d = 1 => size = len2[n + 1]) /\ (d = 2 => size = len2[n + 1] + len2[n + 2])
        BY ONLY <2>1, <3>3
      <3>5. Prolongs(n, len, len2)
        BY <2>1 DEF Prolongs
      <3>6. Adds(n, d, len2, size)
        BY <2>1, <3>2, <3>4 DEF Adds
      <3>. QED BY ONLY <3>1, <3>5, <3>6, MorePlaces, n \in Nat, start \in [Nat -> Nat],
                       d \in {1, 2}, size \in Nat
    <2>. PICK s2 \in [Nat -> Nat] :
            /\ LaidOut(n + d, len2, s2)
            /\ s2[(n + d) + 1] = start[n + 1] + size
            /\ \A r \in 1 .. n + 1 : s2[r] = start[r]
      BY <2>3
    <2>4. Published' = n + 1
      <3>1. Published' = (n + d) + (1 - d)
        BY <2>1 DEF Published
      <3>2. (n + d) + (1 - d) = n + 1
        BY ONLY n \in Nat, d \in {1, 2}
      <3>. QED BY <3>1, <3>2
    <2>5. /\ t \in 1 .. n + 1 /\ c \in 1 .. n + 1 /\ e \in 1 .. n + 1 /\ e <= n + 1
          /\ s2[t] = start[t] /\ s2[c] = start[c] /\ s2[e] = start[e] /\ s2[n + 1] = start[n + 1]
      <3>1. t \in 1 .. n + 1 /\ t <= c /\ c <= e /\ e <= n + 1
        BY <1>3, PerfOrder
      <3>2. t \in 1 .. n + 1 /\ c \in 1 .. n + 1 /\ e \in 1 .. n + 1 /\ n + 1 \in 1 .. n + 1
        BY ONLY <3>1, n \in Nat, c \in Nat, e \in Nat, t \in Nat
      <3>. QED BY <3>1, <3>2
    <2>6. WriterInv(s2)'
      <3>1. Published' \in 1 .. (n + d) + 1
        BY ONLY <2>4, n \in Nat, d \in {1, 2}
      <3>2. data_head' = s2[n + 1] % RingWord
        BY <1>1, <1>2, <1>3, <2>5 DEF WriterInv
      <3>3. WriterSize' >= 0
        <4>1. n + 1 \in 1 .. n + d
          BY ONLY n \in Nat, d \in {1, 2}
        <4>2. records'[n + 1] \in PerfRecords
          <5>1. records' \in Seq(PerfRecords)
            BY <1>4 DEF PrTypeOK
          <5>. QED BY ONLY <2>1, <4>1, <5>1
        <4>3. \E h \in Nat : h = Head(writer'.todo).size
          BY <2>1, <4>2 DEF PerfRecords
        <4>. PICK h \in Nat : h = Head(writer'.todo).size
          BY <4>3
        <4>4. WriterSize' = h + (IF d = 1 THEN 0 ELSE SampleSize)
          BY <2>1 DEF WriterSize
        <4>. QED BY ONLY <4>4, RingSizes, h \in Nat
      <3>4. writer'.at <= WriterSize' /\ Len(records') + 1 = (n + d) + 1
        BY <2>1, <3>3
      <3>5. Head(writer'.todo) = records'[Published']
        BY <2>1, <2>4
      <3>6. Len(writer'.todo) = 2 => records'[Len(records')].size = SampleSize
        BY <2>1
      <3>. QED BY <2>1, <2>4, <3>1, <3>2, <3>4, <3>5, <3>6 DEF WriterInv
    <2>7. Freed(s2, t)'
      <3>1. s2[Len(records') + 1] - s2[t] < mmap_size
        <4>. PICK a \in Nat : a = start[t]
          BY ONLY t \in Nat, start \in [Nat -> Nat]
        <4>. PICK b \in Nat : b = start[n + 1]
          BY ONLY n \in Nat, start \in [Nat -> Nat]
        <4>1. (b - a) + size < mmap_size
          BY <2>2
        <4>2. (b + size) - a < mmap_size
          BY ONLY <4>1, RingSizes, a \in Nat, b \in Nat, size \in Nat
        <4>3. s2[(n + d) + 1] = b + size
          OBVIOUS
        <4>. QED BY <4>2, <4>3, <2>1, <2>5
      <3>. QED BY <3>1, <1>1, <1>2, <2>4, <2>5 DEF Freed
    <2>8. ReaderInv(s2, t, c, e)'
      BY <1>1, <1>2, <1>3, <2>4, <2>5 DEF ReaderInv
    <2>9. WordsWritten(s2, t)'
      <3>. PICK m \in Nat : m = n + d
        BY ONLY n \in Nat, d \in {1, 2}
      <3>. SUFFICES ASSUME NEW r \in 1 .. m, NEW k \in Nat, k < len2[r],
                           s2[t] <= s2[r] + k, s2[r] + k < s2[n + 1] + 0
                    PROVE  ring_mem'[(s2[r] + k) % mmap_size] = [rec |-> r, at |-> k]
        BY <2>1, <2>4, ZenonT(60) DEF WordsWritten
      <3>1. r \in 1 .. n
        <4>1. n + 1 \in 1 .. m + 1 /\ r \in 1 .. m + 1 /\ r \in Nat
          BY ONLY r \in 1 .. m, m = n + d, d \in {1, 2}, n \in Nat, m \in Nat
        <4>2. LaidOut(m, len2, s2)
          OBVIOUS
        <4>3. (n + 1 <= r <=> s2[n + 1] <= s2[r]) /\ s2[n + 1] \in Nat /\ s2[r] \in Nat
          BY ONLY <4>1, <4>2, StartsGrow, m \in Nat, s2 \in [Nat -> Nat]
        <4>. PICK a \in Nat : a = s2[r]
          BY <4>3
        <4>. PICK b \in Nat : b = s2[n + 1]
          BY <4>3
        <4>4. a + k < b + 0 /\ (n + 1 <= r <=> b <= a)
          BY ONLY s2[r] + k < s2[n + 1] + 0, <4>3, a = s2[r], b = s2[n + 1]
        <4>. QED BY ONLY <4>1, <4>4, a \in Nat, b \in Nat, k \in Nat, n \in Nat, r \in 1 .. m,
            m \in Nat
      <3>2. s2[r] = start[r] /\ len2[r] = len[r]
        <4>1. r \in 1 .. n + 1
          BY ONLY <3>1, n \in Nat
        <4>. QED BY <2>1, <3>1, <4>1
      <3>3. start[t] <= start[r] + k /\ start[r] + k < start[n + 1] + 0 /\ k < Lengths[r]
        BY <2>5, <3>2
      <3>4. ring_mem[(start[r] + k) % mmap_size] = [rec |-> r, at |-> k]
        BY <1>2, <1>3, <3>1, <3>3 DEF WordsWritten
      <3>. QED BY <1>1, <3>2, <3>4
    <2>10. WordsCopied(c)'
      <3>. SUFFICES ASSUME reader.pc = "call" PROVE WordsCopied(c)'
        BY <1>1 DEF WordsCopied
      <3>1. c \in 1 .. n
        <4>1. c < e
          BY <1>2 DEF ReaderInv
        <4>. QED BY ONLY <4>1, <2>5, n \in Nat, c \in Nat, e \in Nat
      <3>. QED BY <1>1, <1>2, <2>1, <3>1 DEF WordsCopied
    <2>11. WakeUps(t, e)'
      <3>1. writer.pc # "wake" /\ writer'.pc # "wake"
        BY <1>1, <2>1
      <3>. QED BY <1>1, <1>2, <1>3, <2>4, <3>1 DEF WakeUps
    <2>12. LaidOut(Len(records), Lengths, s2)'
      BY <2>1
    <2>13. RingAgrees(s2, t, c, e)'
      BY <1>4, <2>6, <2>7, <2>8, <2>9, <2>10, <2>11, <2>12 DEF RingAgrees
    <2>. QED BY <2>13
  <1>. QED BY <1>2, <1>5, <1>6, EmitRecords

\* Publishing a record keeps ring and reader in agreement.
LEMMA PublishStep ==
  ASSUME NEW start \in [Nat -> Nat], NEW t \in Nat, NEW c \in Nat, NEW e \in Nat,
         RingAgrees(start, t, c, e), Publish
  PROVE  RingAgrees(start, t, c, e)'
  <1>1. /\ UNCHANGED <<ring_mem, ring_wake, ring_lost, records, emitted, data_tail, reader,
                       copy_mem, copy_size, ring_queue, mallocs>>
        /\ writer.pc = "write" /\ writer.at = WriterSize
        /\ data_head' = (data_head + WriterSize) % RingWord
        /\ writer' = [pc |-> "wake", todo |-> <<>>, at |-> 0]
    BY DEF Publish, readerVars
  <1>2. /\ PrTypeOK /\ LaidOut(Len(records), Lengths, start) /\ WriterInv(start) /\ Freed(start, t)
        /\ ReaderInv(start, t, c, e) /\ WordsWritten(start, t) /\ WordsCopied(c) /\ WakeUps(t, e)
    BY DEF RingAgrees
  <1>. PICK n \in Nat, v \in Nat : n = Len(records) /\ v = Published
    BY PerfOrder
  <1>3. WriterSize \in Nat /\ start[n + 1] = start[v] + WriterSize /\ v <= n
    BY <1>1, WriterReach
  <1>4. t \in 1 .. v /\ e \in 1 .. v /\ v \in 1 .. n + 1
    BY <1>2 DEF Freed, ReaderInv, WriterInv
  <1>5. PrTypeOK'
    <2>1. Len(writer.todo) \in {1, 2}
      BY <1>1, <1>2 DEF WriterInv
    <2>. QED BY <2>1, <1>2, PublishType
  <1>6. /\ Len(records') = n /\ Lengths' = Lengths /\ records' = records
        /\ writer'.pc = "wake" /\ writer'.todo = <<>> /\ writer'.at = 0
    BY <1>1 DEF Lengths
  <1>7. Published' = n + 1
    <2>1. Len(writer'.todo) = 0
      BY <1>6
    <2>. QED BY <1>6, <2>1 DEF Published
  <1>8. LaidOut(Len(records), Lengths, start)'
    BY <1>2, <1>6
  <1>9. WriterInv(start)'
    <2>1. data_head' = start[n + 1] % RingWord
      <3>. PICK z \in Int : z = start[v]
        OBVIOUS
      <3>. PICK w \in Int : w = WriterSize
        BY <1>3
      <3>1. ((z % RingWord) + w) % RingWord = (z + w) % RingWord
        BY ONLY RingSizes, ModAdd, z \in Int, w \in Int
      <3>2. data_head = z % RingWord
        BY <1>2 DEF WriterInv
      <3>. QED BY <1>1, <1>3, <3>1, <3>2
    <2>2. n + 1 \in 1 .. n + 1
      OBVIOUS
    <2>. QED BY <1>6, <1>7, <2>1, <2>2 DEF WriterInv
  <1>10. Freed(start, t)'
    <2>1. t \in 1 .. n + 1
      BY ONLY <1>4, n \in Nat, v \in Nat
    <2>. QED BY <1>1, <1>2, <1>6, <1>7, <2>1 DEF Freed
  <1>11. ReaderInv(start, t, c, e)'
    <2>1. e \in 1 .. n + 1
      BY ONLY <1>4, n \in Nat, v \in Nat
    <2>. QED BY <1>1, <1>2, <1>7, <2>1 DEF ReaderInv
  <1>12. WordsWritten(start, t)'
    <2>. PICK w \in Nat : w = WriterSize
      BY <1>3
    <2>. PICK z \in Nat : z = start[v]
      OBVIOUS
    <2>1. start[n + 1] + 0 = z + w
      BY <1>3
    <2>. SUFFICES ASSUME NEW r \in 1 .. n, NEW k \in Nat, k < Lengths[r], start[t] <= start[r] + k,
                         start[r] + k < z + w
                  PROVE  ring_mem[(start[r] + k) % mmap_size] = [rec |-> r, at |-> k]
      BY <1>1, <1>6, <1>7, <2>1 DEF WordsWritten
    <2>. QED BY <1>1, <1>2 DEF WordsWritten
  <1>13. WordsCopied(c)' /\ WakeUps(t, e)'
    BY <1>1, <1>2, <1>6 DEF WordsCopied, WakeUps
  <1>. QED BY <1>5, <1>8, <1>9, <1>10, <1>11, <1>12, <1>13 DEF RingAgrees

\* A step that leaves the memory, the records and the kernel's place alone.
LEMMA SameWriter ==
  ASSUME NEW start \in [Nat -> Nat], NEW t \in Nat, NEW c \in Nat, NEW e \in Nat,
         RingAgrees(start, t, c, e), UNCHANGED <<ring_mem, data_head, records, writer>>
  PROVE  /\ LaidOut(Len(records), Lengths, start)' /\ WriterInv(start)'
         /\ WordsWritten(start, t)'
         /\ Published' = Published
  <1>1. /\ Len(records') = Len(records) /\ Lengths' = Lengths /\ Published' = Published
        /\ WriterSize' = WriterSize
    BY DEF Lengths, Published, WriterSize
  <1>2. LaidOut(Len(records), Lengths, start) /\ WriterInv(start) /\ WordsWritten(start, t)
    BY DEF RingAgrees
  <1>. QED BY <1>1, <1>2 DEF WriterInv, WordsWritten

\* Waking the reader keeps ring and reader in agreement.
LEMMA WakeStep ==
  ASSUME NEW start \in [Nat -> Nat], NEW t \in Nat, NEW c \in Nat, NEW e \in Nat,
         RingAgrees(start, t, c, e), Wake
  PROVE  RingAgrees(start, t, c, e)'
  <1>1. /\ UNCHANGED <<ring_mem, data_head, ring_lost, records, emitted, data_tail, reader,
                       copy_mem, copy_size, ring_queue, mallocs>>
        /\ writer.pc = "wake" /\ ring_wake' = TRUE
        /\ writer' = [writer EXCEPT !.pc = "idle"]
    BY DEF Wake, readerVars
  <1>2. /\ PrTypeOK /\ LaidOut(Len(records), Lengths, start) /\ WriterInv(start) /\ Freed(start, t)
        /\ ReaderInv(start, t, c, e) /\ WordsWritten(start, t) /\ WordsCopied(c) /\ WakeUps(t, e)
    BY DEF RingAgrees
  <1>3. writer'.pc = "idle" /\ writer'.todo = writer.todo /\ writer'.at = writer.at
    BY <1>1, <1>2 DEF PrTypeOK
  <1>4. /\ Len(records') = Len(records) /\ Lengths' = Lengths /\ Published' = Published
        /\ WriterSize' = WriterSize
    BY <1>1, <1>3 DEF Lengths, Published, WriterSize
  <1>5. PrTypeOK'
    BY <1>2, OtherTypes
  <1>6. LaidOut(Len(records), Lengths, start)'
    BY <1>2, <1>4
  <1>7. WriterInv(start)' /\ Freed(start, t)' /\ ReaderInv(start, t, c, e)'
    BY <1>1, <1>2, <1>3, <1>4 DEF WriterInv, Freed, ReaderInv
  <1>8. WordsWritten(start, t)' /\ WordsCopied(c)'
    BY <1>1, <1>2, <1>3, <1>4 DEF WordsWritten, WordsCopied
  <1>9. WakeUps(t, e)'
    BY <1>1, Zenon DEF WakeUps
  <1>. QED BY <1>5, <1>6, <1>7, <1>8, <1>9 DEF RingAgrees

-----------------------------------------------------------------------------
(* The reader's steps.                                                     *)

\* A step of the reader that frees nothing.
LEMMA SameTail ==
  ASSUME NEW start \in [Nat -> Nat], NEW t \in Nat, NEW c \in Nat, NEW e \in Nat,
         RingAgrees(start, t, c, e), UNCHANGED <<ring_mem, data_head, data_tail, records, writer>>
  PROVE  Freed(start, t)'
  <1>1. Len(records') = Len(records) /\ Published' = Published
    BY DEF Published
  <1>. QED BY <1>1 DEF RingAgrees, Freed

\* poll() keeps ring and reader in agreement.
LEMMA PollRingStep ==
  ASSUME NEW start \in [Nat -> Nat], NEW t \in Nat, NEW c \in Nat, NEW e \in Nat,
         RingAgrees(start, t, c, e), PollRing
  PROVE  RingAgrees(start, t, c, e)'
  <1>1. /\ UNCHANGED <<ring_mem, data_head, writer, ring_lost, records, emitted,
                       data_tail, copy_mem, copy_size, ring_queue, mallocs>>
        /\ reader.pc = "idle" /\ reader' = [reader EXCEPT !.pc = "head"]
    BY DEF PollRing
  <1>2. /\ PrTypeOK /\ LaidOut(Len(records), Lengths, start) /\ WriterInv(start) /\ Freed(start, t)
        /\ ReaderInv(start, t, c, e) /\ WordsWritten(start, t) /\ WordsCopied(c) /\ WakeUps(t, e)
    BY DEF RingAgrees
  <1>3. reader'.pc = "head"
    BY <1>1, <1>2 DEF PrTypeOK
  <1>4. LaidOut(Len(records), Lengths, start)' /\ WriterInv(start)' /\ WordsWritten(start, t)'
        /\ Published' = Published /\ Freed(start, t)'
    BY <1>1, SameWriter, SameTail
  <1>5. PrTypeOK'
    BY <1>2, OtherTypes
  <1>6. ReaderInv(start, t, c, e)'
    BY <1>1, <1>2, <1>3, <1>4 DEF ReaderInv
  <1>7. WordsCopied(c)' /\ WakeUps(t, e)'
    BY <1>3 DEF WordsCopied, WakeUps
  <1>. QED BY <1>4, <1>5, <1>6, <1>7 DEF RingAgrees

\* Reading data_head keeps the invariant.
LEMMA ReadHeadStep ==
  ASSUME NEW start \in [Nat -> Nat], NEW t \in Nat, NEW c \in Nat, NEW e \in Nat,
         RingAgrees(start, t, c, e), ReadHead
  PROVE  RingAgrees(start, t, t, Published)'
  <1>1. /\ UNCHANGED <<ring_mem, kernelVars, data_tail, copy_mem, copy_size, ring_queue, mallocs>>
        /\ reader.pc = "head"
        /\ reader' = [reader EXCEPT !.pc = "next", !.head = data_head, !.tail = data_tail,
                                    !.ret = "CONT"]
    BY DEF ReadHead
  <1>2. /\ PrTypeOK /\ LaidOut(Len(records), Lengths, start) /\ WriterInv(start) /\ Freed(start, t)
        /\ ReaderInv(start, t, c, e) /\ WordsWritten(start, t) /\ WordsCopied(c) /\ WakeUps(t, e)
    BY DEF RingAgrees
  <1>3. /\ reader'.pc = "next" /\ reader'.head = data_head /\ reader'.tail = data_tail
        /\ reader'.ret = "CONT"
    BY <1>1, <1>2 DEF PrTypeOK
  <1>4. LaidOut(Len(records), Lengths, start)' /\ WriterInv(start)' /\ WordsWritten(start, t)'
        /\ Published' = Published /\ Freed(start, t)'
    BY <1>1, SameWriter, SameTail DEF kernelVars
  <1>5. PrTypeOK'
    BY <1>2, OtherTypes
  <1>. PICK v \in Nat : v = Published
    BY PerfOrder
  <1>6. t \in 1 .. v /\ data_head = start[v] % RingWord /\ data_tail = start[t] % RingWord
    BY <1>2 DEF Freed, WriterInv
  <1>7. t \in t .. v /\ v \in 1 .. v
    BY ONLY <1>6, t \in Nat, v \in Nat
  <1>8. ReaderInv(start, t, t, v)'
    BY <1>3, <1>4, <1>6, <1>7 DEF ReaderInv
  <1>9. WordsCopied(t)' /\ WakeUps(t, v)'
    BY <1>3, <1>4 DEF WordsCopied, WakeUps
  <1>10. RingAgrees(start, t, t, v)'
    BY <1>4, <1>5, <1>8, <1>9 DEF RingAgrees
  <1>. QED BY <1>4, <1>10

\* Between head and tail the reader knows more records than it has read.
LEMMA NotAtHead ==
  ASSUME NEW start \in [Nat -> Nat], NEW t \in Nat, NEW c \in Nat, NEW e \in Nat,
         RingAgrees(start, t, c, e), reader.pc = "next", reader.head # reader.tail
  PROVE  c < e
  <1>1. ReaderInv(start, t, c, e)
    BY DEF RingAgrees
  <1>2. c # e
    BY <1>1 DEF ReaderInv
  <1>3. c <= e
    BY PerfOrder
  <1>. QED BY ONLY <1>2, <1>3, c \in Nat, e \in Nat

\* Fetching a record that does not wrap keeps the invariant.
LEMMA FetchInPlaceStep ==
  ASSUME NEW start \in [Nat -> Nat], NEW t \in Nat, NEW c \in Nat, NEW e \in Nat,
         RingAgrees(start, t, c, e), FetchInPlace
  PROVE  RingAgrees(start, t, c, e)'
  <1>1. /\ UNCHANGED <<ring_mem, kernelVars, data_tail, copy_mem, copy_size, ring_queue, mallocs>>
        /\ reader.pc = "next" /\ reader.head # reader.tail
        /\ reader' = [reader EXCEPT !.pc = "call", !.copied = FALSE]
    BY DEF FetchInPlace
  <1>2. /\ PrTypeOK /\ LaidOut(Len(records), Lengths, start) /\ WriterInv(start) /\ Freed(start, t)
        /\ ReaderInv(start, t, c, e) /\ WordsWritten(start, t) /\ WordsCopied(c) /\ WakeUps(t, e)
    BY DEF RingAgrees
  <1>3. /\ reader'.pc = "call" /\ reader'.copied = FALSE /\ reader'.head = reader.head
        /\ reader'.tail = reader.tail /\ reader'.ret = reader.ret
    BY <1>1, <1>2 DEF PrTypeOK
  <1>4. LaidOut(Len(records), Lengths, start)' /\ WriterInv(start)' /\ WordsWritten(start, t)'
        /\ Published' = Published /\ Freed(start, t)'
    BY <1>1, SameWriter, SameTail DEF kernelVars
  <1>5. PrTypeOK'
    BY <1>2, OtherTypes
  <1>6. ReaderInv(start, t, c, e)'
    <2>1. c < e
      BY <1>1, NotAtHead
    <2>. QED BY <1>1, <1>2, <1>3, <1>4, <2>1 DEF ReaderInv
  <1>7. WordsCopied(c)' /\ WakeUps(t, e)'
    <2>1. ring_wake' = ring_wake /\ writer' = writer
      BY <1>1 DEF kernelVars
    <2>2. WakeUps(t, e)'
      BY <1>1, <1>2, <1>3, <1>4, <2>1 DEF WakeUps
    <2>3. ~ reader'.copied
      BY <1>3, Zenon
    <2>. QED BY <2>2, <2>3 DEF WordsCopied
  <1>. QED BY <1>4, <1>5, <1>6, <1>7 DEF RingAgrees

\* A record that straddles the end is put together, word by word.
LEMMA WrappedRecord ==
  ASSUME NEW start \in [Nat -> Nat], NEW t \in Nat, NEW c \in Nat, NEW e \in Nat,
         RingAgrees(start, t, c, e), c < e, reader.pc \notin {"idle", "head"}
  PROVE  /\ DOMAIN Wrapped = 1 .. Lengths[c]
         /\ \A k \in 1 .. Lengths[c] : Wrapped[k] = [rec |-> c, at |-> k - 1]
  <1>. PICK l \in Nat : l = Lengths[c]
    BY RecordAtReader
  <1>1. Wrapped = [k \in 1 .. l |-> ring_mem[(Offset + (k - 1)) % mmap_size]]
    BY RecordAtReader DEF Wrapped
  <1>2. \A k \in Nat : k < l => ring_mem[(Offset + k) % mmap_size] = [rec |-> c, at |-> k]
    BY RecordAtReader, ZenonT(60)
  <1>3. ASSUME NEW k \in 1 .. l PROVE Wrapped[k] = [rec |-> c, at |-> k - 1]
    <2>1. k - 1 \in Nat /\ k - 1 < l
      OBVIOUS
    <2>. QED BY <1>1, <1>2, <2>1
  <1>. QED BY <1>1, <1>3

\* A function on 1 .. l is a sequence.
LEMMA WordsInOrder ==
  ASSUME NEW l \in Nat, NEW ws, ws = [k \in 1 .. l |-> ws[k]], \A k \in 1 .. l : ws[k] \in MemWords
  PROVE  ws \in Seq(MemWords) /\ Len(ws) = l
  OBVIOUS

\* The first part of two joined sequences.
LEMMA FirstPart ==
  ASSUME NEW a \in Seq(MemWords), NEW b \in Seq(MemWords)
  PROVE  Len(a) <= Len(a \o b) /\ \A k \in 1 .. Len(a) : (a \o b)[k] = a[k]
  OBVIOUS

\* Copying a record that wraps keeps the invariant.
LEMMA FetchCopyStep ==
  ASSUME NEW start \in [Nat -> Nat], NEW t \in Nat, NEW c \in Nat, NEW e \in Nat,
         RingAgrees(start, t, c, e), FetchCopy
  PROVE  RingAgrees(start, t, c, e)'
  <1>1. /\ UNCHANGED <<ring_mem, kernelVars, data_tail, ring_queue, mallocs>>
        /\ reader.pc = "next" /\ reader.head # reader.tail
        /\ copy_mem' = Wrapped \o SubSeq(copy_mem, EventSize(Ehdr) + 1, Len(copy_mem))
        /\ reader' = [reader EXCEPT !.pc = "call", !.copied = TRUE]
    BY DEF FetchCopy
  <1>2. /\ PrTypeOK /\ LaidOut(Len(records), Lengths, start) /\ WriterInv(start) /\ Freed(start, t)
        /\ ReaderInv(start, t, c, e) /\ WordsWritten(start, t) /\ WordsCopied(c) /\ WakeUps(t, e)
    BY DEF RingAgrees
  <1>3. /\ reader'.pc = "call" /\ reader'.head = reader.head
        /\ reader'.tail = reader.tail /\ reader'.ret = reader.ret
    BY <1>1, <1>2 DEF PrTypeOK
  <1>4. LaidOut(Len(records), Lengths, start)' /\ WriterInv(start)' /\ WordsWritten(start, t)'
        /\ Published' = Published /\ Freed(start, t)'
    BY <1>1, SameWriter, SameTail DEF kernelVars
  <1>5. PrTypeOK'
    BY <1>2, FetchCopyType
  <1>0. c < e
    BY <1>1, NotAtHead
  <1>6. ReaderInv(start, t, c, e)'
    BY <1>0, <1>1, <1>2, <1>3, <1>4 DEF ReaderInv
  <1>8. WordsCopied(c)'
    <2>. PICK l \in Nat : l = Lengths[c]
      BY <1>0, <1>1, RecordAtReader
    <2>1. Lengths' = Lengths
      BY <1>1 DEF Lengths, kernelVars
    <2>2. /\ Wrapped \in Seq(MemWords) /\ Len(Wrapped) = l
          /\ \A k \in 1 .. l : Wrapped[k] = [rec |-> c, at |-> k - 1]
      <3>1. /\ DOMAIN Wrapped = 1 .. l
            /\ \A k \in 1 .. l : Wrapped[k] = [rec |-> c, at |-> k - 1]
        BY <1>0, <1>1, WrappedRecord
      <3>2. \A k \in 1 .. l : Wrapped[k] \in MemWords
        <4>. SUFFICES ASSUME NEW k \in 1 .. l PROVE Wrapped[k] \in MemWords
          OBVIOUS
        <4>1. k - 1 \in Nat
          BY ONLY k \in 1 .. l, l \in Nat
        <4>2. Wrapped[k] = [rec |-> c, at |-> k - 1]
          BY <3>1
        <4>. QED BY ONLY <4>1, <4>2, c \in Nat DEF MemWords
      <3>3. Wrapped = [k \in 1 .. l |-> Wrapped[k]]
        BY <3>1 DEF Wrapped
      <3>. QED BY ONLY <3>1, <3>2, <3>3, l \in Nat, WordsInOrder
    <2>. PICK rest \in Seq(MemWords) : rest = SubSeq(copy_mem, EventSize(Ehdr) + 1, Len(copy_mem))
      <3>. PICK size \in Nat : size = EventSize(Ehdr)
        BY <1>2, HeaderType
      <3>1. copy_mem \in Seq(MemWords)
        BY <1>2 DEF PrTypeOK
      <3>2. SubSeq(copy_mem, size + 1, Len(copy_mem)) \in Seq(MemWords)
        BY ONLY <3>1, size \in Nat
      <3>. QED BY <3>2
    <2>. PICK wr \in Seq(MemWords) : wr = Wrapped
      BY <2>2
    <2>3. l <= Len(wr \o rest) /\ \A k \in 1 .. l : (wr \o rest)[k] = [rec |-> c, at |-> k - 1]
      <3>1. Len(wr) = l
        BY <2>2
      <3>2. l <= Len(wr \o rest) /\ \A k \in 1 .. l : (wr \o rest)[k] = wr[k]
        BY ONLY <3>1, FirstPart, wr \in Seq(MemWords), rest \in Seq(MemWords)
      <3>. QED BY ONLY <3>2, <2>2, wr = Wrapped
    <2>4. copy_mem' = wr \o rest
      BY <1>1
    <2>. QED BY <2>1, <2>3, <2>4 DEF WordsCopied
  <1>7. WordsCopied(c)' /\ WakeUps(t, e)'
    <2>1. ring_wake' = ring_wake /\ writer' = writer
      BY <1>1 DEF kernelVars
    <2>2. WakeUps(t, e)'
      BY <1>1, <1>2, <1>3, <1>4, <2>1 DEF WakeUps
    <2>. QED BY <1>8, <2>2
  <1>. QED BY <1>4, <1>5, <1>6, <1>7 DEF RingAgrees

\* A copy for which there is no memory keeps the invariant.
LEMMA FetchFailsStep ==
  ASSUME NEW start \in [Nat -> Nat], NEW t \in Nat, NEW c \in Nat, NEW e \in Nat,
         RingAgrees(start, t, c, e), FetchFails
  PROVE  RingAgrees(start, t, c, e)'
  <1>1. /\ UNCHANGED <<ring_mem, kernelVars, data_tail, ring_queue>>
        /\ reader.pc = "next"
        /\ reader' = [reader EXCEPT !.pc = "tail", !.ret = "ERROR"]
    BY DEF FetchFails
  <1>2. /\ PrTypeOK /\ LaidOut(Len(records), Lengths, start) /\ WriterInv(start) /\ Freed(start, t)
        /\ ReaderInv(start, t, c, e) /\ WordsWritten(start, t) /\ WordsCopied(c) /\ WakeUps(t, e)
    BY DEF RingAgrees
  <1>3. /\ reader'.pc = "tail" /\ reader'.head = reader.head
        /\ reader'.tail = reader.tail /\ reader'.ret = "ERROR"
    BY <1>1, <1>2 DEF PrTypeOK
  <1>4. LaidOut(Len(records), Lengths, start)' /\ WriterInv(start)' /\ WordsWritten(start, t)'
        /\ Published' = Published /\ Freed(start, t)'
    BY <1>1, SameWriter, SameTail DEF kernelVars
  <1>5. PrTypeOK'
    BY <1>2, OtherTypes
  <1>6. ReaderInv(start, t, c, e)'
    BY <1>1, <1>2, <1>3, <1>4 DEF ReaderInv
  <1>7. WordsCopied(c)' /\ WakeUps(t, e)'
    <2>1. ring_wake' = ring_wake /\ writer' = writer
      BY <1>1 DEF kernelVars
    <2>. QED BY <1>1, <1>2, <1>3, <1>4, <2>1 DEF WordsCopied, WakeUps
  <1>. QED BY <1>4, <1>5, <1>6, <1>7 DEF RingAgrees

\* The callback gets the record at the reader's place, whole.
LEMMA RecordHanded ==
  ASSUME NEW start \in [Nat -> Nat], NEW t \in Nat, NEW c \in Nat, NEW e \in Nat,
         RingAgrees(start, t, c, e), reader.pc = "call"
  PROVE  /\ Lengths[c] \in Nat /\ Lengths[c] > 0 /\ Len(EventWords) = Lengths[c]
         /\ \A k \in 1 .. Lengths[c] : EventWords[k] = [rec |-> c, at |-> k - 1]
  <1>2. /\ PrTypeOK /\ LaidOut(Len(records), Lengths, start) /\ WriterInv(start) /\ Freed(start, t)
        /\ ReaderInv(start, t, c, e) /\ WordsWritten(start, t) /\ WordsCopied(c) /\ WakeUps(t, e)
    BY DEF RingAgrees
  <1>1. c < e
    BY <1>2 DEF ReaderInv
  <1>. PICK l \in Nat : l = Lengths[c]
    BY <1>1, RecordAtReader
  <1>3. l > 0 /\ c \in 1 .. Len(records) /\ EventSize(Ehdr) = l
    BY <1>1, RecordAtReader, ZenonT(60)
  <1>4. CASE ~ reader.copied
    <2>1. EventWords = Wrapped
      BY <1>4 DEF EventWords, Wrapped
    <2>2. /\ DOMAIN Wrapped = 1 .. l
          /\ \A k \in 1 .. l : Wrapped[k] = [rec |-> c, at |-> k - 1]
      BY <1>1, WrappedRecord
    <2>3. Wrapped = [k \in 1 .. l |-> Wrapped[k]]
      BY <2>2 DEF Wrapped
    <2>4. Len(Wrapped) = l
      BY <2>3
    <2>. QED BY <1>3, <2>1, <2>2, <2>4
  <1>5. CASE reader.copied
    <2>1. l <= Len(copy_mem) /\ (\A k \in 1 .. l : copy_mem[k] = [rec |-> c, at |-> k - 1])
          /\ copy_mem \in Seq(MemWords)
      BY <1>2, <1>5 DEF WordsCopied, PrTypeOK
    <2>2. EventSize(copy_mem[1]) = l
      <3>1. copy_mem[1] = [rec |-> c, at |-> 0]
        <4>1. 1 \in 1 .. l /\ 1 - 1 = 0
          BY ONLY <1>3, l \in Nat
        <4>. QED BY ONLY <2>1, <4>1
      <3>2. records[c].size = l /\ c \in DOMAIN records
        BY <1>2, <1>3, LengthsType
      <3>. QED BY <3>1, <3>2 DEF EventSize
    <2>3. EventWords = SubSeq(copy_mem, 1, l)
      BY <1>5, <2>2 DEF EventWords
    <2>4. Len(SubSeq(copy_mem, 1, l)) = l /\ \A k \in 1 .. l : SubSeq(copy_mem, 1, l)[k] = copy_mem[k]
      BY ONLY <2>1, <1>3, l \in Nat
    <2>. QED BY <1>3, <2>1, <2>3, <2>4
  <1>. QED BY <1>4, <1>5

\* Handing a record to the callback keeps the invariant.
LEMMA CallbackStep ==
  ASSUME NEW start \in [Nat -> Nat], NEW t \in Nat, NEW c \in Nat, NEW e \in Nat,
         RingAgrees(start, t, c, e), Callback
  PROVE  RingAgrees(start, t, c + 1, e)'
  <1>1. /\ UNCHANGED <<ring_mem, kernelVars, data_tail, copy_mem, copy_size, mallocs>>
        /\ reader.pc = "call"
        /\ reader' = [reader EXCEPT !.pc = "next", !.tail = (reader.tail + Len(EventWords)) % RingWord]
    BY DEF Callback
  <1>2. /\ PrTypeOK /\ LaidOut(Len(records), Lengths, start) /\ WriterInv(start) /\ Freed(start, t)
        /\ ReaderInv(start, t, c, e) /\ WordsWritten(start, t) /\ WordsCopied(c) /\ WakeUps(t, e)
    BY DEF RingAgrees
  <1>3. /\ reader'.pc = "next" /\ reader'.head = reader.head
        /\ reader'.tail = (reader.tail + Len(EventWords)) % RingWord /\ reader'.ret = reader.ret
    BY <1>1, <1>2 DEF PrTypeOK
  <1>4. LaidOut(Len(records), Lengths, start)' /\ WriterInv(start)' /\ WordsWritten(start, t)'
        /\ Published' = Published /\ Freed(start, t)'
    BY <1>1, SameWriter, SameTail DEF kernelVars
  <1>. PICK l \in Nat : l = Lengths[c]
    BY <1>1, RecordHanded
  <1>8. Len(EventWords) = l
    BY <1>1, RecordHanded
  <1>5. PrTypeOK'
    <2>1. Len(EventWords) \in Int
      BY ONLY <1>8, l \in Nat
    <2>. QED BY <1>2, <2>1, CallbackType
  <1>9. c < e /\ start[c + 1] = start[c] + l
    <2>1. c < e
      BY <1>1, <1>2 DEF ReaderInv
    <2>. QED BY <1>1, <2>1, RecordAtReader, ZenonT(60)
  <1>6. ReaderInv(start, t, c + 1, e)'
    <2>. PICK z \in Int : z = start[c]
      OBVIOUS
    <2>1. reader.tail = z % RingWord
      BY <1>1, <1>2 DEF ReaderInv
    <2>2. ((z % RingWord) + l) % RingWord = (z + l) % RingWord
      <3>1. l \in Int
        OBVIOUS
      <3>. QED BY ONLY <3>1, RingSizes, ModAdd, z \in Int
    <2>3. reader'.tail = start[c + 1] % RingWord
      BY <1>3, <1>8, <1>9, <2>1, <2>2
    <2>4. c \in t .. e
      BY <1>2 DEF ReaderInv
    <2>5. c + 1 \in t .. e
      BY ONLY <2>4, <1>9, c \in Nat, t \in Nat, e \in Nat
    <2>. QED BY <1>1, <1>2, <1>3, <1>4, <2>3, <2>5 DEF ReaderInv
  <1>7. WordsCopied(c + 1)' /\ WakeUps(t, e)'
    <2>1. ring_wake' = ring_wake /\ writer' = writer
      BY <1>1 DEF kernelVars
    <2>. QED BY <1>1, <1>2, <1>3, <1>4, <2>1 DEF WordsCopied, WakeUps
  <1>. QED BY <1>4, <1>5, <1>6, <1>7 DEF RingAgrees

\* Writing data_tail frees what was read, and keeps the invariant.
LEMMA EndRecordsStep ==
  ASSUME NEW start \in [Nat -> Nat], NEW t \in Nat, NEW c \in Nat, NEW e \in Nat,
         RingAgrees(start, t, c, e), EndRecords
  PROVE  RingAgrees(start, t, c, e)'
  <1>1. /\ UNCHANGED <<ring_mem, kernelVars, data_tail, copy_mem, copy_size, ring_queue, mallocs>>
        /\ reader.pc = "next" /\ reader.head = reader.tail
        /\ reader' = [reader EXCEPT !.pc = "tail"]
    BY DEF EndRecords
  <1>2. /\ PrTypeOK /\ LaidOut(Len(records), Lengths, start) /\ WriterInv(start) /\ Freed(start, t)
        /\ ReaderInv(start, t, c, e) /\ WordsWritten(start, t) /\ WordsCopied(c) /\ WakeUps(t, e)
    BY DEF RingAgrees
  <1>3. /\ reader'.pc = "tail" /\ reader'.head = reader.head
        /\ reader'.tail = reader.tail /\ reader'.ret = reader.ret
    BY <1>1, <1>2 DEF PrTypeOK
  <1>4. LaidOut(Len(records), Lengths, start)' /\ WriterInv(start)' /\ WordsWritten(start, t)'
        /\ Published' = Published /\ Freed(start, t)'
    BY <1>1, SameWriter, SameTail DEF kernelVars
  <1>5. PrTypeOK'
    BY <1>2, OtherTypes
  <1>8. c = e
    <2>. PICK n \in Nat, v \in Nat : n = Len(records) /\ v = Published
      BY PerfOrder
    <2>1. /\ v \in 1 .. n + 1 /\ c \in 1 .. n + 1 /\ e \in 1 .. n + 1 /\ c <= e
      <3>1. v \in 1 .. n + 1 /\ c > 0 /\ c <= e /\ e <= v
        BY PerfOrder
      <3>. QED BY ONLY <3>1, v \in Nat, n \in Nat, c \in Nat, e \in Nat
    <2>. PICK a \in Nat : a = start[c]
      OBVIOUS
    <2>. PICK b \in Nat : b = start[e]
      OBVIOUS
    <2>. PICK x \in Nat : x = start[t]
      OBVIOUS
    <2>. PICK y \in Nat : y = start[v]
      OBVIOUS
    <2>. PICK z \in Nat : z = start[n + 1]
      BY ONLY n \in Nat, start \in [Nat -> Nat]
    <2>2. x <= a /\ a <= b /\ b <= y /\ y <= z /\ z - x < mmap_size
      BY PerfOrder
    <2>3. a <= b /\ b - a < mmap_size
      BY ONLY <2>2, RingSizes, a \in Nat, b \in Nat, x \in Nat, y \in Nat, z \in Nat
    <2>4. a % RingWord = b % RingWord
      BY <1>1, <1>2 DEF ReaderInv
    <2>5. a = b
      BY ONLY <2>3, <2>4, PlacesApart, a \in Nat, b \in Nat
    <2>6. LaidOut(n, Lengths, start)
      BY <1>2
    <2>. PICK len : len = Lengths
      OBVIOUS
    <2>7. c < e <=> start[c] < start[e]
      BY ONLY <2>1, <2>6, len = Lengths, StartsGrow, n \in Nat, start \in [Nat -> Nat]
    <2>8. c < e <=> a < b
      BY <2>7
    <2>. QED BY ONLY <2>1, <2>5, <2>8, a \in Nat, b \in Nat, c \in Nat, e \in Nat
  <1>6. ReaderInv(start, t, c, e)'
    BY <1>1, <1>2, <1>3, <1>4, <1>8 DEF ReaderInv
  <1>7. WordsCopied(c)' /\ WakeUps(t, e)'
    <2>1. ring_wake' = ring_wake /\ writer' = writer
      BY <1>1 DEF kernelVars
    <2>. QED BY <1>1, <1>2, <1>3, <1>4, <2>1 DEF WordsCopied, WakeUps
  <1>. QED BY <1>4, <1>5, <1>6, <1>7 DEF RingAgrees

\* What the reader has read is free, and the memory of it the kernel's again.
LEMMA WriteTailStep ==
  ASSUME NEW start \in [Nat -> Nat], NEW t \in Nat, NEW c \in Nat, NEW e \in Nat,
         RingAgrees(start, t, c, e), WriteTail
  PROVE  RingAgrees(start, c, c, c)'
  <1>1. /\ UNCHANGED <<ring_mem, kernelVars, copy_mem, copy_size, ring_queue, mallocs>>
        /\ reader.pc = "tail" /\ data_tail' = reader.tail
        /\ reader' = [reader EXCEPT !.pc = "idle"]
    BY DEF WriteTail
  <1>2. /\ PrTypeOK /\ LaidOut(Len(records), Lengths, start) /\ WriterInv(start) /\ Freed(start, t)
        /\ ReaderInv(start, t, c, e) /\ WordsWritten(start, t) /\ WordsCopied(c) /\ WakeUps(t, e)
    BY DEF RingAgrees
  <1>3. reader'.pc = "idle" /\ reader'.ret = reader.ret
    BY <1>1, <1>2 DEF PrTypeOK
  <1>4. LaidOut(Len(records), Lengths, start)' /\ WriterInv(start)' /\ WordsWritten(start, t)'
        /\ Published' = Published
    BY <1>1, SameWriter DEF kernelVars
  <1>5. PrTypeOK'
    BY <1>2, OtherTypes
  <1>. PICK n \in Nat, v \in Nat : n = Len(records) /\ v = Published
    BY PerfOrder
  <1>6. /\ t <= c /\ c <= e /\ e <= v /\ c > 0 /\ start[t] <= start[c]
        /\ start[n + 1] - start[t] < mmap_size
    BY PerfOrder
  <1>7. c \in 1 .. v /\ c \in c .. c
    BY ONLY <1>6, c \in Nat, e \in Nat, v \in Nat
  <1>8. Freed(start, c)'
    <2>. PICK a \in Nat : a = start[c]
      OBVIOUS
    <2>. PICK x \in Nat : x = start[t]
      OBVIOUS
    <2>. PICK z \in Nat : z = start[n + 1]
      OBVIOUS
    <2>1. z - a < mmap_size
      BY ONLY <1>6, RingSizes, a = start[c], x = start[t], z = start[n + 1], a \in Nat, x \in Nat,
         z \in Nat
    <2>2. data_tail' = start[c] % RingWord
      BY <1>1, <1>2 DEF ReaderInv
    <2>3. Len(records') = n
      BY <1>1 DEF kernelVars
    <2>. QED BY <1>4, <1>7, <2>1, <2>2, <2>3 DEF Freed
  <1>9. ReaderInv(start, c, c, c)'
    BY <1>3, <1>4, <1>7 DEF ReaderInv
  <1>10. WordsWritten(start, c)'
    <2>. PICK m \in Nat : m = Len(records')
      BY <1>5, LengthsType DEF PrTypeOK
    <2>. SUFFICES ASSUME NEW r \in 1 .. m, NEW k \in Nat, k < Lengths'[r], start[c] <= start[r] + k,
                         start[r] + k < start[Published'] + writer'.at
                  PROVE  ring_mem'[(start[r] + k) % mmap_size] = [rec |-> r, at |-> k]
      BY DEF WordsWritten
    <2>. PICK a \in Nat : a = start[c]
      OBVIOUS
    <2>. PICK x \in Nat : x = start[t]
      OBVIOUS
    <2>. PICK y \in Nat : y = start[r]
      OBVIOUS
    <2>1. x <= y + k
      BY ONLY <1>6, start[c] <= start[r] + k, a = start[c], x = start[t], y = start[r],
              a \in Nat, x \in Nat, y \in Nat, k \in Nat
    <2>. QED BY <1>4, <2>1 DEF WordsWritten
  <1>11. WordsCopied(c)'
    BY <1>3 DEF WordsCopied
  <1>12. WakeUps(c, c)'
    <2>1. ring_wake' = ring_wake /\ writer' = writer
      BY <1>1 DEF kernelVars
    <2>2. reader.ret = "CONT" => c = e
      BY <1>1, <1>2 DEF ReaderInv
    <2>3. reader.ret # "ERROR" => reader.ret = "CONT"
      BY <1>2 DEF PrTypeOK
    <2>. QED BY <1>1, <1>2, <1>3, <1>4, <2>1, <2>2, <2>3 DEF WakeUps
  <1>. QED BY <1>4, <1>5, <1>8, <1>9, <1>10, <1>11, <1>12 DEF RingAgrees

-----------------------------------------------------------------------------
\* Every step of the perf ring keeps ring and reader in agreement, and only the callback
\* takes the reader to the next record.
LEMMA AgreedStep ==
  ASSUME NEW start \in [Nat -> Nat], NEW t \in Nat, NEW c \in Nat, NEW e \in Nat,
         RingAgrees(start, t, c, e), [RingNext]_ringVars
  PROVE  \E s2 \in [Nat -> Nat], t2, c2, e2 \in Nat :
           RingAgrees(s2, t2, c2, e2)' /\ (Callback => c2 = c + 1) /\ (~ Callback => c2 = c)
  <1>0. /\ Callback => reader.pc = "call" /\ reader'.pc = "next" /\ UNCHANGED records
        /\ ReadHead => reader.pc = "head"
        /\ Emit => reader' = reader
        /\ WriteTail => reader.pc = "tail"
    BY DEF Callback, ReadHead, WriteTail, Emit, kernelVars, readerVars, RingAgrees, PrTypeOK
  <1>1. CASE Emit
    <2>1. ~ Callback
      BY <1>0, <1>1
    <2>. PICK s2 \in [Nat -> Nat] : RingAgrees(s2, t, c, e)'
      BY <1>1, EmitStep
    <2>. QED BY <2>1
  <1>2. CASE WriteWord
    <2>1. ~ Callback
      BY <1>0, <1>2 DEF WriteWord, readerVars, RingAgrees, PrTypeOK
    <2>. QED BY <1>2, <2>1, WriteWordStep
  <1>3. CASE Publish
    <2>1. ~ Callback
      BY <1>0, <1>3 DEF Publish, readerVars, RingAgrees, PrTypeOK
    <2>. QED BY <1>3, <2>1, PublishStep
  <1>4. CASE Wake
    <2>1. ~ Callback
      BY <1>0, <1>4 DEF Wake, readerVars, RingAgrees, PrTypeOK
    <2>. QED BY <1>4, <2>1, WakeStep
  <1>5. CASE PollRing
    <2>1. ~ Callback
      BY <1>0, <1>5 DEF PollRing, readerVars, RingAgrees, PrTypeOK
    <2>. QED BY <1>5, <2>1, PollRingStep
  <1>6. CASE ReadHead
    <2>1. RingAgrees(start, t, t, Published)'
      BY <1>6, ReadHeadStep
    <2>2. Published' = Published /\ ~ Callback
      BY <1>0, <1>6, SameWriter DEF ReadHead, kernelVars
    <2>. PICK v \in Nat : v = Published
      BY PerfOrder
    <2>3. RingAgrees(start, t, t, v)'
      BY <2>1, <2>2
    <2>4. c = t
      BY <1>0, <1>6 DEF RingAgrees, ReaderInv
    <2>. QED BY <2>2, <2>3, <2>4
  <1>7. CASE FetchInPlace
    <2>1. ~ Callback
      BY <1>0, <1>7 DEF FetchInPlace, readerVars, RingAgrees, PrTypeOK
    <2>. QED BY <1>7, <2>1, FetchInPlaceStep
  <1>8. CASE FetchCopy
    <2>1. ~ Callback
      BY <1>0, <1>8 DEF FetchCopy, readerVars, RingAgrees, PrTypeOK
    <2>. QED BY <1>8, <2>1, FetchCopyStep
  <1>9. CASE FetchFails
    <2>1. ~ Callback
      BY <1>0, <1>9 DEF FetchFails, readerVars, RingAgrees, PrTypeOK
    <2>. QED BY <1>9, <2>1, FetchFailsStep
  <1>10. CASE Callback
    <2>1. RingAgrees(start, t, c + 1, e)'
      BY <1>10, CallbackStep
    <2>2. c + 1 \in Nat
      OBVIOUS
    <2>. QED BY <1>10, <2>1, <2>2
  <1>11. CASE EndRecords
    <2>1. ~ Callback
      BY <1>0, <1>11 DEF EndRecords, readerVars, RingAgrees, PrTypeOK
    <2>. QED BY <1>11, <2>1, EndRecordsStep
  <1>12. CASE WriteTail
    <2>1. RingAgrees(start, c, c, c)'
      BY <1>12, WriteTailStep
    <2>2. ~ Callback
      BY <1>0, <1>12
    <2>. QED BY <2>1, <2>2
  <1>13. CASE UNCHANGED ringVars
    <2>1. UNCHANGED <<ring_mem, data_head, ring_wake, writer, ring_lost, records, emitted, data_tail,
                      reader, copy_mem, copy_size>>
      BY <1>13 DEF ringVars, kernelVars, readerVars
    <2>2. /\ LaidOut(Len(records), Lengths, start)' /\ WriterInv(start)' /\ WordsWritten(start, t)'
          /\ Published' = Published /\ Freed(start, t)'
      BY <2>1, SameWriter, SameTail
    <2>3. PrTypeOK' /\ ReaderInv(start, t, c, e)' /\ WordsCopied(c)' /\ WakeUps(t, e)'
      BY <2>1, <2>2 DEF RingAgrees, PrTypeOK, ReaderInv, WordsCopied, WakeUps, Lengths
    <2>4. RingAgrees(start, t, c, e)'
      BY <2>2, <2>3 DEF RingAgrees
    <2>5. ~ Callback
      BY <1>0, <2>1
    <2>. QED BY <2>4, <2>5
  <1>. QED BY <1>1, <1>2, <1>3, <1>4, <1>5, <1>6, <1>7, <1>8, <1>9, <1>10, <1>11, <1>12, <1>13
      DEF RingNext

\* So every step keeps the invariant.
LEMMA PrStep == ASSUME PrInv, [RingNext]_ringVars PROVE PrInv'
  <1>. PICK start \in [Nat -> Nat], t \in Nat, c \in Nat, e \in Nat : RingAgrees(start, t, c, e)
    BY DEF PrInv
  <1>1. \E s2 \in [Nat -> Nat], t2, c2, e2 \in Nat : RingAgrees(s2, t2, c2, e2)'
    BY AgreedStep
  <1>. QED BY <1>1 DEF PrInv

\* The words of the perf ring are always those of the records: from data_tail to
\* where the kernel writes, and in the reader's copy.
THEOREM RecordsInvariant == RingSpec => []PrInv
  <1>1. PrInv /\ [RingNext]_ringVars => PrInv'
    BY PrStep
  <1>. QED BY <1>1, PerfStart, PTL DEF RingSpec

-----------------------------------------------------------------------------
(* What is unread is whole.                                                *)

\* A place of the ring that is not free holds its record's word.
LEMMA WordAt ==
  ASSUME NEW start \in [Nat -> Nat], NEW t \in Nat, NEW c \in Nat, NEW e \in Nat,
         RingAgrees(start, t, c, e),
         NEW r \in Nat, NEW k \in Nat, NEW p \in Nat, Covered(start, t, p),
         r \in 1 .. Len(records), k < Lengths[r], p = start[r] + k
  PROVE  HoldsWord(start, p, r, k) /\ EventSize([rec |-> r, at |-> k]) = Lengths[r]
  <1>0. start[t] <= p /\ p < start[Published]
    BY DEF Covered
  <1>2. /\ PrTypeOK /\ LaidOut(Len(records), Lengths, start) /\ WriterInv(start) /\ Freed(start, t)
        /\ ReaderInv(start, t, c, e) /\ WordsWritten(start, t) /\ WordsCopied(c) /\ WakeUps(t, e)
    BY DEF RingAgrees
  <1>3. /\ records[r].size = Lengths[r] /\ r \in DOMAIN records
    BY <1>2, LengthsType
  <1>. PICK at \in Nat : at = writer.at
    BY <1>2, LengthsType
  <1>. PICK v \in Nat : v = Published
    BY PerfOrder
  <1>. PICK z \in Nat : z = start[v]
    OBVIOUS
  <1>4. p < z + at
    BY ONLY <1>0, v = Published, z = start[v], p \in Nat, z \in Nat, at \in Nat
  <1>5. MemAt(p) = [rec |-> r, at |-> k]
    BY <1>0, <1>2, <1>4 DEF WordsWritten, MemAt
  <1>. QED BY <1>3, <1>5 DEF EventSize, HoldsWord

\* The words in front of the reader are those at the positions from start[c] on.
LEMMA UnreadWord ==
  ASSUME NEW start \in [Nat -> Nat], NEW t \in Nat, NEW c \in Nat, NEW e \in Nat,
         RingAgrees(start, t, c, e)
  PROVE  /\ ReadFrom = start[c] % RingWord
         /\ \A k \in Int : Unread(k) = MemAt(start[c] + k)
  <1>2. /\ PrTypeOK /\ LaidOut(Len(records), Lengths, start) /\ WriterInv(start) /\ Freed(start, t)
        /\ ReaderInv(start, t, c, e) /\ WordsWritten(start, t) /\ WordsCopied(c) /\ WakeUps(t, e)
    BY DEF RingAgrees
  <1>1. ReadFrom = start[c] % RingWord
    BY <1>2 DEF ReadFrom, ReaderInv, Freed
  <1>3. ASSUME NEW k \in Int PROVE Unread(k) = MemAt(start[c] + k)
    <2>. PICK a \in Int : a = start[c]
      OBVIOUS
    <2>1. ((a % RingWord) + k) % mmap_size = (a + k) % mmap_size
      BY ONLY WordPlace, a \in Int, k \in Int
    <2>. QED BY <1>1, <2>1 DEF Unread, MemAt
  <1>. QED BY <1>1, <1>3

\* What is not read yet is in the ring, whole.
LEMMA UnreadInOrder ==
  ASSUME NEW start \in [Nat -> Nat], NEW t \in Nat, NEW c \in Nat, NEW e \in Nat,
         RingAgrees(start, t, c, e)
  PROVE  UnreadIsWhole
  <1>2. /\ PrTypeOK /\ LaidOut(Len(records), Lengths, start) /\ WriterInv(start) /\ Freed(start, t)
        /\ ReaderInv(start, t, c, e) /\ WordsWritten(start, t) /\ WordsCopied(c) /\ WakeUps(t, e)
    BY DEF RingAgrees
  <1>. PICK n \in Nat, v \in Nat : n = Len(records) /\ v = Published
    BY PerfOrder
  <1>. PICK len \in [1 .. n -> Nat \ {0}] : len = Lengths
    BY <1>2, LengthsType
  <1>1. /\ v \in 1 .. n + 1 /\ t \in 1 .. v /\ c \in 1 .. v /\ t <= c /\ c <= v
        /\ v \in 1 .. n + 1 /\ t \in 1 .. n + 1 /\ c \in 1 .. n + 1
    <2>1. v \in 1 .. n + 1 /\ t \in 1 .. v /\ t <= c /\ c <= e /\ e <= v /\ c > 0
      BY PerfOrder
    <2>. QED BY ONLY <2>1, n \in Nat, v \in Nat, t \in Nat, c \in Nat, e \in Nat
  <1>3. LaidOut(n, len, start)
    BY <1>2
  <1>. PICK a \in Nat : a = start[c]
    OBVIOUS
  <1>. PICK x \in Nat : x = start[t]
    OBVIOUS
  <1>. PICK z \in Nat : z = start[v]
    OBVIOUS
  <1>. PICK y \in Nat : y = start[n + 1]
    BY ONLY n \in Nat, start \in [Nat -> Nat]
  <1>4. x <= a /\ a <= z /\ z - a < mmap_size
    <2>1. x <= a /\ a <= z /\ z <= y
      <3>1. n + 1 \in 1 .. n + 1 /\ v <= n + 1
        BY ONLY <1>1, n \in Nat, v \in Nat
      <3>2. start[t] <= start[c] /\ start[c] <= start[v] /\ start[v] <= start[n + 1]
        BY ONLY <1>1, <1>3, <3>1, StartsGrow, n \in Nat, start \in [Nat -> Nat]
      <3>. QED BY ONLY <3>2, a = start[c], x = start[t], z = start[v], y = start[n + 1]
    <2>2. y - x < mmap_size
      BY PerfOrder
    <2>. QED BY ONLY <2>1, <2>2, RingSizes, a \in Nat, x \in Nat, y \in Nat, z \in Nat
  <1>5. (data_head - ReadFrom) % RingWord = z - a
    <2>1. data_head = z % RingWord
      BY <1>2 DEF WriterInv
    <2>2. ReadFrom = a % RingWord
      BY UnreadWord
    <2>. QED BY <1>4, <2>1, <2>2, PlacesApart
  <1>6. \A k \in Int : Unread(k) = MemAt(a + k)
    <2>1. \A k \in Int : Unread(k) = MemAt(start[c] + k)
      BY ONLY RingSizes, UnreadWord, RingAgrees(start, t, c, e), start \in [Nat -> Nat],
              t \in Nat, c \in Nat, e \in Nat, ZenonT(60)
    <2>. QED BY ONLY <2>1, a = start[c]
  <1>11. ASSUME NEW p \in Nat, x <= p, p < z
         PROVE  Covered(start, t, p)
    BY ONLY <1>11, x = start[t], z = start[v], v = Published DEF Covered
  <1>12. ASSUME NEW r \in 1 .. n, NEW k \in Nat, k < len[r],
                NEW p \in Nat, p = start[r] + k, x <= p, p < z
         PROVE  /\ MemAt(p) = [rec |-> r, at |-> k]
                /\ EventSize([rec |-> r, at |-> k]) = len[r]
    <2>1. Covered(start, t, p)
      BY <1>11, <1>12
    <2>2. r \in 1 .. Len(records) /\ k < Lengths[r] /\ p = start[r] + k /\ r \in Nat
      BY <1>12
    <2>3. HoldsWord(start, p, r, k) /\ EventSize([rec |-> r, at |-> k]) = Lengths[r]
      BY ONLY <2>1, <2>2, WordAt, k \in Nat, p \in Nat,
              RingAgrees(start, t, c, e), start \in [Nat -> Nat],
              t \in Nat, c \in Nat, e \in Nat
    <2>. QED BY <2>3 DEF HoldsWord
  \* The word at a position, and the end of its record.
  <1>7. ASSUME NEW p \in Nat, x <= p, p < z
        PROVE  \E r \in 1 .. n : \E k \in Nat :
                 /\ MemAt(p) = [rec |-> r, at |-> k]
                 /\ EventSize([rec |-> r, at |-> k]) = len[r] /\ k < len[r]
                 /\ p = start[r] + k /\ start[r + 1] = start[r] + len[r]
                 /\ start[r + 1] <= z /\ r < v
    <2>1. \E r \in 1 .. n : \E k \in Nat :
            /\ k < len[r] /\ p = start[r] + k /\ MemAt(p) = [rec |-> r, at |-> k]
      <3>1. Covered(start, t, p)
        BY <1>7, <1>11
      <3>2. \E r, k \in Nat : HoldsWord(start, p, r, k)
        BY ONLY <3>1, PublishedWord, p \in Nat, RingAgrees(start, t, c, e), start \in [Nat -> Nat],
                t \in Nat, c \in Nat, e \in Nat
      <3>. QED BY ONLY <3>2, n = Len(records), len = Lengths DEF HoldsWord
    <2>. PICK r \in 1 .. n, k \in Nat :
            /\ k < len[r] /\ p = start[r] + k /\ MemAt(p) = [rec |-> r, at |-> k]
      BY <2>1
    <2>2. EventSize([rec |-> r, at |-> k]) = len[r]
      BY <1>7, <1>12
    <2>3. start[r + 1] = start[r] + len[r]
      BY <1>3 DEF LaidOut
    <2>4. r \in 1 .. n + 1 /\ r + 1 \in 1 .. n + 1 /\ r \in Nat
      BY ONLY n \in Nat, r \in 1 .. n
    <2>5. (r < v <=> start[r] < start[v]) /\ (r + 1 <= v <=> start[r + 1] <= start[v])
          /\ start[r] \in Nat
      BY ONLY <1>1, <1>3, <2>4, StartsGrow, n \in Nat, start \in [Nat -> Nat]
    <2>. PICK b \in Nat : b = start[r]
      BY <2>5
    <2>6. p = b + k /\ (r < v <=> b < z)
      BY <2>5
    <2>7. r < v /\ r + 1 <= v
      BY ONLY <2>4, <2>6, <1>7, b \in Nat, k \in Nat, p \in Nat, z \in Nat, v \in Nat
    <2>8. start[r + 1] <= z
      BY <2>5, <2>7
    <2>. QED BY <2>2, <2>3, <2>7, <2>8
  \* The first word of a record.
  <1>8. ASSUME NEW r \in 1 .. n, NEW p \in Nat, p = start[r], x <= p, p < z
        PROVE  MemAt(p) = [rec |-> r, at |-> 0]
    <2>1. 0 < len[r] /\ p = start[r] + 0
      <3>1. p = p + 0
        BY ONLY p \in Nat
      <3>2. 0 < len[r]
        BY ONLY len \in [1 .. n -> Nat \ {0}], r \in 1 .. n
      <3>. QED BY <1>8, <3>1, <3>2
    <2>. QED BY ONLY <1>8, <2>1, <1>12, r \in 1 .. n, p \in Nat
  <1>. DEFINE m == z - a
  <1>9. m > 0 => Unread(0).at = 0 /\ Unread(m - 1).at + 1 = EventSize(Unread(m - 1))
    <2>. SUFFICES ASSUME m > 0
                  PROVE  Unread(0).at = 0 /\ Unread(m - 1).at + 1 = EventSize(Unread(m - 1))
      OBVIOUS
    <2>1. a < z /\ a + 0 = a /\ m - 1 \in Int /\ a + (m - 1) = z - 1 /\ z - 1 \in Nat
          /\ x <= z - 1 /\ z - 1 < z
      BY ONLY <1>4, m > 0, a \in Nat, x \in Nat, z \in Nat
    <2>2. Unread(0).at = 0
      <3>1. c \in 1 .. n
        <4>1. c # v
          BY <2>1
        <4>. QED BY ONLY <4>1, <1>1, n \in Nat, v \in Nat, c \in Nat
      <3>2. MemAt(a) = [rec |-> c, at |-> 0]
        BY <1>4, <1>8, <2>1, <3>1
      <3>3. Unread(0) = MemAt(a)
        <4>1. Unread(0) = MemAt(a + 0) /\ a + 0 = a
          BY ONLY <1>6, <2>1
        <4>. QED BY ONLY <4>1
      <3>. QED BY <3>2, <3>3
    <2>3. Unread(m - 1).at + 1 = EventSize(Unread(m - 1))
      <3>. PICK p \in Nat : p = z - 1
        BY <2>1
      <3>0. x <= p /\ p < z
        BY <2>1
      <3>. PICK r \in 1 .. n, k \in Nat :
             /\ MemAt(p) = [rec |-> r, at |-> k]
             /\ EventSize([rec |-> r, at |-> k]) = len[r] /\ k < len[r]
             /\ p = start[r] + k /\ start[r + 1] = start[r] + len[r]
             /\ start[r + 1] <= z /\ r < v
        BY <1>7, <3>0
      <3>1. Unread(m - 1) = [rec |-> r, at |-> k]
        BY <1>6, <2>1
      <3>2. k + 1 = len[r]
        <4>. PICK b \in Nat : b = start[r]
          BY ONLY r \in 1 .. n, start \in [Nat -> Nat]
        <4>. PICK l \in Nat : l = len[r]
          BY ONLY r \in 1 .. n, len \in [1 .. n -> Nat \ {0}]
        <4>1. p = b + k /\ b + l <= z /\ k < l
          OBVIOUS
        <4>2. k + 1 = l
          BY ONLY <4>1, p = z - 1, p \in Nat, z \in Nat, b \in Nat, l \in Nat, k \in Nat
        <4>. QED BY <4>2
      <3>. QED BY ONLY <3>1, <3>2, EventSize([rec |-> r, at |-> k]) = len[r]
    <2>. QED BY <2>2, <2>3
  <1>10. ASSUME NEW i \in 0 .. m - 2
         PROVE  Unread(i + 1) = IF Unread(i).at + 1 = EventSize(Unread(i))
                                THEN [rec |-> Unread(i).rec + 1, at |-> 0]
                                ELSE [rec |-> Unread(i).rec, at |-> Unread(i).at + 1]
    <2>1. i \in Nat /\ i \in Int /\ i + 1 \in Int /\ a + i \in Nat /\ a + (i + 1) = (a + i) + 1
          /\ (a + i) + 1 \in Nat /\ x <= a + i /\ (a + i) + 1 < z /\ a + i < z /\ x <= (a + i) + 1
      BY ONLY <1>4, i \in 0 .. m - 2, a \in Nat, x \in Nat, z \in Nat, SMTT(30)
    <2>. PICK p \in Nat : p = a + i
      BY <2>1
    <2>2. /\ Unread(i) = MemAt(p) /\ Unread(i + 1) = MemAt(p + 1)
      BY <1>6, <2>1
    <2>3. x <= p /\ p < z /\ p + 1 < z /\ p + 1 \in Nat /\ x <= p + 1
      BY <2>1
    <2>. PICK r \in 1 .. n, k \in Nat :
           /\ MemAt(p) = [rec |-> r, at |-> k]
           /\ EventSize([rec |-> r, at |-> k]) = len[r] /\ k < len[r]
           /\ p = start[r] + k /\ start[r + 1] = start[r] + len[r]
           /\ start[r + 1] <= z /\ r < v
      BY <1>7, <2>3
    <2>. PICK b \in Nat : b = start[r]
      BY ONLY r \in 1 .. n, start \in [Nat -> Nat]
    <2>. PICK l \in Nat : l = len[r]
      BY ONLY r \in 1 .. n, len \in [1 .. n -> Nat \ {0}]
    <2>4. p = b + k /\ k < l
      OBVIOUS
    <2>5. CASE k + 1 = l
      <3>1. p + 1 = start[r + 1]
        <4>1. p + 1 = b + l
          BY ONLY <2>4, <2>5, p \in Nat, b \in Nat, l \in Nat, k \in Nat
        <4>. QED BY <4>1
      <3>2. r + 1 \in 1 .. n
        <4>1. r + 1 # v
          <5>1. start[r + 1] # start[v]
            BY ONLY <3>1, <2>3, z = start[v], p \in Nat, z \in Nat
          <5>. QED BY ONLY <5>1
        <4>. QED BY ONLY <4>1, r \in 1 .. n, r < v, <1>1, n \in Nat, v \in Nat
      <3>3. MemAt(p + 1) = [rec |-> r + 1, at |-> 0]
        BY ONLY <1>8, <2>3, <3>1, <3>2
      <3>. QED BY ONLY <2>2, <2>5, <3>3, l = len[r],
                       MemAt(p) = [rec |-> r, at |-> k],
                       EventSize([rec |-> r, at |-> k]) = len[r]
    <2>6. CASE k + 1 # l
      <3>1. k + 1 < l /\ k + 1 \in Nat /\ p + 1 = b + (k + 1)
        BY ONLY <2>4, <2>6, p \in Nat, b \in Nat, l \in Nat, k \in Nat
      <3>2. MemAt(p + 1) = [rec |-> r, at |-> k + 1]
        BY ONLY <2>3, <3>1, <1>12, l = len[r], b = start[r], r \in 1 .. n
      <3>. QED BY ONLY <2>2, <2>6, <3>2, l = len[r],
                       MemAt(p) = [rec |-> r, at |-> k],
                       EventSize([rec |-> r, at |-> k]) = len[r]
    <2>. QED BY <2>5, <2>6
  <1>. QED BY <1>5, <1>9, <1>10 DEF UnreadIsWhole

\* The invariant serves the records.
LEMMA RecordsServedWhenAgreed == PrInv => RecordsAreServed
  <1>. SUFFICES ASSUME PrInv PROVE RecordsAreServed
    OBVIOUS
  <1>. PICK start \in [Nat -> Nat], t \in Nat, c \in Nat, e \in Nat : RingAgrees(start, t, c, e)
    BY DEF PrInv
  <1>1. UnreadIsWhole
    BY UnreadInOrder
  <1>2. NothingForgotten
    BY DEF RingAgrees, WakeUps, Freed, WriterInv, NothingForgotten
  <1>. QED BY <1>1, <1>2 DEF RecordsAreServed

\* bpf_perf_event_read_simple never meets half a record, whatever the kernel
\* writes meanwhile, and never sleeps over a whole one.
THEOREM RecordsAlwaysServed == RingSpec => []RecordsAreServed
  BY RecordsInvariant, RecordsServedWhenAgreed, PTL
-----------------------------------------------------------------------------
(* The perf ring is a queue.  got[n] are the samples among the first n     *)
(* records, and ring_queue those among the records behind the reader.      *)

Collects(got, rs) ==
  /\ got \in [0 .. Len(rs) -> Seq(Nat)]
  /\ got[0] = <<>>
  /\ \A n \in 1 .. Len(rs) :
       got[n] = IF rs[n].type = "SAMPLE" THEN Append(got[n - 1], rs[n].id) ELSE got[n - 1]

\* The samples of a sequence of records can be collected, one record after another.
LEMMA CollectsExist ==
  ASSUME NEW rs \in Seq(PerfRecords)
  PROVE  \E got : Collects(got, rs)
  <1>. PICK l \in Nat : l = Len(rs)
    OBVIOUS
  <1>1. \A n \in 1 .. l : rs[n].id \in Nat
    <2>1. \A n \in 1 .. l : rs[n] \in PerfRecords
      OBVIOUS
    <2>2. \A r \in PerfRecords : r.id \in Nat
      BY DEF PerfRecords
    <2>. QED BY <2>1, <2>2
  <1>. DEFINE Up(got, m) ==
                /\ got \in [0 .. m -> Seq(Nat)] /\ got[0] = <<>>
                /\ \A n \in 1 .. m :
                     got[n] = IF rs[n].type = "SAMPLE" THEN Append(got[n - 1], rs[n].id)
                              ELSE got[n - 1]
              T == {m \in Nat : m <= l => \E got : Up(got, m)}
  <1>2. 0 \in T
    <2>. DEFINE got == [n \in 0 .. 0 |-> <<>>]
    <2>1. Up(got, 0)
      OBVIOUS
    <2>. QED BY <2>1
  <1>3. ASSUME NEW m \in T PROVE m + 1 \in T
    <2>. HIDE DEF Up
    <2>0. m \in Nat
      OBVIOUS
    <2>. SUFFICES ASSUME m + 1 <= l PROVE \E got : Up(got, m + 1)
      BY <2>0
    <2>. PICK h : Up(h, m)
      BY <2>0
    <2>. HIDE DEF T
    <2>. USE DEF Up
    <2>. PICK last \in Seq(Nat) :
           last = IF rs[m + 1].type = "SAMPLE" THEN Append(h[m], rs[m + 1].id) ELSE h[m]
      <3>. PICK q \in Seq(Nat) : q = h[m]
        BY <2>0
      <3>0. m + 1 \in 1 .. l
        BY <2>0
      <3>. PICK x \in Nat : x = rs[m + 1].id
        BY <1>1, <3>0
      <3>1. Append(q, x) \in Seq(Nat)
        OBVIOUS
      <3>. QED BY <3>1
    <2>. DEFINE got == [n \in 0 .. m + 1 |-> IF n = m + 1 THEN last ELSE h[n]]
    <2>1. got \in [0 .. m + 1 -> Seq(Nat)] /\ got[0] = <<>>
      BY <2>0
    <2>2. ASSUME NEW n \in 1 .. m + 1
          PROVE  got[n] = IF rs[n].type = "SAMPLE" THEN Append(got[n - 1], rs[n].id) ELSE got[n - 1]
      <3>1. n - 1 \in 0 .. m /\ n - 1 \in 0 .. m + 1 /\ n \in 0 .. m + 1 /\ n - 1 # m + 1
        BY <2>0
      <3>2. got[n - 1] = h[n - 1]
        BY <3>1
      <3>3. CASE n = m + 1
        <4>1. n - 1 = m /\ got[n] = last
          BY <2>0, <3>1, <3>3
        <4>. QED BY <3>2, <3>3, <4>1
      <3>4. CASE n # m + 1
        <4>1. n \in 1 .. m /\ got[n] = h[n]
          BY <2>0, <3>1, <3>4
        <4>. QED BY <3>2, <4>1
      <3>. QED BY <3>3, <3>4
    <2>. HIDE DEF got
    <2>. QED BY <2>1, <2>2
  <1>4. T = Nat
    <2>. HIDE DEF T
    <2>1. T \in SUBSET Nat
      BY DEF T
    <2>. QED BY <1>2, <1>3, <2>1, SetInduction
  <1>. PICK got : Up(got, l)
    BY <1>4, SMTT(30)
  <1>. QED BY DEF Collects

\* What is collected from records is not changed by those that follow.
LEMMA CollectsAgree ==
  ASSUME NEW rs \in Seq(PerfRecords), NEW rs2 \in Seq(PerfRecords), Len(rs) <= Len(rs2),
         \A n \in 1 .. Len(rs) : rs2[n] = rs[n],
         NEW got, Collects(got, rs), NEW got2, Collects(got2, rs2)
  PROVE  \A n \in 0 .. Len(rs) : got2[n] = got[n]
  <1>. PICK l \in Nat, m \in Nat : l = Len(rs) /\ m = Len(rs2)
    OBVIOUS
  <1>. DEFINE T == {n \in Nat : n <= l => got2[n] = got[n]}
  <1>1. 0 \in T
    BY DEF Collects
  <1>2. ASSUME NEW n \in T PROVE n + 1 \in T
    <2>. SUFFICES ASSUME n + 1 <= l PROVE got2[n + 1] = got[n + 1]
      OBVIOUS
    <2>1. n \in Nat /\ got2[n] = got[n]
      OBVIOUS
    <2>2. n + 1 \in 1 .. l /\ n + 1 \in 1 .. m /\ (n + 1) - 1 = n
      BY <2>1
    <2>. QED BY <2>1, <2>2 DEF Collects
  <1>3. T = Nat
    <2>. HIDE DEF T
    <2>1. T \in SUBSET Nat
      BY DEF T
    <2>. QED BY <1>1, <1>2, <2>1, SetInduction
  <1>. QED BY <1>3

\* One sequence is the beginning of another.
IsStart(s, q) == Len(s) <= Len(q) /\ \A i \in 1 .. Len(s) : q[i] = s[i]

\* What is collected from some records is the beginning of what is collected from more.
LEMMA CollectsGrow ==
  ASSUME NEW rs \in Seq(PerfRecords), NEW got, Collects(got, rs), NEW a \in 0 .. Len(rs)
  PROVE  \A b \in a .. Len(rs) : IsStart(got[a], got[b])
  <1>. PICK l \in Nat : l = Len(rs)
    OBVIOUS
  <1>0. got \in [0 .. l -> Seq(Nat)] /\ a \in 0 .. l
    BY DEF Collects
  <1>. PICK s \in Seq(Nat) : s = got[a]
    BY <1>0
  <1>. DEFINE Begins(q) == Len(s) <= Len(q) /\ \A i \in 1 .. Len(s) : q[i] = s[i]
              T == {b \in Nat : a + b <= l => Begins(got[a + b])}
  <1>1. 0 \in T
    BY <1>0
  <1>2. ASSUME NEW b \in T PROVE b + 1 \in T
    <2>. SUFFICES ASSUME a + (b + 1) <= l PROVE Begins(got[a + (b + 1)])
      OBVIOUS
    <2>. PICK n \in Nat : n = a + b
      BY <1>0
    <2>1. n \in 0 .. l /\ n + 1 \in 1 .. l /\ (n + 1) - 1 = n /\ a + (b + 1) = n + 1 /\ n <= l
      BY <1>0
    <2>2. Begins(got[n])
      BY <2>1
    <2>. PICK q \in Seq(Nat) : q = got[n]
      BY <1>0, <2>1
    <2>3. got[n + 1] = q \/ got[n + 1] = Append(q, rs[n + 1].id)
      BY <2>1 DEF Collects
    <2>. PICK x : x = rs[n + 1].id
      OBVIOUS
    <2>4. rs[n + 1].id \in Nat
      <3>1. rs[n + 1] \in PerfRecords
        BY <2>1
      <3>2. \A r \in PerfRecords : r.id \in Nat
        BY DEF PerfRecords
      <3>. QED BY <3>1, <3>2
    <2>5. Begins(Append(q, x))
      <3>1. x \in Nat /\ s \in Seq(Nat) /\ q \in Seq(Nat) /\ Begins(q)
        BY <2>2, <2>4
      <3>. QED BY ONLY <3>1
    <2>. HIDE DEF Begins
    <2>. QED BY <2>1, <2>2, <2>3, <2>5
  <1>3. T = Nat
    <2>. HIDE DEF T
    <2>1. T \in SUBSET Nat
      BY DEF T
    <2>. QED BY <1>1, <1>2, <2>1, SetInduction
  <1>. SUFFICES ASSUME NEW b \in a .. l PROVE Begins(got[b])
    BY DEF IsStart
  <1>4. b - a \in Nat /\ a + (b - a) = b /\ b <= l
    BY <1>0
  <1>5. b - a \in T
    BY <1>3, <1>4
  <1>. QED BY <1>4, <1>5

\* SamplesPut collects so: the function that it defines by recursion exists.
LEMMA SamplesCollected ==
  ASSUME NEW rs \in Seq(PerfRecords)
  PROVE  \E got : Collects(got, rs) /\ SamplesOf(rs) = got[Len(rs)]
  <1>. DEFINE Rule(f) == f = [n \in 0 .. Len(rs) |->
                               IF n = 0 THEN <<>>
                               ELSE IF rs[n].type = "SAMPLE" THEN Append(f[n - 1], rs[n].id)
                                    ELSE f[n - 1]]
              g == CHOOSE f : Rule(f)
  <1>1. SamplesOf(rs) = g[Len(rs)]
    BY DEF SamplesOf
  <1>. PICK h : Collects(h, rs)
    BY CollectsExist
  <1>. PICK l \in Nat : l = Len(rs)
    OBVIOUS
  <1>2. Rule(h)
    <2>1. h = [n \in 0 .. l |-> h[n]]
      BY DEF Collects
    <2>2. \A n \in 0 .. l :
            h[n] = IF n = 0 THEN <<>>
                   ELSE IF rs[n].type = "SAMPLE" THEN Append(h[n - 1], rs[n].id) ELSE h[n - 1]
      <3>1. h[0] = <<>> /\ \A n \in 1 .. l :
              h[n] = IF rs[n].type = "SAMPLE" THEN Append(h[n - 1], rs[n].id) ELSE h[n - 1]
        BY DEF Collects
      <3>2. \A n \in 0 .. l : n # 0 => n \in 1 .. l
        OBVIOUS
      <3>. QED BY <3>1, <3>2
    <2>. QED BY <2>1, <2>2, SMTT(30)
  <1>3. Rule(g)
    BY <1>2, Zenon
  <1>. HIDE DEF g
  <1>4. g[0] = <<>> /\ \A n \in 1 .. l :
          g[n] = IF rs[n].type = "SAMPLE" THEN Append(g[n - 1], rs[n].id) ELSE g[n - 1]
    <2>1. \A n \in 0 .. l :
            g[n] = IF n = 0 THEN <<>>
                   ELSE IF rs[n].type = "SAMPLE" THEN Append(g[n - 1], rs[n].id) ELSE g[n - 1]
      BY <1>3
    <2>2. 0 \in 0 .. l /\ \A n \in 1 .. l : n \in 0 .. l /\ n # 0
      OBVIOUS
    <2>. HIDE DEF Rule
    <2>. QED BY <2>1, <2>2
  <1>5. \A n \in 0 .. l : g[n] = h[n]
    <2>. DEFINE T == {n \in Nat : n <= l => g[n] = h[n]}
    <2>1. 0 \in T
      BY <1>4 DEF Collects
    <2>2. ASSUME NEW n \in T PROVE n + 1 \in T
      <3>. SUFFICES ASSUME n + 1 <= l PROVE g[n + 1] = h[n + 1]
        OBVIOUS
      <3>1. n \in Nat /\ g[n] = h[n]
        OBVIOUS
      <3>2. n + 1 \in 1 .. l /\ (n + 1) - 1 = n
        BY <3>1
      <3>. QED BY <1>4, <3>1, <3>2 DEF Collects
    <2>3. T = Nat
      <3>. HIDE DEF T
      <3>1. T \in SUBSET Nat
        BY DEF T
      <3>. QED BY <2>1, <2>2, <3>1, SetInduction
    <2>. QED BY <2>3
  <1>. QED BY <1>1, <1>5

\* Whatever function collects the samples, SamplesOf is its last value.
LEMMA SamplesAreLast ==
  ASSUME NEW rs \in Seq(PerfRecords), NEW got, Collects(got, rs)
  PROVE  SamplesOf(rs) = got[Len(rs)]
  <1>. PICK l \in Nat : l = Len(rs)
    OBVIOUS
  <1>. PICK h : Collects(h, rs) /\ SamplesOf(rs) = h[l]
    BY SamplesCollected
  <1>1. h[l] = got[l]
    BY CollectsAgree
  <1>. QED BY <1>1

\* One more sample, with or without a record of lost ones before it.
MoreBy(rs, a, b, rs2) ==
  /\ a.type = "SAMPLE" /\ b.type = "LOST"
  /\ rs2 = rs \o <<a>> \/ rs2 = rs \o <<b, a>>

\* It is one more in the queue, and what was collected before stays.
LEMMA SampleAdded ==
  ASSUME NEW rs \in Seq(PerfRecords), NEW a \in PerfRecords, NEW b \in PerfRecords,
         NEW rs2, MoreBy(rs, a, b, rs2), NEW got, Collects(got, rs)
  PROVE  /\ SamplesOf(rs2) = Append(SamplesOf(rs), a.id)
         /\ \E got2 : Collects(got2, rs2) /\ \A n \in 0 .. Len(rs) : got2[n] = got[n]
  <1>. USE DEF MoreBy
  <1>. PICK l \in Nat : l = Len(rs)
    OBVIOUS
  <1>1. /\ rs2 \in Seq(PerfRecords) /\ l <= Len(rs2) /\ \A n \in 1 .. l : rs2[n] = rs[n]
        /\ \/ Len(rs2) = l + 1 /\ rs2[l + 1] = a
           \/ Len(rs2) = l + 2 /\ rs2[l + 1] = b /\ rs2[l + 2] = a
    <2>1. CASE rs2 = rs \o <<a>>
      BY <2>1
    <2>2. CASE rs2 = rs \o <<b, a>>
      BY <2>2
    <2>. QED BY <2>1, <2>2
  <1>. PICK got2 : Collects(got2, rs2)
    BY <1>1, CollectsExist
  <1>2. \A n \in 0 .. l : got2[n] = got[n]
    BY <1>1, CollectsAgree
  <1>3. SamplesOf(rs) = got[l] /\ SamplesOf(rs2) = got2[Len(rs2)] /\ got2[l] = got[l]
    BY <1>1, <1>2, SamplesAreLast
  <1>4. got2[Len(rs2)] = Append(got2[l], a.id)
    <2>1. CASE Len(rs2) = l + 1 /\ rs2[l + 1] = a
      <3>1. l + 1 \in 1 .. Len(rs2) /\ (l + 1) - 1 = l
        BY <2>1
      <3>. QED BY <2>1, <3>1 DEF Collects
    <2>2. CASE Len(rs2) = l + 2 /\ rs2[l + 1] = b /\ rs2[l + 2] = a
      <3>1. l + 1 \in 1 .. Len(rs2) /\ (l + 1) - 1 = l /\ l + 2 \in 1 .. Len(rs2) /\ (l + 2) - 1 = l + 1
        BY <2>2
      <3>2. got2[l + 1] = got2[l]
        BY <2>2, <3>1 DEF Collects
      <3>. QED BY <2>2, <3>1, <3>2 DEF Collects
    <2>. QED BY <2>1, <2>2, <1>1
  <1>. QED BY <1>2, <1>3, <1>4

\* The inductive invariant of the refinement: policy_stats has the samples of the
\* records behind the reader, no more and no fewer.
QueueAgrees(start, t, c, e, got) ==
  /\ RingAgrees(start, t, c, e)
  /\ Collects(got, records) /\ ring_queue = got[c - 1]

QueueInv ==
  \E start \in [Nat -> Nat], t, c, e \in Nat : \E got : QueueAgrees(start, t, c, e, got)

\* A fresh ring is an empty queue.
LEMMA QueueStart == RingInit => QueueInv /\ Queue!Init
  <1>. SUFFICES ASSUME RingInit PROVE QueueInv /\ Queue!Init
    OBVIOUS
  <1>. PICK start \in [Nat -> Nat], t \in Nat, c \in Nat, e \in Nat : RingAgrees(start, t, c, e)
    BY PerfStart DEF PrInv
  <1>1. records = <<>> /\ ring_queue = <<>>
    BY DEF RingInit
  <1>2. records \in Seq(PerfRecords) /\ Len(records) = 0
    BY <1>1
  <1>3. c = 1
    <2>. PICK v \in Nat : v = Published
      BY PerfOrder
    <2>1. v \in 1 .. Len(records) + 1 /\ c <= e /\ e <= v /\ c > 0
      BY PerfOrder
    <2>. QED BY ONLY <2>1, <1>2, c \in Nat, e \in Nat, v \in Nat
  <1>. PICK got : Collects(got, records)
    BY <1>2, CollectsExist
  <1>4. got[0] = <<>> /\ c - 1 = 0
    BY <1>3 DEF Collects
  <1>5. SamplesPut = <<>>
    BY <1>2, <1>4, SamplesAreLast DEF SamplesPut
  <1>6. QueueAgrees(start, t, c, e, got)
    BY <1>1, <1>4 DEF QueueAgrees
  <1>. QED BY <1>1, <1>5, <1>6 DEF QueueInv, Queue!Init

\* What the kernel emits is put into the queue, or lost before it got there.
LEMMA EmitPuts ==
  ASSUME Emit, PrTypeOK, NEW got, Collects(got, records)
  PROVE  /\ ring_queue' = ring_queue
         /\ [Queue!Next]_<<SamplesPut, ring_queue>>
         /\ \E got2 : Collects(got2, records') /\ \A n \in 0 .. Len(records) : got2[n] = got[n]
  <1>. DEFINE sample == [type |-> "SAMPLE", size |-> SampleSize, id |-> emitted + 1]
              lost == [type |-> "LOST", size |-> LostSize, id |-> ring_lost]
  <1>0. SampleSize \in Nat \ {0} /\ LostSize \in Nat \ {0} /\ MaxSamples \in Nat
    BY RingSizes, RingAssumption
  <1>1. /\ sample \in PerfRecords /\ lost \in PerfRecords /\ records \in Seq(PerfRecords)
        /\ sample.type = "SAMPLE" /\ lost.type = "LOST" /\ sample.id = emitted + 1
    BY <1>0 DEF PrTypeOK, PerfRecords
  <1>2. \/ records' = records \o <<sample>> \/ records' = records \o <<lost, sample>>
        \/ records' = records
    BY DEF Emit
  <1>3. emitted + 1 \in 1 .. MaxSamples /\ ring_queue' = ring_queue
    BY <1>0 DEF Emit, PrTypeOK, readerVars
  <1>. HIDE DEF sample, lost
  <1>4. CASE records' = records
    BY <1>3, <1>4 DEF SamplesPut
  <1>5. CASE records' = records \o <<sample>> \/ records' = records \o <<lost, sample>>
    <2>. PICK rs2 : rs2 = records'
      OBVIOUS
    <2>. PICK rs \in Seq(PerfRecords), a \in PerfRecords, b \in PerfRecords :
           rs = records /\ a = sample /\ b = lost
      BY <1>1
    <2>0. MoreBy(rs, a, b, rs2) /\ Collects(got, rs)
      BY <1>1, <1>5 DEF MoreBy
    <2>6. /\ SamplesOf(rs2) = Append(SamplesOf(rs), a.id)
          /\ \E got2 : Collects(got2, rs2) /\ \A n \in 0 .. Len(rs) : got2[n] = got[n]
      BY ONLY <2>0, SampleAdded, rs \in Seq(PerfRecords), a \in PerfRecords, b \in PerfRecords
    <2>. PICK got2 : Collects(got2, rs2) /\ \A n \in 0 .. Len(rs) : got2[n] = got[n]
      BY <2>6
    <2>1. /\ Collects(got2, rs2) /\ \A n \in 0 .. Len(records) : got2[n] = got[n]
          /\ SamplesOf(rs2) = Append(SamplesOf(records), sample.id)
      BY <2>6
    <2>2. SamplesPut' = Append(SamplesPut, emitted + 1)
      BY <1>1, <2>1 DEF SamplesPut
    <2>3. Queue!Put(emitted + 1)
      BY <1>3, <2>2 DEF Queue!Put
    <2>4. Queue!Next
      BY <1>3, <2>3 DEF Queue!Next
    <2>. QED BY <1>3, <2>1, <2>4
  <1>. QED BY <1>2, <1>4, <1>5

\* The words that the callback gets are those of the record, and no others.
LEMMA HandedWhole ==
  ASSUME NEW start \in [Nat -> Nat], NEW t \in Nat, NEW c \in Nat, NEW e \in Nat,
         RingAgrees(start, t, c, e), reader.pc = "call"
  PROVE  /\ c \in 1 .. Len(records)
         /\ EventWords[1] = [rec |-> c, at |-> 0] /\ Whole(EventWords)
  <1>1. PrTypeOK /\ c < e
    BY DEF RingAgrees, ReaderInv
  <1>. PICK l \in Nat : l = Lengths[c]
    BY RecordHanded
  <1>2. l > 0 /\ \A k \in 1 .. l : EventWords[k] = [rec |-> c, at |-> k - 1]
    BY RecordHanded
  <1>3. c \in 1 .. Len(records) /\ EventSize(Ehdr) = l
    BY <1>1, RecordAtReader, ZenonT(60)
  <1>4. DOMAIN EventWords = 1 .. l
    <2>1. CASE ~ reader.copied
      BY <1>3, <2>1 DEF EventWords
    <2>2. CASE reader.copied
      <3>. PICK size \in Nat : size = EventSize(copy_mem[1])
        BY <1>1, HeaderType
      <3>1. EventWords = SubSeq(copy_mem, 1, size)
        BY <2>2 DEF EventWords
      <3>2. Len(EventWords) = l
        BY RecordHanded
      <3>. PICK mem \in Seq(MemWords) : mem = copy_mem
        BY <1>1 DEF PrTypeOK
      <3>3. EventWords = [i \in 1 .. size |-> mem[i]]
        BY <3>1
      <3>4. Len([i \in 1 .. size |-> mem[i]]) = size
        OBVIOUS
      <3>. QED BY <3>2, <3>3, <3>4
    <2>. QED BY <2>1, <2>2
  <1>5. EventWords[1] = [rec |-> c, at |-> 0]
    <2>1. 1 \in 1 .. l /\ 1 - 1 = 0
      BY <1>2
    <2>. QED BY <1>2, <2>1
  <1>6. EventWords[1].rec = c
    BY <1>5
  <1>. QED BY <1>2, <1>3, <1>4, <1>5, <1>6 DEF Whole

\* What the callback stores is the next sample of the queue.
LEMMA CallbackGets ==
  ASSUME NEW start \in [Nat -> Nat], NEW t \in Nat, NEW c \in Nat, NEW e \in Nat, NEW got,
         QueueAgrees(start, t, c, e, got), Callback
  PROVE  /\ records' = records /\ ring_queue' = got[c]
         /\ [Queue!Next]_<<SamplesPut, ring_queue>>
  <1>1. /\ RingAgrees(start, t, c, e) /\ Collects(got, records) /\ ring_queue = got[c - 1]
        /\ records \in Seq(PerfRecords)
    BY DEF QueueAgrees, RingAgrees, PrTypeOK
  <1>2. reader.pc = "call" /\ event_received /\ records' = records
    BY DEF Callback, kernelVars
  <1>. PICK l \in Nat : l = Len(records)
    BY <1>1
  <1>3. c \in 1 .. l /\ EventWords[1] = [rec |-> c, at |-> 0] /\ Whole(EventWords)
    BY <1>1, <1>2, HandedWhole
  <1>4. EventType(EventWords[1]) = records[c].type /\ EventId(EventWords[1]) = records[c].id
    BY <1>1, <1>3 DEF EventType, EventId
  <1>5. got[c] = IF records[c].type = "SAMPLE" THEN Append(got[c - 1], records[c].id) ELSE got[c - 1]
    BY <1>1, <1>3 DEF Collects
  <1>6. ring_queue' = got[c]
    BY <1>1, <1>2, <1>3, <1>4, <1>5 DEF event_received
  <1>7. SamplesPut' = SamplesPut
    BY <1>2 DEF SamplesPut
  <1>8. CASE records[c].type = "SAMPLE"
    <2>0. got \in [0 .. l -> Seq(Nat)] /\ l \in 0 .. l /\ c - 1 \in 0 .. l
      <3>1. got \in [0 .. Len(records) -> Seq(Nat)]
        BY <1>1 DEF Collects
      <3>2. l \in 0 .. l /\ c - 1 \in 0 .. l
        BY ONLY <1>3, l \in Nat
      <3>. QED BY <3>1, <3>2
    <2>. PICK p \in Seq(Nat) : p = got[l]
      BY ONLY <2>0
    <2>. PICK q \in Seq(Nat) : q = got[c - 1]
      BY ONLY <2>0
    <2>. PICK x \in Nat : x = records[c].id
      <3>1. records[c] \in PerfRecords
        BY <1>1, <1>3
      <3>. QED BY <3>1 DEF PerfRecords
    <2>. PICK g : g = got[c]
      OBVIOUS
    <2>1. g = Append(q, x)
      BY <1>5, <1>8
    <2>2. Len(g) <= Len(p) /\ \A i \in 1 .. Len(g) : p[i] = g[i]
      <3>1. c \in 0 .. l /\ l \in c .. l
        BY ONLY <1>3, l \in Nat
      <3>2. c \in 0 .. Len(records)
        BY ONLY <3>1, l = Len(records)
      <3>3. \A b \in c .. Len(records) : IsStart(got[c], got[b])
        BY ONLY <1>1, <3>2, CollectsGrow
      <3>. QED BY ONLY <3>1, <3>3, l = Len(records), p = got[l], g = got[c] DEF IsStart
    <2>3. Len(q) < Len(p) /\ p[Len(q) + 1] = x
      <3>1. Len(g) = Len(q) + 1 /\ g[Len(q) + 1] = x
        BY ONLY <2>1, q \in Seq(Nat), x \in Nat
      <3>. PICK m \in Nat, n \in Nat : m = Len(q) /\ n = Len(p)
        BY ONLY p \in Seq(Nat), q \in Seq(Nat)
      <3>2. Len(g) = m + 1 /\ m + 1 \in 1 .. Len(g) /\ m + 1 <= n
        BY ONLY <3>1, <2>2, m \in Nat, n \in Nat, m = Len(q), n = Len(p)
      <3>3. p[m + 1] = x
        BY ONLY <2>2, <3>1, <3>2, m = Len(q)
      <3>4. m < n
        BY ONLY <3>2, m \in Nat, n \in Nat
      <3>. QED BY ONLY <3>3, <3>4, m = Len(q), n = Len(p)
    <2>4. SamplesPut = p
      BY <1>1, SamplesAreLast DEF SamplesPut
    <2>5. Queue!Get
      BY <1>1, <1>6, <1>7, <2>1, <2>3, <2>4 DEF Queue!Get
    <2>. QED BY <1>2, <1>6, <2>5 DEF Queue!Next
  <1>9. CASE records[c].type # "SAMPLE"
    BY <1>1, <1>2, <1>5, <1>6, <1>7, <1>9
  <1>. QED BY <1>8, <1>9

\* Every step of the ring is a step of the queue, or none.
LEMMA QueueStep ==
  ASSUME QueueInv, [RingNext]_ringVars
  PROVE  QueueInv' /\ [Queue!Next]_<<SamplesPut, ring_queue>>
  <1>. PICK start \in [Nat -> Nat], t \in Nat, c \in Nat, e \in Nat :
         \E got : QueueAgrees(start, t, c, e, got)
    BY DEF QueueInv
  <1>. PICK got : QueueAgrees(start, t, c, e, got)
    OBVIOUS
  <1>1. /\ RingAgrees(start, t, c, e) /\ Collects(got, records) /\ ring_queue = got[c - 1]
        /\ PrTypeOK
    BY DEF QueueAgrees, RingAgrees
  <1>. PICK s2 \in [Nat -> Nat], t2 \in Nat, c2 \in Nat, e2 \in Nat :
         RingAgrees(s2, t2, c2, e2)' /\ (Callback => c2 = c + 1) /\ (~ Callback => c2 = c)
    BY <1>1, AgreedStep
  <1>2. CASE Callback
    <2>1. /\ records' = records /\ ring_queue' = got[c]
          /\ [Queue!Next]_<<SamplesPut, ring_queue>>
      BY <1>2, CallbackGets
    <2>2. c2 - 1 = c
      BY <1>2
    <2>3. QueueAgrees(s2, t2, c2, e2, got)'
      BY <1>1, <2>1, <2>2 DEF QueueAgrees, Collects
    <2>. QED BY <2>1, <2>3 DEF QueueInv
  <1>3. CASE Emit /\ ~ Callback
    <2>. PICK got2 : Collects(got2, records') /\ \A n \in 0 .. Len(records) : got2[n] = got[n]
      BY <1>1, <1>3, EmitPuts
    <2>1. ring_queue' = ring_queue /\ [Queue!Next]_<<SamplesPut, ring_queue>>
      BY <1>1, <1>3, EmitPuts
    <2>2. c2 = c /\ c - 1 \in 0 .. Len(records)
      <3>. PICK n \in Nat, v \in Nat : n = Len(records) /\ v = Published
        BY <1>1, PerfOrder
      <3>1. v \in 1 .. n + 1 /\ c <= e /\ e <= v /\ c > 0
        BY <1>1, PerfOrder
      <3>. QED BY ONLY <3>1, n \in Nat, v \in Nat, c \in Nat, e \in Nat, n = Len(records),
           <1>3, ~ Callback => c2 = c
    <2>3. QueueAgrees(s2, t2, c2, e2, got2)'
      BY <1>1, <2>1, <2>2 DEF QueueAgrees, Collects
    <2>. QED BY <2>1, <2>3 DEF QueueInv
  <1>4. CASE ~ Emit /\ ~ Callback
    <2>1. UNCHANGED <<records, ring_queue>>
      BY <1>4 DEF RingNext, ringVars, kernelVars, readerVars, WriteWord, Publish, Wake, PollRing,
                  ReadHead, FetchInPlace, FetchCopy, FetchFails, EndRecords, WriteTail
    <2>2. QueueAgrees(s2, t2, c2, e2, got)'
      BY <1>1, <1>4, <2>1 DEF QueueAgrees, Collects
    <2>3. UNCHANGED <<SamplesPut, ring_queue>>
      BY <2>1 DEF SamplesPut
    <2>. QED BY <2>2, <2>3 DEF QueueInv
  <1>. QED BY <1>2, <1>3, <1>4

\* RingIsQueue: policy_stats stores every sample that the kernel did not drop,
\* once, whole and in order, whatever straddles the end of the memory, whatever is
\* lost in between, and after failures of malloc.
THEOREM PerfRingIsQueue == RingSpec => RingIsQueue
  <1>1. RingInit => QueueInv /\ Queue!Init
    BY QueueStart
  <1>2. QueueInv /\ [RingNext]_ringVars => QueueInv' /\ [Queue!Next]_<<SamplesPut, ring_queue>>
    BY QueueStep
  <1>. QED BY <1>1, <1>2, PTL DEF RingSpec, RingIsQueue, Queue!Spec

=============================================================================
