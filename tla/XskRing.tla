------------------------------- MODULE XskRing ------------------------------
(***************************************************************************)
(* The rings of an AF_XDP socket, as the inline functions of xsk.h use     *)
(* them: the program produces into one ring (tx) and consumes from another *)
(* (completion), and the kernel hands each descriptor it took from the     *)
(* first back through the second.  Each side works from cached copies of   *)
(* the two counters, which wrap, and looks at the shared ones only when    *)
(* the copies do not suffice.                                              *)
(***************************************************************************)
EXTENDS Integers, Sequences

CONSTANTS
  RingSize, \* descriptors of a ring, a power of two
  XskWord,  \* counters are numbers modulo this (2^32)
  MaxDescs  \* bound: descriptors produced

ASSUME XskRingAssumption ==
  /\ RingSize \in Nat \ {0} /\ XskWord \in Nat \ {0}
  /\ XskWord % RingSize = 0 /\ XskWord > RingSize /\ MaxDescs \in Nat

VARIABLES
  tx,       \* [cached_prod, cached_cons, producer, consumer, ring] of the tx ring
  comp,     \* the same of the completion ring
  xr_prod,  \* the producing half of the program: the slots reserved and written
  xr_cons,  \* the consuming half: the slots peeked and read
  xr_put,   \* history: the descriptors written
  xr_got,   \* history: the descriptors read back
  xr_failed \* history: the last reserve or peek that gave nothing

xrVars == <<tx, comp, xr_prod, xr_cons, xr_put, xr_got, xr_failed>>

Wrap(n) == n % XskWord
Slots == 0 .. RingSize - 1
NoSlots == [idx |-> 0, nb |-> 0, done |-> 0]
NoFailure == [call |-> "none", nb |-> 0, room |-> 0]

\* The kernel clears the rings; xsk_socket__create starts the producer's cached_cons a size ahead.
NewRing(cons) == [cached_prod |-> 0, cached_cons |-> cons, producer |-> 0, consumer |-> 0,
                  ring |-> [i \in Slots |-> 0]]

XrInit ==
  /\ tx = NewRing(RingSize) /\ comp = NewRing(0)
  /\ xr_prod = NoSlots /\ xr_cons = NoSlots
  /\ xr_put = <<>> /\ xr_got = <<>> /\ xr_failed = NoFailure

----------------------------------------------------------------------------
(* The producing half. *)

xsk_prod_nb_free_FromCopy(r, nb) ==
  IF Wrap(r.cached_cons - r.cached_prod) >= nb THEN r
  ELSE [r EXCEPT !.cached_cons = Wrap(@ + RingSize)]

\* The ring after xsk_prod_nb_free: the cached consumer is refreshed only when the copies
\* do not leave room for nb; it is kept a size ahead of the real one.
xsk_prod_nb_free(r, nb) ==
  IF Wrap(r.cached_cons - r.cached_prod) >= nb THEN r
  ELSE [r EXCEPT !.cached_cons = Wrap(r.consumer + RingSize)]

xsk_ring_prod__reserve(nb) ==
  LET r == xsk_prod_nb_free(tx, nb)
      room == Wrap(r.cached_cons - r.cached_prod)
  IN /\ xr_prod.nb = 0
     /\ IF room < nb
        THEN /\ tx' = r
             /\ xr_failed' = [call |-> "reserve", nb |-> nb,
                              room |-> RingSize - Wrap(tx.cached_prod - tx.consumer)]
             /\ UNCHANGED xr_prod
        ELSE /\ xr_prod' = [idx |-> r.cached_prod, nb |-> nb, done |-> 0]
             /\ tx' = [r EXCEPT !.cached_prod = Wrap(@ + nb)]
             /\ UNCHANGED xr_failed
     /\ UNCHANGED <<comp, xr_cons, xr_put, xr_got>>

\* The slot of an index: idx & mask.
xsk_ring_prod__tx_desc(idx) == idx % RingSize

WriteDesc ==
  /\ xr_prod.done < xr_prod.nb /\ Len(xr_put) < MaxDescs
  /\ tx' = [tx EXCEPT !.ring[xsk_ring_prod__tx_desc(Wrap(xr_prod.idx + xr_prod.done))] = Len(xr_put) + 1]
  /\ xr_put' = Append(xr_put, Len(xr_put) + 1)
  /\ xr_prod' = [xr_prod EXCEPT !.done = @ + 1]
  /\ UNCHANGED <<comp, xr_cons, xr_got, xr_failed>>

xsk_ring_prod__submit ==
  /\ xr_prod.nb > 0 /\ xr_prod.done = xr_prod.nb
  /\ tx' = [tx EXCEPT !.producer = Wrap(@ + xr_prod.nb)]
  /\ xr_prod' = NoSlots
  /\ UNCHANGED <<comp, xr_cons, xr_put, xr_got, xr_failed>>

----------------------------------------------------------------------------
(* The consuming half. *)

\* The ring after xsk_cons_nb_avail: the cached producer is refreshed when nothing is left.
xsk_cons_nb_avail(r, nb) ==
  IF Wrap(r.cached_prod - r.cached_cons) = 0 THEN [r EXCEPT !.cached_prod = r.producer] ELSE r

xsk_ring_cons__peek(nb) ==
  LET r == xsk_cons_nb_avail(comp, nb)
      avail == Wrap(r.cached_prod - r.cached_cons)
      entries == IF avail > nb THEN nb ELSE avail
  IN /\ xr_cons.nb = 0
     /\ IF entries > 0
        THEN /\ xr_cons' = [idx |-> r.cached_cons, nb |-> entries, done |-> 0]
             /\ comp' = [r EXCEPT !.cached_cons = Wrap(@ + entries)]
             /\ UNCHANGED xr_failed
        ELSE /\ comp' = r
             /\ xr_failed' = [call |-> "peek", nb |-> nb, room |-> Wrap(comp.producer - comp.consumer)]
             /\ UNCHANGED xr_cons
     /\ UNCHANGED <<tx, xr_prod, xr_put, xr_got>>

\* xsk_ring_cons__comp_addr has the same mask.
ReadDesc ==
  /\ xr_cons.done < xr_cons.nb
  /\ xr_got' = Append(xr_got, comp.ring[xsk_ring_prod__tx_desc(Wrap(xr_cons.idx + xr_cons.done))])
  /\ xr_cons' = [xr_cons EXCEPT !.done = @ + 1]
  /\ UNCHANGED <<tx, comp, xr_prod, xr_put, xr_failed>>

xsk_ring_cons__release ==
  /\ xr_cons.nb > 0 /\ xr_cons.done = xr_cons.nb
  /\ comp' = [comp EXCEPT !.consumer = Wrap(@ + xr_cons.nb)]
  /\ xr_cons' = NoSlots
  /\ UNCHANGED <<tx, xr_prod, xr_put, xr_got, xr_failed>>

----------------------------------------------------------------------------
\* The kernel takes a submitted descriptor and, when there is room, hands it back.
KernelSends ==
  /\ tx.producer # tx.consumer
  /\ Wrap(comp.producer - comp.consumer) < RingSize
  /\ tx' = [tx EXCEPT !.consumer = Wrap(@ + 1)]
  /\ comp' = [comp EXCEPT !.ring[comp.producer % RingSize] = tx.ring[tx.consumer % RingSize],
                          !.producer = Wrap(@ + 1)]
  /\ UNCHANGED <<xr_prod, xr_cons, xr_put, xr_got, xr_failed>>

XrNext ==
  \/ \E nb \in 1 .. RingSize + 1 : xsk_ring_prod__reserve(nb) \/ xsk_ring_cons__peek(nb)
  \/ WriteDesc \/ xsk_ring_prod__submit
  \/ ReadDesc \/ xsk_ring_cons__release
  \/ KernelSends

XrSpec == XrInit /\ [][XrNext]_xrVars

----------------------------------------------------------------------------
DescQueue == INSTANCE SampleQueue WITH Ids <- 1 .. MaxDescs, put <- xr_put, got <- xr_got

\* Every descriptor the program writes comes back once, whole and in order, whatever the
\* counters' copies are and wherever they wrap: no reserved slot is one the kernel has not
\* read yet, and none is handed back before it was read.
DescsComeBack == DescQueue!Spec

\* A reserve that gives nothing had to: at the call there was no room for nb descriptors;
\* a peek that gives nothing had to: the ring was empty.  (No call fails because of a stale copy.)
FailuresAreReal ==
  CASE xr_failed.call = "reserve" -> xr_failed.room < xr_failed.nb
    [] xr_failed.call = "peek" -> xr_failed.room = 0
    [] OTHER -> TRUE

\* The rings serve the program: nothing is lost, and nothing refused without need.
RingServes == DescsComeBack /\ []FailuresAreReal
=============================================================================
