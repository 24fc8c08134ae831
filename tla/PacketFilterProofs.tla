------------------------- MODULE PacketFilterProofs -------------------------
(***************************************************************************)
(* For any number of CPUs, any packets and any writers of the lists: what  *)
(* the program's counters, samples and list lookups guarantee.             *)
(***************************************************************************)
EXTENDS PacketFilter, Arithmetic, FiniteSetTheorems, TLAPS

Counts == [Words -> Nat]

\* The type invariant of what the program and the list writers change, in
\* parts: the lists, the packet in work and its verdict, how far it has come,
\* and the counters.
ListsOK == white_list \subseteq Sources /\ black_list \subseteq Sources
PacketOK ==
  /\ pc \in [Cpus -> {"idle", "black", "count", "bytes", "output"}]
  /\ pkt \in [Cpus -> Packets \cup {NoPacket}]
  /\ action \in [Cpus -> Verdicts]
InWork == \A c \in Cpus : pc[c] # "idle" => pkt[c] \in Packets
DropsEnd == \A c \in Cpus : action[c] = "XDP_DROP" => pc[c] \in {"count", "bytes"}
CountersOK ==
  /\ xdp_stats_map \in [Cpus -> [Verdicts -> Counts]]
  /\ received \in [Cpus -> Nat]
  /\ judged \in [Cpus -> Nat]
  /\ sampled \in [Cpus -> Nat]
  /\ missed \in [Cpus -> Nat]

TypeInv == ListsOK /\ PacketOK /\ InWork /\ DropsEnd /\ CountersOK

\* A packet has a length and a source.
LEMMA PacketFields ==
  ASSUME NEW p \in Packets
  PROVE  p.len \in Nat /\ p.src \in Sources
BY FilterAssumption DEF PacketType, Sources

\* The program's verdict is one of its verdicts.
LEMMA VerdictIsOne == \A p : Verdict(p) \in Verdicts
BY DEF Verdict, Verdicts

\* A counter that goes up keeps the statistics what they are.
LEMMA StatsKept ==
  ASSUME NEW f \in [Cpus -> [Verdicts -> Counts]], NEW c \in Cpus, NEW v \in Verdicts,
         NEW n \in Nat
  PROVE  /\ [f EXCEPT ![c][v]["rx_packets"] = @ + n] \in [Cpus -> [Verdicts -> Counts]]
         /\ [f EXCEPT ![c][v]["rx_bytes"] = @ + n] \in [Cpus -> [Verdicts -> Counts]]
<1>1. f[c] \in [Verdicts -> Counts] /\ f[c][v] \in Counts
  OBVIOUS
<1>2. /\ [f[c][v] EXCEPT !["rx_packets"] = @ + n] \in Counts
      /\ [f[c][v] EXCEPT !["rx_bytes"] = @ + n] \in Counts
  BY <1>1 DEF Counts, Words
<1> DEFINE G(r) == [f[c] EXCEPT ![v] = r]
<1>3. \A r \in Counts : G(r) \in [Verdicts -> Counts]
  BY <1>1
<1>4. \A g \in [Verdicts -> Counts] : [f EXCEPT ![c] = g] \in [Cpus -> [Verdicts -> Counts]]
  OBVIOUS
<1>5. QED
  BY <1>2, <1>3, <1>4

\* The types of what the program and the list writers change.
THEOREM TypeInvHolds == Spec => []TypeInv
<1>1. Init => TypeInv
  BY DEF Init, TypeInv, ListsOK, PacketOK, InWork, DropsEnd, CountersOK, Counts, Zero, Words,
         Verdicts
<1>2. TypeInv /\ [Next]_vars => TypeInv'
  <2> SUFFICES ASSUME TypeInv, [Next]_vars PROVE TypeInv'
    OBVIOUS
  <2> USE DEF TypeInv
  <2>1. ASSUME NEW c \in Cpus, NEW p \in Packets, Receive(c, p) PROVE TypeInv'
    <3> USE <2>1 DEF Receive, lists, samples
    <3>1. ListsOK'
      BY DEF ListsOK
    <3>2. PacketOK'
      BY VerdictIsOne DEF PacketOK, Verdicts
    <3>3. InWork'
      BY DEF PacketOK, InWork
    <3>4. DropsEnd'
      BY DEF PacketOK, DropsEnd, Verdicts
    <3>5. CountersOK'
      <4>1. UNCHANGED <<xdp_stats_map, sampled, missed>>
        OBVIOUS
      <4>2. received' \in [Cpus -> Nat]
        BY DEF CountersOK
      <4>3. judged' \in [Cpus -> Nat]
        BY DEF CountersOK
      <4>4. QED
        BY <4>1, <4>2, <4>3 DEF CountersOK
    <3>6. QED
      BY <3>1, <3>2, <3>3, <3>4, <3>5
  <2>2. ASSUME NEW c \in Cpus, LookUp(c) PROVE TypeInv'
    <3> USE <2>2 DEF LookUp, Return, lists, samples
    <3>1. ListsOK'
      BY DEF ListsOK
    <3>2. PacketOK'
      BY VerdictIsOne DEF PacketOK, Verdicts
    <3>3. InWork'
      BY DEF PacketOK, InWork
    <3>4. DropsEnd'
      BY DEF PacketOK, DropsEnd, Verdicts
    <3>5. CountersOK'
      BY DEF CountersOK, Counts, Words, Verdicts
    <3>6. QED
      BY <3>1, <3>2, <3>3, <3>4, <3>5
  <2>3. ASSUME NEW c \in Cpus, Count(c) PROVE TypeInv'
    <3> USE <2>3 DEF Count, lists, samples
    <3>1. ListsOK'
      BY DEF ListsOK
    <3>2. PacketOK'
      BY DEF PacketOK, Verdicts
    <3>3. InWork'
      BY DEF PacketOK, InWork
    <3>4. DropsEnd'
      BY DEF PacketOK, DropsEnd, Verdicts
    <3>5. CountersOK'
      BY StatsKept DEF PacketOK, CountersOK
    <3>6. QED
      BY <3>1, <3>2, <3>3, <3>4, <3>5
  <2>4. ASSUME NEW c \in Cpus, AddBytes(c) PROVE TypeInv'
    <3> USE <2>4 DEF AddBytes, Return, lists, samples
    <3>1. ListsOK'
      BY DEF ListsOK
    <3>2. PacketOK'
      BY DEF PacketOK, Verdicts
    <3>3. InWork'
      BY DEF PacketOK, InWork
    <3>4. DropsEnd'
      BY DEF PacketOK, DropsEnd, Verdicts
    <3>5. CountersOK'
      <4>1. pkt[c].len \in Nat
        BY PacketFields DEF InWork
      <4>2. QED
        BY <4>1, StatsKept DEF PacketOK, CountersOK
    <3>6. QED
      BY <3>1, <3>2, <3>3, <3>4, <3>5
  <2>5. ASSUME NEW c \in Cpus, Output(c) PROVE TypeInv'
    <3> USE <2>5 DEF Output, Return, lists
    <3>1. ListsOK'
      BY DEF ListsOK
    <3>2. PacketOK'
      BY DEF PacketOK, Verdicts
    <3>3. InWork'
      BY DEF PacketOK, InWork
    <3>4. DropsEnd'
      BY DEF PacketOK, DropsEnd, Verdicts
    <3>5. CountersOK'
      <4>1. UNCHANGED <<xdp_stats_map, received, judged>>
        OBVIOUS
      <4>2. \A f \in [Cpus -> Nat] : [f EXCEPT ![c] = @ + 1] \in [Cpus -> Nat]
        OBVIOUS
      <4>3. sampled' \in [Cpus -> Nat] /\ missed' \in [Cpus -> Nat]
        BY <4>2, Zenon DEF CountersOK
      <4>4. QED
        BY <4>1, <4>3 DEF CountersOK
    <3>6. QED
      BY <3>1, <3>2, <3>3, <3>4, <3>5
  <2>6. ASSUME NEW s \in Sources, Allow(s) \/ Block(s) \/ Unblock(s) PROVE TypeInv'
    BY <2>6 DEF Allow, Block, Unblock, cpu, samples, ListsOK, PacketOK, InWork, DropsEnd,
               CountersOK
  <2>7. ASSUME NEW c \in Cpus, NEW w \in Words, ReadCpu(c, w) PROVE TypeInv'
    BY <2>7 DEF ReadCpu, lists, cpu, samples, ListsOK, PacketOK, InWork, DropsEnd, CountersOK
  <2>8. CASE EndRead
    BY <2>8 DEF EndRead, lists, cpu, samples, ListsOK, PacketOK, InWork, DropsEnd, CountersOK
  <2>9. CASE UNCHANGED vars
    BY <2>9 DEF vars, lists, cpu, samples, ListsOK, PacketOK, InWork, DropsEnd, CountersOK
  <2>10. QED
    BY <2>1, <2>2, <2>3, <2>4, <2>5, <2>6, <2>7, <2>8, <2>9 DEF Next, Program
<1>3. QED
  BY <1>1, <1>2, PTL DEF Spec

-----------------------------------------------------------------------------

\* No packet is lost and none is counted twice: the invariant needs only the
\* types.
THEOREM PacketsAreCountedOnce == Spec => []EveryPacketOnce
<1>1. Init => EveryPacketOnce
  BY DEF Init, EveryPacketOnce, Zero, Words, Verdicts
<1>2. TypeInv /\ EveryPacketOnce /\ [Next]_vars => EveryPacketOnce'
  <2> SUFFICES ASSUME TypeInv, EveryPacketOnce, [Next]_vars PROVE EveryPacketOnce'
    OBVIOUS
  <2> USE DEF TypeInv, PacketOK, DropsEnd, CountersOK, EveryPacketOnce, Verdicts, Counts, Words
  <2>1. ASSUME NEW c \in Cpus, NEW p \in Packets, Receive(c, p) PROVE EveryPacketOnce'
    BY <2>1 DEF Receive
  <2>2. ASSUME NEW c \in Cpus, LookUp(c) PROVE EveryPacketOnce'
    <3>1. CASE pkt[c].src \in black_list
      BY <2>2, <3>1, SMTT(30) DEF LookUp, Return
    <3>2. CASE pkt[c].src \notin black_list
      BY <2>2, <3>2 DEF LookUp
    <3>3. QED
      BY <3>1, <3>2
  <2>3. ASSUME NEW c \in Cpus, Count(c) PROVE EveryPacketOnce'
    BY <2>3 DEF Count
  <2>4. ASSUME NEW c \in Cpus, AddBytes(c) PROVE EveryPacketOnce'
    BY <2>4 DEF AddBytes, Return
  <2>5. ASSUME NEW c \in Cpus, Output(c) PROVE EveryPacketOnce'
    BY <2>5 DEF Output, Return
  <2>6. ASSUME NEW s \in Sources, Allow(s) \/ Block(s) \/ Unblock(s) PROVE EveryPacketOnce'
    BY <2>6 DEF Allow, Block, Unblock, cpu
  <2>7. ASSUME NEW c \in Cpus, NEW w \in Words, ReadCpu(c, w) PROVE EveryPacketOnce'
    BY <2>7 DEF ReadCpu, cpu
  <2>8. CASE EndRead
    BY <2>8 DEF EndRead, cpu
  <2>9. CASE UNCHANGED vars
    BY <2>9 DEF vars, cpu
  <2>10. QED
    BY <2>1, <2>2, <2>3, <2>4, <2>5, <2>6, <2>7, <2>8, <2>9 DEF Next, Program
<1>3. QED
  BY <1>1, <1>2, TypeInvHolds, PTL DEF Spec

-----------------------------------------------------------------------------

\* The packets that xdp_stats shows as passed are those whose sample start_policy was sent,
\* those whose sample the kernel could not deliver, and those under way; the types are again
\* all that is needed.
THEOREM SamplesAreThePasses == Spec => []SamplesArePasses
<1>1. Init => SamplesArePasses
  BY DEF Init, SamplesArePasses, Zero, Words, Verdicts
<1>2. TypeInv /\ SamplesArePasses /\ [Next]_vars => SamplesArePasses'
  <2> SUFFICES ASSUME TypeInv, SamplesArePasses, [Next]_vars PROVE SamplesArePasses'
    OBVIOUS
  <2> USE DEF samples, TypeInv, PacketOK, DropsEnd, CountersOK, SamplesArePasses, Verdicts, Counts, Words
  <2>1. ASSUME NEW c \in Cpus, NEW p \in Packets, Receive(c, p) PROVE SamplesArePasses'
    BY <2>1, ZenonT(60) DEF Receive
  <2>2. ASSUME NEW c \in Cpus, LookUp(c) PROVE SamplesArePasses'
    <3>1. CASE pkt[c].src \in black_list
      BY <2>2, <3>1 DEF LookUp, Return
    <3>2. CASE pkt[c].src \notin black_list
      BY <2>2, <3>2 DEF LookUp
    <3>3. QED
      BY <3>1, <3>2
  <2>3. ASSUME NEW c \in Cpus, Count(c) PROVE SamplesArePasses'
    BY <2>3 DEF Count
  <2>4. ASSUME NEW c \in Cpus, AddBytes(c) PROVE SamplesArePasses'
    BY <2>4 DEF AddBytes, Return
  <2>5. ASSUME NEW c \in Cpus, Output(c) PROVE SamplesArePasses'
    BY <2>5 DEF Output, Return
  <2>6. ASSUME NEW s \in Sources, Allow(s) \/ Block(s) \/ Unblock(s) PROVE SamplesArePasses'
    BY <2>6 DEF Allow, Block, Unblock, cpu
  <2>7. ASSUME NEW c \in Cpus, NEW w \in Words, ReadCpu(c, w) PROVE SamplesArePasses'
    BY <2>7 DEF ReadCpu, cpu
  <2>8. CASE EndRead
    BY <2>8 DEF EndRead, cpu
  <2>9. CASE UNCHANGED vars
    BY <2>9 DEF vars, cpu
  <2>10. QED
    BY <2>1, <2>2, <2>3, <2>4, <2>5, <2>6, <2>7, <2>8, <2>9 DEF Next, Program
<1>3. QED
  BY <1>1, <1>2, TypeInvHolds, PTL DEF Spec

-----------------------------------------------------------------------------
(* How much of a source still passes after its block.  The samples alone   *)
(* say nothing of the packets that are past the look-up and not yet out:   *)
(* the inductive invariant counts both.                                    *)

InFlight(s) ==
  {c \in Cpus : /\ pc[c] \in {"count", "bytes", "output"}
                /\ ~ Unlisted(pkt[c])
                /\ pkt[c].src = s}

LeakInv ==
  /\ leaked \in [Sources -> Nat]
  /\ \A s \in black_list : leaked[s] + Cardinality(InFlight(s)) <= Cardinality(Cpus)

\* No more packets of a source are in flight than there are CPUs.
LEMMA InFlightFits ==
  \A s : /\ IsFiniteSet(InFlight(s))
         /\ Cardinality(InFlight(s)) \in Nat
         /\ Cardinality(Cpus) \in Nat
         /\ Cardinality(InFlight(s)) <= Cardinality(Cpus)
BY FilterAssumption, FS_Subset, FS_CardinalityType DEF InFlight

\* A step that starts no packet and samples none keeps the invariant.
LEMMA LeakKept ==
  ASSUME ListsOK, LeakInv, leaked' = leaked, black_list' \subseteq black_list,
         \A s \in black_list' : InFlight(s)' \subseteq InFlight(s)
  PROVE  LeakInv'
<1>1. ASSUME NEW s \in black_list'
      PROVE  leaked[s] + Cardinality(InFlight(s)') <= Cardinality(Cpus)
  <2>1. leaked[s] + Cardinality(InFlight(s)) <= Cardinality(Cpus) /\ leaked[s] \in Nat
    BY DEF LeakInv, ListsOK
  <2>2. /\ Cardinality(InFlight(s)') <= Cardinality(InFlight(s))
        /\ Cardinality(InFlight(s)') \in Nat
    BY InFlightFits, FS_Subset, FS_CardinalityType
  <2>3. QED
    BY <2>1, <2>2, InFlightFits
<1>2. QED
  BY <1>1 DEF LeakInv

\* At every step the samples and the packets still in flight are few.
THEOREM LeakInvHolds == Spec => []LeakInv
<1>1. Init => LeakInv
  BY DEF Init, LeakInv
<1>2. TypeInv /\ LeakInv /\ [Next]_vars => LeakInv'
  <2> SUFFICES ASSUME TypeInv, LeakInv, [Next]_vars PROVE LeakInv'
    OBVIOUS
  <2> USE DEF TypeInv
  <2>1. ASSUME NEW c \in Cpus, NEW p \in Packets, Receive(c, p) PROVE LeakInv'
    BY <2>1, LeakKept DEF Receive, lists, PacketOK, InFlight
  <2>2. ASSUME NEW c \in Cpus, LookUp(c) PROVE LeakInv'
    <3>1. \A s \in black_list : InFlight(s)' \subseteq InFlight(s)
      BY <2>2 DEF LookUp, Return, PacketOK, InFlight
    <3>2. QED
      BY <2>2, <3>1, LeakKept DEF LookUp, lists
  <2>3. ASSUME NEW c \in Cpus, Count(c) PROVE LeakInv'
    BY <2>3, LeakKept DEF Count, lists, PacketOK, InFlight
  <2>4. ASSUME NEW c \in Cpus, AddBytes(c) PROVE LeakInv'
    BY <2>4, LeakKept DEF AddBytes, Return, lists, PacketOK, InFlight
  <2>5. ASSUME NEW c \in Cpus, Output(c) PROVE LeakInv'
    <3>1. black_list' = black_list
      BY <2>5 DEF Output, lists
    <3>2. leaked' \in [Sources -> Nat]
      <4>1. \A s \in Sources : leaked[s] + 1 \in Nat
        BY DEF LeakInv
      <4>2. CASE leaked' = leaked
        BY <4>2 DEF LeakInv
      <4>3. CASE leaked' = [leaked EXCEPT ![pkt[c].src] = leaked[pkt[c].src] + 1]
                 /\ pkt[c].src \in black_list
        BY <4>1, <4>3 DEF LeakInv, ListsOK
      <4>4. QED
        BY <2>5, <4>2, <4>3 DEF Output
    <3>3. ASSUME NEW s \in black_list
          PROVE  leaked'[s] + Cardinality(InFlight(s)') <= Cardinality(Cpus)
      <4>1. leaked[s] \in Nat /\ leaked[s] + Cardinality(InFlight(s)) <= Cardinality(Cpus)
        BY DEF LeakInv, ListsOK
      <4>2. CASE c \in InFlight(s)
        <5>1. InFlight(s)' = InFlight(s) \ {c}
          BY <2>5 DEF Output, Return, PacketOK, InFlight
        <5>2. Cardinality(InFlight(s)') = Cardinality(InFlight(s)) - 1
          BY <4>2, <5>1, InFlightFits, FS_RemoveElement
        <5>3. leaked'[s] = leaked[s] + 1
          BY <2>5, <4>2 DEF Output, InFlight, LeakInv, ListsOK
        <5>4. QED
          BY <4>1, <5>2, <5>3, InFlightFits
      <4>3. CASE c \notin InFlight(s)
        <5>1. InFlight(s)' = InFlight(s)
          BY <2>5, <4>3 DEF Output, Return, PacketOK, InFlight
        <5>2. leaked'[s] = leaked[s]
          BY <2>5, <4>3 DEF Output, InFlight, LeakInv, ListsOK
        <5>3. QED
          BY <4>1, <5>1, <5>2
      <4>4. QED
        BY <4>2, <4>3
    <3>4. QED
      BY <3>1, <3>2, <3>3 DEF LeakInv
  <2>6. ASSUME NEW r \in Sources, Block(r) PROVE LeakInv'
    <3>1. \A s : InFlight(s)' = InFlight(s)
      BY <2>6 DEF Block, cpu, InFlight
    <3>2. leaked' = [leaked EXCEPT ![r] = 0] /\ black_list' = black_list \cup {r}
      BY <2>6 DEF Block
    <3>3. \A s \in black_list' : leaked'[s] + Cardinality(InFlight(s)) <= Cardinality(Cpus)
      BY <3>2, InFlightFits DEF LeakInv, ListsOK
    <3>4. QED
      BY <3>1, <3>2, <3>3 DEF LeakInv
  <2>7. ASSUME NEW r \in Sources, Unblock(r) PROVE LeakInv'
    <3>1. \A s : InFlight(s)' = InFlight(s)
      BY <2>7 DEF Unblock, cpu, InFlight
    <3>2. leaked' = [leaked EXCEPT ![r] = 0] /\ black_list' = black_list \ {r}
      BY <2>7 DEF Unblock
    <3>3. QED
      BY <3>1, <3>2 DEF LeakInv
  <2>8. ASSUME NEW r \in Sources, Allow(r) PROVE LeakInv'
    BY <2>8, LeakKept DEF Allow, cpu, InFlight
  <2>9. ASSUME NEW c \in Cpus, NEW w \in Words, ReadCpu(c, w) PROVE LeakInv'
    BY <2>9, LeakKept DEF ReadCpu, lists, cpu, InFlight
  <2>10. CASE EndRead
    BY <2>10, LeakKept DEF EndRead, lists, cpu, InFlight
  <2>11. CASE UNCHANGED vars
    BY <2>11, LeakKept DEF vars, lists, cpu, InFlight
  <2>12. QED
    BY <2>1, <2>2, <2>3, <2>4, <2>5, <2>6, <2>7, <2>8, <2>9, <2>10, <2>11 DEF Next, Program
<1>3. QED
  BY <1>1, <1>2, TypeInvHolds, PTL DEF Spec

\* A source that is black-listed gets at most one more packet through for each CPU, whatever the
\* CPUs had under way.
THEOREM BlocksLeakLittle == Spec => []BlockLeaksLittle
<1>1. TypeInv /\ LeakInv => BlockLeaksLittle
  BY InFlightFits DEF TypeInv, ListsOK, LeakInv, BlockLeaksLittle
<1>2. QED
  BY <1>1, TypeInvHolds, LeakInvHolds, PTL

-----------------------------------------------------------------------------
(* Sums over the CPUs: what FoldFunction(+, 0, f) is, in whatever order it *)
(* takes them.                                                             *)

Sum(f) == FoldFunction(+, 0, f)

\* The element that a sum over s takes first.
First(s) == CHOOSE x \in s : TRUE
\* The sums over the subsets of S, as FoldFunction builds them.
Adds(g, f, S) ==
  /\ g \in [SUBSET S -> Nat] /\ g[{}] = 0
  /\ \A s \in SUBSET S : s # {} => g[s] = f[First(s)] + g[s \ {First(s)}]

\* Induction over the subsets of a finite set, an element at a time.
LEMMA SubsetInduction ==
  ASSUME NEW S, IsFiniteSet(S), NEW K \in SUBSET (SUBSET S), {} \in K,
         \A s \in SUBSET S : s # {} /\ s \ {First(s)} \in K => s \in K
  PROVE  K = SUBSET S
  <1>. DEFINE T == {n \in Nat : \A s \in SUBSET S : Cardinality(s) = n => s \in K}
  <1>1. \A s \in SUBSET S : IsFiniteSet(s) /\ Cardinality(s) \in Nat
    BY FS_Subset, FS_CardinalityType
  <1>2. 0 \in T
    BY <1>1, FS_EmptySet
  <1>3. \A n \in T : n + 1 \in T
    <2>. SUFFICES ASSUME NEW n \in T, NEW s \in SUBSET S, Cardinality(s) = n + 1 PROVE s \in K
      OBVIOUS
    <2>1. s # {}
      <3>1. Cardinality(s) # 0
        OBVIOUS
      <3>2. Cardinality({}) = 0
        BY FS_EmptySet
      <3>. QED BY <3>1, <3>2
    <2>2. First(s) \in s
      BY <2>1 DEF First
    <2>3. Cardinality(s \ {First(s)}) = n
      BY <1>1, <2>2, FS_RemoveElement
    <2>. QED BY <2>1, <2>3
  <1>4. T = Nat
    <2>. HIDE DEF T
    <2>1. T \in SUBSET Nat
      BY DEF T
    <2>. QED BY <1>2, <1>3, <2>1, SetInduction
  <1>. QED BY <1>1, <1>4

\* The sums over the subsets can be had: a subset of n elements at a time.
LEMMA SumsExist ==
  ASSUME NEW S, IsFiniteSet(S), NEW f \in [S -> Nat]
  PROVE  \E g : Adds(g, f, S)
  <1>. DEFINE Up(g, n) == /\ g \in [SUBSET S -> Nat] /\ g[{}] = 0
                          /\ \A s \in SUBSET S : s # {} /\ Cardinality(s) <= n
                                                   => g[s] = f[First(s)] + g[s \ {First(s)}]
              T == {n \in Nat : \E g : Up(g, n)}
  <1>1. \A s \in SUBSET S : IsFiniteSet(s) /\ Cardinality(s) \in Nat
    BY FS_Subset, FS_CardinalityType
  <1>2. \A s \in SUBSET S : s # {} => First(s) \in s
    BY DEF First
  <1>3. 0 \in T
    <2>1. Up([s \in SUBSET S |-> 0], 0)
      BY <1>1, FS_EmptySet
    <2>. QED BY <2>1
  <1>4. \A n \in T : n + 1 \in T
    <2>. SUFFICES ASSUME NEW n \in T PROVE n + 1 \in T
      OBVIOUS
    <2>. PICK g : Up(g, n)
      OBVIOUS
    <2>. DEFINE h == [s \in SUBSET S |-> IF s = {} THEN 0 ELSE f[First(s)] + g[s \ {First(s)}]]
    <2>1. h \in [SUBSET S -> Nat] /\ h[{}] = 0
      BY <1>2
    <2>2. ASSUME NEW s \in SUBSET S, Cardinality(s) <= n PROVE h[s] = g[s]
      BY <2>2
    <2>3. ASSUME NEW s \in SUBSET S, s # {}, Cardinality(s) <= n + 1
          PROVE  h[s] = f[First(s)] + h[s \ {First(s)}]
      <3>1. Cardinality(s \ {First(s)}) = Cardinality(s) - 1
        BY <1>1, <1>2, <2>3, FS_RemoveElement
      <3>2. Cardinality(s \ {First(s)}) <= n
        BY <1>1, <2>3, <3>1
      <3>3. h[s \ {First(s)}] = g[s \ {First(s)}]
        BY <2>2, <3>2
      <3>. QED BY <2>3, <3>3
    <2>4. Up(h, n + 1)
      <3>. HIDE DEF h
      <3>. QED BY <2>1, <2>3
    <2>. HIDE DEF Up, h
    <2>. QED BY <2>4
  <1>5. T = Nat
    <2>. HIDE DEF T
    <2>1. T \in SUBSET Nat
      BY DEF T
    <2>. QED BY <1>3, <1>4, <2>1, SetInduction
  <1>6. Cardinality(S) \in T
    BY <1>1, <1>5
  <1>. PICK g : Up(g, Cardinality(S))
    BY <1>6
  <1>7. \A s \in SUBSET S : Cardinality(s) <= Cardinality(S)
    BY FS_Subset
  <1>. QED BY <1>7 DEF Adds

\* FoldFunction's sum is one of those: the function it defines by recursion exists.
LEMMA SumUnfolds ==
  ASSUME NEW S, IsFiniteSet(S), NEW f \in [S -> Nat]
  PROVE  \E g : Adds(g, f, S) /\ Sum(f) = g[S]
  <1>. DEFINE Rule(h) == h = [s \in SUBSET S |-> IF s = {} THEN 0 ELSE f[First(s)] + h[s \ {First(s)}]]
              g == CHOOSE h : Rule(h)
  <1>1. Sum(f) = g[S]
    BY DEF Sum, FoldFunction, FoldFunctionOnSet, MapThenFoldSet, First
  <1>2. \E h : Rule(h)
    <2>. PICK h : Adds(h, f, S)
      BY SumsExist
    <2>1. Rule(h)
      BY DEF Adds
    <2>. QED BY <2>1
  <1>3. Rule(g)
    BY <1>2
  <1>. HIDE DEF g
  <1>4. g[{}] = 0 /\ \A s \in SUBSET S : s # {} => g[s] = f[First(s)] + g[s \ {First(s)}]
    BY <1>3
  <1>5. DOMAIN g = SUBSET S /\ g = [s \in SUBSET S |-> g[s]]
    BY <1>3
  <1>6. \A s \in SUBSET S : s # {} => First(s) \in s
    BY DEF First
  <1>. DEFINE K == {s \in SUBSET S : g[s] \in Nat}
  <1>7. K = SUBSET S
    <2>1. {} \in K /\ K \in SUBSET (SUBSET S)
      BY <1>4
    <2>2. \A s \in SUBSET S : s # {} /\ s \ {First(s)} \in K => s \in K
      BY <1>4, <1>6
    <2>. HIDE DEF K
    <2>. QED BY <2>1, <2>2, SubsetInduction
  <1>8. Adds(g, f, S)
    BY <1>4, <1>5, <1>7 DEF Adds
  <1>. QED BY <1>1, <1>8

\* Sums of numbers are numbers, ...
LEMMA SumIsNat ==
  ASSUME NEW S, IsFiniteSet(S), NEW f \in [S -> Nat]
  PROVE  Sum(f) \in Nat
  <1>. PICK g : Adds(g, f, S) /\ Sum(f) = g[S]
    BY SumUnfolds
  <1>. QED BY DEF Adds

\* ... of zeros zero, ...
LEMMA SumOfZeros ==
  ASSUME NEW S, IsFiniteSet(S), NEW f \in [S -> Nat], \A c \in S : f[c] = 0
  PROVE  Sum(f) = 0
  <1>. PICK g : Adds(g, f, S) /\ Sum(f) = g[S]
    BY SumUnfolds
  <1>. DEFINE K == {s \in SUBSET S : g[s] = 0}
  <1>1. \A s \in SUBSET S : s # {} => First(s) \in s
    BY DEF First
  <1>2. {} \in K /\ K \in SUBSET (SUBSET S)
    BY DEF Adds
  <1>3. \A s \in SUBSET S : s # {} /\ s \ {First(s)} \in K => s \in K
    BY <1>1 DEF Adds
  <1>4. K = SUBSET S
    <2>. HIDE DEF K
    <2>. QED BY <1>2, <1>3, SubsetInduction
  <1>. QED BY <1>4

\* ... no larger where the terms are no larger, ...
LEMMA SumAtMost ==
  ASSUME NEW S, IsFiniteSet(S), NEW f \in [S -> Nat], NEW e \in [S -> Nat],
         \A c \in S : f[c] <= e[c]
  PROVE  Sum(f) <= Sum(e)
  <1>. PICK g : Adds(g, f, S) /\ Sum(f) = g[S]
    BY SumUnfolds
  <1>. PICK h : Adds(h, e, S) /\ Sum(e) = h[S]
    BY SumUnfolds
  <1>. DEFINE K == {s \in SUBSET S : g[s] <= h[s]}
  <1>1. \A s \in SUBSET S : s # {} => First(s) \in s
    BY DEF First
  <1>2. {} \in K /\ K \in SUBSET (SUBSET S)
    BY DEF Adds
  <1>3. ASSUME NEW s \in SUBSET S, s # {}, s \ {First(s)} \in K PROVE s \in K
    <2>. PICK x \in S : x = First(s)
      BY <1>1, <1>3
    <2>1. g[s] = f[x] + g[s \ {x}] /\ h[s] = e[x] + h[s \ {x}]
      BY <1>3 DEF Adds
    <2>2. g[s \ {x}] \in Nat /\ h[s \ {x}] \in Nat /\ f[x] \in Nat /\ e[x] \in Nat
      BY DEF Adds
    <2>3. g[s \ {x}] <= h[s \ {x}] /\ f[x] <= e[x]
      BY <1>3
    <2>4. g[s] <= h[s]
      BY ONLY <2>1, <2>2, <2>3
    <2>. QED BY <2>4
  <1>4. K = SUBSET S
    <2>. HIDE DEF K
    <2>. QED BY <1>2, <1>3, SubsetInduction
  <1>. QED BY <1>4

\* ... and go up by what one term goes up.
LEMMA SumAtPoint ==
  ASSUME NEW S, IsFiniteSet(S), NEW f \in [S -> Nat], NEW e \in [S -> Nat],
         NEW c \in S, NEW d \in Nat, e[c] = f[c] + d, \A x \in S : x # c => e[x] = f[x]
  PROVE  Sum(e) = Sum(f) + d
  <1>. PICK g : Adds(g, f, S) /\ Sum(f) = g[S]
    BY SumUnfolds
  <1>. PICK h : Adds(h, e, S) /\ Sum(e) = h[S]
    BY SumUnfolds
  <1>. DEFINE K == {s \in SUBSET S : h[s] = g[s] + (IF c \in s THEN d ELSE 0)}
  <1>1. \A s \in SUBSET S : s # {} => First(s) \in s
    BY DEF First
  <1>2. {} \in K /\ K \in SUBSET (SUBSET S)
    BY DEF Adds
  <1>3. ASSUME NEW s \in SUBSET S, s # {}, s \ {First(s)} \in K PROVE s \in K
    <2>. PICK x \in S : x = First(s) /\ x \in s
      BY <1>1, <1>3
    <2>1. g[s] = f[x] + g[s \ {x}] /\ h[s] = e[x] + h[s \ {x}]
      BY <1>3 DEF Adds
    <2>2. g[s \ {x}] \in Nat /\ h[s \ {x}] \in Nat /\ f[x] \in Nat /\ e[x] \in Nat
      BY DEF Adds
    <2>3. h[s \ {x}] = g[s \ {x}] + (IF c \in s \ {x} THEN d ELSE 0)
      BY <1>3
    <2>4. CASE x = c
      BY <2>1, <2>2, <2>3, <2>4
    <2>5. CASE x # c
      BY <2>1, <2>2, <2>3, <2>5
    <2>. QED BY <2>4, <2>5
  <1>4. K = SUBSET S
    <2>. HIDE DEF K
    <2>. QED BY <1>2, <1>3, SubsetInduction
  <1>. QED BY <1>4

-----------------------------------------------------------------------------
(* The totals of xdp_stats.  What the reader has copied no longer says     *)
(* which CPU had how much: the invariant says that there is a way to share *)
(* each sum out among the CPUs.                                            *)

Shares == [Words -> [Cpus -> Nat]]

ReaderOK ==
  /\ key \in Verdicts /\ todo \subseteq Cpus \X Words
  /\ record \in [Verdicts -> Counts] /\ sum \in Counts /\ floor \in Counts

\* The floor is the total of lo, the sum of got, and the records of rec.  A word that was
\* copied is between what it was when the reading began, or when it was last read, and what
\* it is now.
SharedOut(lo, got, rec) ==
  /\ lo \in Shares /\ got \in Shares /\ rec \in [Verdicts -> Shares]
  /\ \A w \in Words : floor[w] = Sum(lo[w]) /\ sum[w] = Sum(got[w])
  /\ \A v \in Verdicts : \A w \in Words : record[v][w] = Sum(rec[v][w])
Copied(lo, got, rec) ==
  \A c \in Cpus : \A w \in Words :
    IF <<c, w>> \in todo
    THEN got[w][c] = 0 /\ lo[w][c] <= xdp_stats_map[c][key][w]
    ELSE lo[w][c] <= got[w][c] /\ rec[key][w][c] <= got[w][c]
         /\ got[w][c] <= xdp_stats_map[c][key][w]
Recorded(rec) ==
  \A c \in Cpus : \A v \in Verdicts : \A w \in Words : rec[v][w][c] <= xdp_stats_map[c][v][w]

Unread == todo = Cpus \X Words => floor = Zero
ReadInv ==
  /\ ReaderOK /\ Unread
  /\ \E lo, got, rec : SharedOut(lo, got, rec) /\ Copied(lo, got, rec) /\ Recorded(rec)

NoShares == [w \in Words |-> [c \in Cpus |-> 0]]

\* Counters of which no CPU has a share add up to zero.
LEMMA NoSharesAddUp == NoShares \in Shares /\ \A w \in Words : Sum(NoShares[w]) = 0 /\ Zero[w] = 0
<1>1. \A w \in Words : NoShares[w] \in [Cpus -> Nat] /\ \A c \in Cpus : NoShares[w][c] = 0
  BY DEF NoShares
<1>2. \A w \in Words : Sum(NoShares[w]) = 0
  BY <1>1, SumOfZeros, FilterAssumption
<1>3. QED
  BY <1>2 DEF NoShares, Shares, Zero

\* A step of the program only adds to the words: what was copied stays copied.
LEMMA CopiesKept ==
  ASSUME ReadInv, UNCHANGED reader,
         \A c \in Cpus : \A v \in Verdicts : \A w \in Words :
           /\ xdp_stats_map[c][v][w] \in Nat /\ xdp_stats_map'[c][v][w] \in Nat
           /\ xdp_stats_map[c][v][w] <= xdp_stats_map'[c][v][w]
  PROVE  ReadInv'
<1>1. ReaderOK' /\ Unread'
  BY DEF ReadInv, ReaderOK, Unread, reader
<1>2. PICK lo, got, rec : SharedOut(lo, got, rec) /\ Copied(lo, got, rec) /\ Recorded(rec)
  BY DEF ReadInv
<1>3. SharedOut(lo, got, rec)'
  BY <1>2 DEF SharedOut, reader
<1>4. \A c \in Cpus : \A w \in Words : got[w][c] \in Nat /\ lo[w][c] \in Nat
  BY <1>2 DEF SharedOut, Shares
<1>5. \A v \in Verdicts : \A c \in Cpus : \A w \in Words : rec[v][w][c] \in Nat
  BY <1>2 DEF SharedOut, Shares
<1>6. Copied(lo, got, rec)'
  <2>1. SUFFICES ASSUME NEW c \in Cpus, NEW w \in Words
                 PROVE  IF <<c, w>> \in todo
                        THEN got[w][c] = 0 /\ lo[w][c] <= xdp_stats_map'[c][key][w]
                        ELSE lo[w][c] <= got[w][c] /\ rec[key][w][c] <= got[w][c]
                             /\ got[w][c] <= xdp_stats_map'[c][key][w]
    BY DEF Copied, reader
  <2>2. key \in Verdicts
    BY DEF ReadInv, ReaderOK
  <2>3. xdp_stats_map[c][key][w] <= xdp_stats_map'[c][key][w]
        /\ xdp_stats_map[c][key][w] \in Nat /\ xdp_stats_map'[c][key][w] \in Nat
    BY <2>2
  <2>4. IF <<c, w>> \in todo
        THEN got[w][c] = 0 /\ lo[w][c] <= xdp_stats_map[c][key][w]
        ELSE lo[w][c] <= got[w][c] /\ rec[key][w][c] <= got[w][c]
             /\ got[w][c] <= xdp_stats_map[c][key][w]
    BY <1>2 DEF Copied
  <2>5. QED
    BY <1>4, <2>3, <2>4
<1>7. Recorded(rec)'
  BY <1>2, <1>5 DEF Recorded
<1>8. QED
  BY <1>1, <1>3, <1>6, <1>7 DEF ReadInv

\* A word of a CPU is copied: it joins the sum, and with the first one the floor is laid.
LEMMA ReadCpuKeeps ==
  ASSUME TypeInv, ReadInv, NEW c \in Cpus, NEW w \in Words, ReadCpu(c, w)
  PROVE  ReadInv'
<1>1. PICK lo, got, rec : SharedOut(lo, got, rec) /\ Copied(lo, got, rec) /\ Recorded(rec)
  BY DEF ReadInv
<1>2. key \in Verdicts /\ todo \subseteq Cpus \X Words /\ <<c, w>> \in todo
  BY DEF ReadInv, ReaderOK, ReadCpu, IsNext
<1>3. \A a \in Cpus : \A b \in Words : xdp_stats_map[a][key][b] \in Nat
  BY <1>2 DEF TypeInv, CountersOK, Counts
<1> DEFINE now == [b \in Words |-> [a \in Cpus |-> xdp_stats_map[a][key][b]]]
           all == todo = Cpus \X Words
<1>4. PICK low : low = IF all THEN now ELSE lo
  OBVIOUS
<1>5. PICK n \in Nat : n = xdp_stats_map[c][key][w]
  BY <1>3
<1>6. PICK new : new = [got EXCEPT ![w][c] = n]
  OBVIOUS
<1>7. lo \in Shares /\ got \in Shares /\ rec \in [Verdicts -> Shares] /\ now \in Shares
  BY <1>1, <1>3 DEF SharedOut, Shares
<1>8. low \in Shares /\ new \in Shares
  BY <1>4, <1>6, <1>7 DEF Shares
<1>9. UNCHANGED <<key, record, xdp_stats_map>> /\ todo' = todo \ {<<c, w>>}
      /\ sum' = [sum EXCEPT ![w] = @ + n]
      /\ floor' = IF all THEN Total(key) ELSE floor
  BY <1>5 DEF ReadCpu
<1>10. got[w][c] = 0
  BY <1>1, <1>2 DEF Copied
<1>11. Sum(new[w]) = Sum(got[w]) + n /\ \A b \in Words : b # w => new[b] = got[b]
  <2>1. got[w] \in [Cpus -> Nat] /\ new[w] \in [Cpus -> Nat]
    BY <1>7, <1>8 DEF Shares
  <2>2. new[w][c] = got[w][c] + n /\ \A x \in Cpus : x # c => new[w][x] = got[w][x]
    BY <1>6, <1>7, <1>10 DEF Shares
  <2>3. Sum(new[w]) = Sum(got[w]) + n
    BY <2>1, <2>2, SumAtPoint, FilterAssumption
  <2>4. QED
    BY <1>6, <1>7, <2>3 DEF Shares
<1>12. \A b \in Words : floor'[b] = Sum(low[b])
  <2>1. CASE all
    <3>1. \A b \in Words : floor'[b] = Sum([a \in Cpus |-> xdp_stats_map[a][key][b]])
      BY <1>9, <2>1 DEF Total, Sum
    <3>2. QED
      BY <1>4, <2>1, <3>1
  <2>2. CASE ~ all
    BY <1>1, <1>4, <1>9, <2>2 DEF SharedOut
  <2>3. QED
    BY <2>1, <2>2
<1>13. \A b \in Words : sum'[b] = Sum(new[b])
  BY <1>1, <1>9, <1>11 DEF SharedOut, ReadInv, ReaderOK, Counts
<1>14. SharedOut(low, new, rec)'
  BY <1>1, <1>7, <1>8, <1>9, <1>12, <1>13 DEF SharedOut
<1>15. Recorded(rec)'
  BY <1>1, <1>9 DEF Recorded
<1>16. Copied(low, new, rec)'
  <2>1. SUFFICES ASSUME NEW a \in Cpus, NEW b \in Words
                 PROVE  IF <<a, b>> \in todo \ {<<c, w>>}
                        THEN new[b][a] = 0 /\ low[b][a] <= xdp_stats_map[a][key][b]
                        ELSE low[b][a] <= new[b][a] /\ rec[key][b][a] <= new[b][a]
                             /\ new[b][a] <= xdp_stats_map[a][key][b]
    BY <1>9 DEF Copied
  <2>2. now[b][a] = xdp_stats_map[a][key][b] /\ xdp_stats_map[a][key][b] \in Nat
    BY <1>3
  <2>3. low[b][a] = (IF all THEN xdp_stats_map[a][key][b] ELSE lo[b][a])
        /\ lo[b][a] \in Nat
    BY <1>4, <1>7, <2>2 DEF Shares
  <2>4. rec[key][b][a] <= xdp_stats_map[a][key][b]
    BY <1>1, <1>2 DEF Recorded
  <2>5. IF <<a, b>> \in todo
        THEN got[b][a] = 0 /\ lo[b][a] <= xdp_stats_map[a][key][b]
        ELSE lo[b][a] <= got[b][a] /\ rec[key][b][a] <= got[b][a]
             /\ got[b][a] <= xdp_stats_map[a][key][b]
    BY <1>1 DEF Copied
  <2>6. CASE a = c /\ b = w
    <3>1. new[b][a] = xdp_stats_map[a][key][b]
      BY <1>5, <1>6, <1>7, <2>6 DEF Shares
    <3>2. low[b][a] <= xdp_stats_map[a][key][b]
      BY <1>2, <2>2, <2>3, <2>5, <2>6
    <3>3. QED
      BY <2>2, <2>4, <2>6, <3>1, <3>2
  <2>7. CASE ~ (a = c /\ b = w)
    <3>1. new[b][a] = got[b][a]
      BY <1>6, <1>7, <2>7 DEF Shares
    <3>2. <<a, b>> # <<c, w>>
      BY <2>7
    <3>3. <<a, b>> \notin todo => ~ all
      OBVIOUS
    <3>4. QED
      BY <2>2, <2>3, <2>5, <3>1, <3>2, <3>3
  <2>8. QED
    BY <2>6, <2>7
<1>17. ReaderOK' /\ Unread'
  <2>1. floor' \in Counts
    <3>1. Total(key) \in Counts
      <4>1. \A b \in Words : now[b] \in [Cpus -> Nat]
        BY <1>7 DEF Shares
      <4>2. \A b \in Words : Sum(now[b]) \in Nat
        BY <4>1, SumIsNat, FilterAssumption
      <4>3. Total(key) = [b \in Words |-> Sum(now[b])]
        BY DEF Total, Sum
      <4>4. QED
        BY <4>2, <4>3 DEF Counts
    <3>2. QED
      BY <1>9, <3>1 DEF ReadInv, ReaderOK
  <2>2. sum' \in Counts
    BY <1>9 DEF ReadInv, ReaderOK, Counts
  <2>3. todo' \subseteq Cpus \X Words /\ todo' # Cpus \X Words
    BY <1>2, <1>9
  <2>4. QED
    BY <1>2, <1>9, <2>1, <2>2, <2>3 DEF ReadInv, ReaderOK, Unread
<1>18. QED
  BY <1>14, <1>15, <1>16, <1>17 DEF ReadInv

\* A reading ends: its shares become those of the record, and the next one starts from none.
LEMMA EndReadKeeps ==
  ASSUME TypeInv, ReadInv, EndRead
  PROVE  ReadInv'
<1>1. PICK lo, got, rec : SharedOut(lo, got, rec) /\ Copied(lo, got, rec) /\ Recorded(rec)
  BY DEF ReadInv
<1>2. key \in Verdicts /\ key' \in Verdicts /\ todo = {} /\ todo' = Cpus \X Words
      /\ sum' = Zero /\ floor' = Zero /\ record' = [record EXCEPT ![key] = sum]
      /\ xdp_stats_map' = xdp_stats_map
  BY DEF ReadInv, ReaderOK, EndRead, Verdicts
<1>3. PICK new : new = [rec EXCEPT ![key] = got]
  OBVIOUS
<1>4. got \in Shares /\ rec \in [Verdicts -> Shares] /\ new \in [Verdicts -> Shares]
  BY <1>1, <1>2, <1>3 DEF SharedOut
<1>5. \A v \in Verdicts : \A w \in Words : record'[v][w] = Sum(new[v][w])
  <2>1. record \in [Verdicts -> Counts]
    BY DEF ReadInv, ReaderOK
  <2>2. QED
    BY <1>1, <1>2, <1>3, <1>4, <2>1 DEF SharedOut
<1>6. SharedOut(NoShares, NoShares, new)'
  BY <1>2, <1>4, <1>5, NoSharesAddUp DEF SharedOut
<1>7. Recorded(new)'
  <2>1. SUFFICES ASSUME NEW c \in Cpus, NEW v \in Verdicts, NEW w \in Words
                 PROVE  new[v][w][c] <= xdp_stats_map[c][v][w]
    BY <1>2 DEF Recorded
  <2>2. got[w][c] <= xdp_stats_map[c][key][w]
    BY <1>1, <1>2 DEF Copied
  <2>3. rec[v][w][c] <= xdp_stats_map[c][v][w]
    BY <1>1 DEF Recorded
  <2>4. QED
    BY <1>3, <1>4, <2>2, <2>3
<1>8. Copied(NoShares, NoShares, new)'
  <2>1. SUFFICES ASSUME NEW c \in Cpus, NEW w \in Words
                 PROVE  NoShares[w][c] = 0 /\ NoShares[w][c] <= xdp_stats_map[c][key'][w]
    BY <1>2 DEF Copied
  <2>2. xdp_stats_map[c][key'][w] \in Nat /\ NoShares[w][c] = 0
    BY <1>2 DEF TypeInv, CountersOK, Counts, NoShares
  <2>3. QED
    BY <2>2
<1>9. ReaderOK' /\ Unread'
  <2>1. Zero \in Counts
    BY DEF Zero, Counts
  <2>2. record' \in [Verdicts -> Counts]
    BY <1>2 DEF ReadInv, ReaderOK
  <2>3. QED
    BY <1>2, <2>1, <2>2 DEF ReaderOK, Unread
<1>10. QED
  BY <1>6, <1>7, <1>8, <1>9 DEF ReadInv

\* A sum that is complete lies between its floor and the total, and above the last one.
LEMMA SharesBound == TypeInv /\ ReadInv => TotalsAreReal
<1>1. SUFFICES ASSUME TypeInv, ReadInv, todo = {}, NEW w \in Words
               PROVE  floor[w] <= sum[w] /\ sum[w] <= Total(key)[w] /\ record[key][w] <= sum[w]
  BY DEF TotalsAreReal, AtMost
<1>2. PICK lo, got, rec : SharedOut(lo, got, rec) /\ Copied(lo, got, rec)
  BY <1>1 DEF ReadInv
<1>3. key \in Verdicts
  BY <1>1 DEF ReadInv, ReaderOK
<1>4. PICK now : now = [c \in Cpus |-> xdp_stats_map[c][key][w]]
  OBVIOUS
<1>5. now \in [Cpus -> Nat]
  BY <1>1, <1>3, <1>4 DEF TypeInv, CountersOK, Counts
<1>6. lo[w] \in [Cpus -> Nat] /\ got[w] \in [Cpus -> Nat] /\ rec[key][w] \in [Cpus -> Nat]
  BY <1>2, <1>3 DEF SharedOut, Shares
<1>7. \A c \in Cpus : lo[w][c] <= got[w][c] /\ rec[key][w][c] <= got[w][c] /\ got[w][c] <= now[c]
  BY <1>1, <1>2, <1>4 DEF Copied
<1>8. Sum(lo[w]) <= Sum(got[w]) /\ Sum(rec[key][w]) <= Sum(got[w]) /\ Sum(got[w]) <= Sum(now)
  BY <1>5, <1>6, <1>7, SumAtMost, FilterAssumption
<1>9. Total(key)[w] = Sum(now)
  BY <1>4 DEF Total, Sum
<1>10. QED
  BY <1>2, <1>3, <1>8, <1>9 DEF SharedOut

\* The sums of the reader can be shared out at every step.
THEOREM ReadInvHolds == Spec => []ReadInv
<1>1. Init => ReadInv
  <2>1. SUFFICES ASSUME Init PROVE ReadInv
    OBVIOUS
  <2>2. PICK rec : rec = [v \in Verdicts |-> NoShares]
    OBVIOUS
  <2>3. ReaderOK /\ Unread
    BY <2>1 DEF Init, ReaderOK, Unread, Zero, Counts, Verdicts
  <2>4. SharedOut(NoShares, NoShares, rec)
    BY <2>1, <2>2, NoSharesAddUp DEF Init, SharedOut
  <2>5. Copied(NoShares, NoShares, rec) /\ Recorded(rec)
    BY <2>1, <2>2 DEF Init, Copied, Recorded, NoShares, Zero, Verdicts
  <2>6. QED
    BY <2>3, <2>4, <2>5 DEF ReadInv
<1>2. TypeInv /\ ReadInv /\ [Next]_vars => ReadInv'
  <2>1. SUFFICES ASSUME TypeInv, ReadInv, [Next]_vars PROVE ReadInv'
    OBVIOUS
  <2>2. \A c \in Cpus : \A v \in Verdicts : \A w \in Words : xdp_stats_map[c][v][w] \in Nat
    BY <2>1 DEF TypeInv, CountersOK, Counts
  <2>3. ASSUME UNCHANGED reader, UNCHANGED xdp_stats_map PROVE ReadInv'
    BY <2>1, <2>2, <2>3, CopiesKept
  <2>4. ASSUME NEW c \in Cpus, (\E p \in Packets : Receive(c, p)) \/ LookUp(c) \/ Output(c)
        PROVE  ReadInv'
    BY <2>3, <2>4 DEF Receive, LookUp, Output
  <2>5. ASSUME NEW c \in Cpus, Count(c) \/ AddBytes(c) PROVE ReadInv'
    <3>1. UNCHANGED reader /\ pc[c] # "idle" /\ action[c] \in Verdicts
      BY <2>1, <2>5 DEF Count, AddBytes, TypeInv, PacketOK
    <3>2. PICK b \in Words, n \in Nat :
            xdp_stats_map' = [xdp_stats_map EXCEPT ![c][action[c]][b] = @ + n]
      BY <2>1, <2>5, <3>1, PacketFields DEF Count, AddBytes, TypeInv, InWork, Words
    <3>3. \A a \in Cpus : \A v \in Verdicts : \A w \in Words :
            \/ xdp_stats_map'[a][v][w] = xdp_stats_map[a][v][w]
            \/ xdp_stats_map'[a][v][w] = xdp_stats_map[a][v][w] + n
      BY <2>1, <3>1, <3>2 DEF TypeInv, CountersOK, Counts
    <3>4. \A a \in Cpus : \A v \in Verdicts : \A w \in Words :
            /\ xdp_stats_map'[a][v][w] \in Nat
            /\ xdp_stats_map[a][v][w] <= xdp_stats_map'[a][v][w]
      BY <2>2, <3>3
    <3>5. QED
      BY <2>1, <2>2, <3>1, <3>4, CopiesKept
  <2>6. ASSUME NEW s \in Sources, Allow(s) \/ Block(s) \/ Unblock(s) PROVE ReadInv'
    BY <2>3, <2>6 DEF Allow, Block, Unblock
  <2>7. ASSUME NEW c \in Cpus, NEW w \in Words, ReadCpu(c, w) PROVE ReadInv'
    BY <2>1, <2>7, ReadCpuKeeps
  <2>8. CASE EndRead
    BY <2>1, <2>8, EndReadKeeps
  <2>9. CASE UNCHANGED vars
    BY <2>3, <2>9 DEF vars, reader
  <2>10. QED
    BY <2>1, <2>4, <2>5, <2>6, <2>7, <2>8, <2>9 DEF Next, Program
<1>3. QED
  BY <1>1, <1>2, TypeInvHolds, PTL DEF Spec

\* What xdp_stats shows of a verdict was true between the beginning of its reading and the end,
\* and never goes back, whatever the CPUs count in between.
THEOREM TotalsAlwaysReal == Spec => []TotalsAreReal
<1>1. QED
  BY ReadInvHolds, TypeInvHolds, SharesBound, PTL

\* All that the program, the writers of the lists and the reader keep is of its type, and a
\* packet that is dropped goes no further than the counters.
THEOREM TypesAreRight == Spec => []TypeOK
<1>1. TypeInv /\ LeakInv /\ ReadInv => TypeOK
  BY DEF TypeInv, ListsOK, PacketOK, DropsEnd, CountersOK, Counts, LeakInv, ReadInv, ReaderOK,
         TypeOK
<1>2. QED
  BY <1>1, TypeInvHolds, LeakInvHolds, ReadInvHolds, PTL
=============================================================================
