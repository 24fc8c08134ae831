---------------------------- MODULE PacketFilter ----------------------------
(***************************************************************************)
(* The XDP program, one packet at a time on each CPU: it parses the        *)
(* headers, looks the source up in the white list and then in the black    *)
(* list, judges fragments and large ICMP packets, counts what is left in   *)
(* the CPU's own statistics, and tries to send a sample of what it passes. *)
(*                                                                         *)
(* Beside it run the writers of the two lists (start_policy, update_list)  *)
(* and xdp_stats, which adds up the statistics of the CPUs.                *)
(***************************************************************************)
EXTENDS Integers, FiniteSets, Functions

CONSTANTS
  Cpus,      \* the CPUs
  Packets,   \* the packets that may arrive
  MaxPackets \* bound: packets on all CPUs together

ETH_HLEN == 14
IP_HLEN == 20
TCP_HLEN == 20
UDP_HLEN == 8

\* What a packet is for the program: its length, its fields, and whether it is
\* a fragment; doff is that of a TCP header and ulen the length in a UDP header.
PacketType ==
  [len : Nat, l3 : {"ip", "other"}, ihl : 0 .. 15, proto : {"tcp", "udp", "icmp", "other"},
   src : Nat, dst : Nat, tot_len : Nat, frag : BOOLEAN, syn : BOOLEAN, doff : 0 .. 15, ulen : Nat]

ASSUME FilterAssumption ==
  /\ IsFiniteSet(Cpus) /\ Cpus # {}
  /\ \A p \in Packets : p \in PacketType
  /\ MaxPackets \in Nat

VARIABLES
  white_list, black_list, \* keys of the maps
  pc,            \* CPU -> "idle", or the next access to what it shares
  pkt,           \* CPU -> the packet in work
  action,        \* CPU -> its verdict
  xdp_stats_map, \* CPU -> verdict -> packets and bytes
  received,      \* history: CPU -> packets so far
  judged,        \* history: CPU -> packets that a list has decided
  sampled,       \* history: CPU -> samples so far
  missed,        \* history: CPU -> samples that could not be sent
  leaked,        \* history: source -> packets passed since it was last black-listed
  key, todo, sum,\* xdp_stats: the verdict being read, the words to copy, the sum
  record,        \* xdp_stats: verdict -> the last sum
  floor          \* history: the true total when the reading of key began

lists == <<white_list, black_list>>
cpu == <<pc, pkt, action, received, judged>>
samples == <<sampled, missed>>
reader == <<key, todo, sum, record, floor>>
vars == <<lists, cpu, xdp_stats_map, samples, leaked, reader>>

Verdicts == {"XDP_DROP", "XDP_PASS"}
Sources == {p.src : p \in Packets}

\* The two words of a counter, struct datarec.
Words == {"rx_packets", "rx_bytes"}
Zero == [w \in Words |-> 0]

NoPacket == [len |-> 0]

Init ==
  /\ white_list = {} /\ black_list = {}
  /\ pc = [c \in Cpus |-> "idle"]
  /\ pkt = [c \in Cpus |-> NoPacket]
  /\ action = [c \in Cpus |-> "XDP_PASS"]
  /\ xdp_stats_map = [c \in Cpus |-> [v \in Verdicts |-> Zero]]
  /\ received = [c \in Cpus |-> 0]
  /\ judged = [c \in Cpus |-> 0]
  /\ sampled = [c \in Cpus |-> 0]
  /\ missed = [c \in Cpus |-> 0]
  /\ leaked = [s \in Sources |-> 0]
  /\ key = "XDP_DROP" /\ todo = Cpus \X Words /\ sum = Zero
  /\ record = [v \in Verdicts |-> Zero] /\ floor = Zero

-----------------------------------------------------------------------------
(* Headers and rules.                                                      *)

EthOk(p) == p.len >= ETH_HLEN
IpOk(p) ==
  /\ p.len >= ETH_HLEN + IP_HLEN
  /\ 4 * p.ihl >= IP_HLEN
  /\ p.len >= ETH_HLEN + 4 * p.ihl
TcpOk(p) ==
  LET start == ETH_HLEN + 4 * p.ihl IN
  /\ p.len >= start + TCP_HLEN
  /\ 4 * p.doff >= TCP_HLEN
  /\ p.len >= start + 4 * p.doff
UdpOk(p) ==
  /\ p.len >= ETH_HLEN + 4 * p.ihl + UDP_HLEN
  /\ p.ulen >= UDP_HLEN

\* Fragments of a SYN, and ICMP packets that are fragments or large.
tcp_stupid(p) == p.frag /\ p.syn
icmp_stupid(p) == p.frag \/ p.tot_len > 1024

IsIp(p) == EthOk(p) /\ p.l3 = "ip"

\* Packets that no list is asked about: too short, or not IPv4.
Unlisted(p) == ~ IsIp(p) \/ ~ IpOk(p)

\* A short ICMP header is not noticed: the result of its parser is unused.
Dropped(p) ==
  \/ ~ EthOk(p)
  \/ IsIp(p) /\ ~ IpOk(p)
  \/ IsIp(p) /\ p.proto = "tcp" /\ (~ TcpOk(p) \/ tcp_stupid(p))
  \/ IsIp(p) /\ p.proto = "udp" /\ ~ UdpOk(p)
  \/ IsIp(p) /\ p.proto = "icmp" /\ icmp_stupid(p)

Verdict(p) == IF Dropped(p) THEN "XDP_DROP" ELSE "XDP_PASS"

-----------------------------------------------------------------------------
(* The program on CPU c.                                                   *)

\* The program returns; the next packet finds action at its default.
Return(c) ==
  /\ pc' = [pc EXCEPT ![c] = "idle"]
  /\ pkt' = [pkt EXCEPT ![c] = NoPacket]
  /\ action' = [action EXCEPT ![c] = "XDP_PASS"]

Arrived == FoldFunction(+, 0, received)

\* A packet arrives and is parsed up to its addresses; a white-listed source is
\* passed at once and leaves no trace.
Receive(c, p) ==
  /\ pc[c] = "idle"
  /\ Arrived < MaxPackets
  /\ received' = [received EXCEPT ![c] = @ + 1]
  /\ \/ /\ Unlisted(p)
        /\ pkt' = [pkt EXCEPT ![c] = p]
        /\ action' = [action EXCEPT ![c] = Verdict(p)]
        /\ pc' = [pc EXCEPT ![c] = "count"]
        /\ UNCHANGED judged
     \/ /\ ~ Unlisted(p)
        /\ p.src \in white_list
        /\ judged' = [judged EXCEPT ![c] = @ + 1]
        /\ UNCHANGED <<pc, pkt, action>>
     \/ /\ ~ Unlisted(p)
        /\ p.src \notin white_list
        /\ pkt' = [pkt EXCEPT ![c] = p]
        /\ pc' = [pc EXCEPT ![c] = "black"]
        /\ UNCHANGED <<action, judged>>
  /\ UNCHANGED <<lists, xdp_stats_map, samples, leaked, reader>>

LookUp_Unblocked(c) ==
  /\ pc[c] = "black"
  /\ action' = [action EXCEPT ![c] = Verdict(pkt[c])]
  /\ pc' = [pc EXCEPT ![c] = "count"]
  /\ UNCHANGED <<pkt, received, judged, lists, xdp_stats_map, samples, leaked, reader>>

\* A black-listed source is dropped at once and leaves no trace either.
LookUp(c) ==
  /\ pc[c] = "black"
  /\ \/ /\ pkt[c].src \in black_list
        /\ judged' = [judged EXCEPT ![c] = @ + 1]
        /\ Return(c)
     \/ /\ pkt[c].src \notin black_list
        /\ action' = [action EXCEPT ![c] = Verdict(pkt[c])]
        /\ pc' = [pc EXCEPT ![c] = "count"]
        /\ UNCHANGED <<pkt, judged>>
  /\ UNCHANGED <<received, lists, xdp_stats_map, samples, leaked, reader>>

Count_PassOnly(c) ==
  /\ pc[c] = "count"
  /\ xdp_stats_map' = IF action[c] = "XDP_PASS"
                      THEN [xdp_stats_map EXCEPT ![c][action[c]]["rx_packets"] = @ + 1]
                      ELSE xdp_stats_map
  /\ pc' = [pc EXCEPT ![c] = "bytes"]
  /\ UNCHANGED <<pkt, action, received, judged, lists, samples, leaked, reader>>

\* xdp_stats_record_action: the two counters, one after the other, ...
Count(c) ==
  /\ pc[c] = "count"
  /\ xdp_stats_map' = [xdp_stats_map EXCEPT ![c][action[c]]["rx_packets"] = @ + 1]
  /\ pc' = [pc EXCEPT ![c] = "bytes"]
  /\ UNCHANGED <<pkt, action, received, judged, lists, samples, leaked, reader>>

AddBytes_AlwaysOutput(c) ==
  /\ pc[c] = "bytes"
  /\ xdp_stats_map' = [xdp_stats_map EXCEPT ![c][action[c]]["rx_bytes"] = @ + pkt[c].len]
  /\ pc' = [pc EXCEPT ![c] = "output"]
  /\ UNCHANGED <<pkt, action, received, judged, lists, samples, leaked, reader>>

AddBytes(c) ==
  /\ pc[c] = "bytes"
  /\ xdp_stats_map' = [xdp_stats_map EXCEPT ![c][action[c]]["rx_bytes"] = @ + pkt[c].len]
  /\ \/ action[c] = "XDP_PASS" /\ pc' = [pc EXCEPT ![c] = "output"] /\ UNCHANGED <<pkt, action>>
     \/ action[c] # "XDP_PASS" /\ Return(c)
  /\ UNCHANGED <<received, judged, lists, samples, leaked, reader>>

\* ... and a sample of what is passed.  It is tried once: bpf_perf_event_output
\* fails without a reader or without room in the ring, and nobody looks.
Output(c) ==
  /\ pc[c] = "output"
  /\ \/ sampled' = [sampled EXCEPT ![c] = @ + 1] /\ UNCHANGED missed
     \/ missed' = [missed EXCEPT ![c] = @ + 1] /\ UNCHANGED sampled
  /\ leaked' = IF ~ Unlisted(pkt[c]) /\ pkt[c].src \in black_list
               THEN [leaked EXCEPT ![pkt[c].src] = @ + 1]
               ELSE leaked
  /\ Return(c)
  /\ UNCHANGED <<received, judged, lists, xdp_stats_map, reader>>

-----------------------------------------------------------------------------
(* The writers of the lists: update_list adds to both, start_policy blocks *)
(* and unblocks.                                                           *)

Allow(s) ==
  /\ white_list' = white_list \cup {s}
  /\ UNCHANGED <<black_list, cpu, xdp_stats_map, samples, leaked, reader>>

Block(s) ==
  /\ s \notin black_list
  /\ black_list' = black_list \cup {s}
  /\ leaked' = [leaked EXCEPT ![s] = 0]
  /\ UNCHANGED <<white_list, cpu, xdp_stats_map, samples, reader>>

Unblock(s) ==
  /\ s \in black_list
  /\ black_list' = black_list \ {s}
  /\ leaked' = [leaked EXCEPT ![s] = 0]
  /\ UNCHANGED <<white_list, cpu, xdp_stats_map, samples, reader>>

-----------------------------------------------------------------------------
(* xdp_stats: stats_collect reads the verdicts in turn, and for each adds  *)
(* up the CPUs; the kernel copies them one after the other, word by word.  *)

Total(v) ==
  [w \in Words |-> FoldFunction(+, 0, [c \in Cpus |-> xdp_stats_map[c][v][w]])]

\* Word w of CPU c is the next in the order of the copy.
IsNext(c, w) ==
  /\ <<c, w>> \in todo
  /\ \A t \in todo : c <= t[1]
  /\ w = "rx_bytes" => <<c, "rx_packets">> \notin todo

ReadCpu(c, w) ==
  /\ IsNext(c, w)
  /\ floor' = IF todo = Cpus \X Words THEN Total(key) ELSE floor
  /\ sum' = [sum EXCEPT ![w] = @ + xdp_stats_map[c][key][w]]
  /\ todo' = todo \ {<<c, w>>}
  /\ UNCHANGED <<lists, cpu, xdp_stats_map, samples, leaked, key, record>>

EndRead_SumKept ==
  /\ todo = {}
  /\ record' = [record EXCEPT ![key] = sum]
  /\ key' = IF key = "XDP_DROP" THEN "XDP_PASS" ELSE "XDP_DROP"
  /\ todo' = Cpus \X Words
  /\ floor' = Zero
  /\ UNCHANGED <<lists, cpu, xdp_stats_map, samples, leaked, sum>>

EndRead ==
  /\ todo = {}
  /\ record' = [record EXCEPT ![key] = sum]
  /\ key' = IF key = "XDP_DROP" THEN "XDP_PASS" ELSE "XDP_DROP"
  /\ todo' = Cpus \X Words
  /\ sum' = Zero /\ floor' = Zero
  /\ UNCHANGED <<lists, cpu, xdp_stats_map, samples, leaked>>

Program(c) ==
  \/ \E p \in Packets : Receive(c, p)
  \/ LookUp(c) \/ Count(c) \/ AddBytes(c) \/ Output(c)

Next ==
  \/ \E c \in Cpus : Program(c) \/ \E w \in Words : ReadCpu(c, w)
  \/ \E s \in Sources : Allow(s) \/ Block(s) \/ Unblock(s)
  \/ EndRead

Spec == Init /\ [][Next]_vars

-----------------------------------------------------------------------------
(* Properties.                                                             *)

\* Types; and a packet that is dropped goes no further than the counters.
TypeOK ==
  /\ white_list \subseteq Sources /\ black_list \subseteq Sources
  /\ pc \in [Cpus -> {"idle", "black", "count", "bytes", "output"}]
  /\ pkt \in [Cpus -> Packets \cup {NoPacket}]
  /\ action \in [Cpus -> Verdicts]
  /\ xdp_stats_map \in [Cpus -> [Verdicts -> [Words -> Nat]]]
  /\ \A c \in Cpus : action[c] = "XDP_DROP" => pc[c] \in {"count", "bytes"}
  /\ received \in [Cpus -> Nat]
  /\ judged \in [Cpus -> Nat]
  /\ sampled \in [Cpus -> Nat] /\ missed \in [Cpus -> Nat]
  /\ leaked \in [Sources -> Nat]
  /\ key \in Verdicts /\ todo \subseteq Cpus \X Words
  /\ record \in [Verdicts -> [Words -> Nat]]
  /\ {sum, floor} \subseteq [Words -> Nat]

\* Every packet is decided by a list or counted under one verdict, once: none
\* is lost and none is counted twice, on any path through the program
\* (xdp_prog_kern.c:61-144).
EveryPacketOnce ==
  \A c \in Cpus :
    received[c] = judged[c] + xdp_stats_map[c]["XDP_DROP"]["rx_packets"]
                            + xdp_stats_map[c]["XDP_PASS"]["rx_packets"]
                            + (IF pc[c] \in {"black", "count"} THEN 1 ELSE 0)

\* What xdp_stats shows as passed and what start_policy is sent differ by the
\* samples the kernel could not deliver and by the packets under way, and by
\* nothing else: one sample is tried for every packet counted as passed, none
\* for one that is dropped or that a list decides ("send the PASS packets up to
\* the user space program", xdp_stats_kern.h:42-48, the result unused).
SamplesArePasses ==
  \A c \in Cpus :
    sampled[c] + missed[c] =
      xdp_stats_map[c]["XDP_PASS"]["rx_packets"]
      - (IF pc[c] \in {"bytes", "output"} /\ action[c] = "XDP_PASS" THEN 1 ELSE 0)

\* When BLOCK has returned, the program passes no more of the source than what
\* its CPUs had looked up before: at most one packet each (in_black_list,
\* xdp_prog_kern.c:69).
BlockLeaksLittle ==
  \A s \in black_list : leaked[s] <= Cardinality(Cpus)

AtMost(a, b) == \A w \in Words : a[w] <= b[w]

\* A total that xdp_stats prints lies between the true totals before and after
\* it was read, word by word, and is never below the one before: the unsigned
\* differences behind the rates (xdp_stats.c:104) are those of packets that
\* arrived.  (The two words of a total need not be of the same packets.)
TotalsAreReal ==
  todo = {} =>
    AtMost(floor, sum) /\ AtMost(sum, Total(key)) /\ AtMost(record[key], sum)
=============================================================================
