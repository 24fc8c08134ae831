--------------------------- MODULE MC_PacketFilter ---------------------------
(* An instance of PacketFilter for TLC: a whole TCP packet, and others that  *)
(* differ from it by what takes the program another way.                     *)
EXTENDS PacketFilter

Tcp == [len |-> 54, l3 |-> "ip", ihl |-> 5, proto |-> "tcp", src |-> 1, dst |-> 9,
        tot_len |-> 40, frag |-> FALSE, syn |-> TRUE, doff |-> 5, ulen |-> 0]

SomePackets ==
  {Tcp,
   [Tcp EXCEPT !.frag = TRUE],                 \* a fragment of a SYN
   [Tcp EXCEPT !.len = 33],                    \* an IP header cut short
   [Tcp EXCEPT !.l3 = "other"]}                \* not IPv4
=============================================================================
