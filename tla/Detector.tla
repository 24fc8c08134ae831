------------------------------ MODULE Detector ------------------------------
(***************************************************************************)
(* detect_attackers, with its table psi as the memory it is.               *)
(*                                                                         *)
(* psi[j] is a struct of two arrays of ROWS words (the addresses and their *)
(* counts) followed by num_ip, and the structs of the policies follow one  *)
(* another.  Only the num_ip words are initialised.  The local num_ip, the *)
(* index of the next row, is one for all policies.                         *)
(***************************************************************************)
EXTENDS Integers, FiniteSets, Sequences

CONSTANTS
  Sources,      \* source addresses of the packets
  Destinations, \* destination addresses of the packets
  list_policy,  \* the policies: a sequence of [ip, threshold]
  ROWS,         \* rows of psi[j].ip
  Garbage,      \* words that the uninitialised part of psi may hold
  INTERVAL,     \* seconds per counting window
  Word,         \* words are numbers modulo this
  MaxPackets    \* bound: packets in the window

ASSUME DetectorAssumption ==
  /\ Sources \subseteq 0 .. Word - 1 /\ Garbage \subseteq 0 .. Word - 1
  /\ list_policy \in Seq([ip : Nat, threshold : Int])
  /\ ROWS \in Nat \ {0} /\ INTERVAL \in Nat \ {0} /\ Word \in Nat \ {0}
  /\ MaxPackets \in 0 .. Word - 1

VARIABLES
  packets_queue, \* the packets of the window
  psi,           \* the words of the table
  num_ip,        \* the local variable
  dt_pc,            \* "count", "report", "done", or "smashed" once a write left psi
  at,            \* the next packet and policy to count, or the next to judge
  reports        \* the [DETECTED] lines: policy, address, packets

dtVars == <<packets_queue, psi, num_ip, dt_pc, at, reports>>

Packets == [src : Sources, dst : Destinations]
Policies == DOMAIN list_policy

\* Where a field of psi[p] lies; an index of ROWS or more reaches the next one.
STRUCT == 2 * ROWS + 1
AddressWord(p, k) == (p - 1) * STRUCT + k
CountWord(p, k) == (p - 1) * STRUCT + ROWS + k
NumWord(p) == (p - 1) * STRUCT + 2 * ROWS

Words == 0 .. Len(list_policy) * STRUCT - 1

\* The rows of psi[p] that the code takes to be in use.
InUse(p) == 0 .. psi[NumWord(p)] - 1
Inside(p, ks) == \A k \in ks : {AddressWord(p, k), CountWord(p, k)} \subseteq Words

RowOf_LastSkipped(p, s) ==
  {k \in InUse(p) : k + 1 \in InUse(p) /\ psi[AddressWord(p, k)] = s}

\* The row that the search finds for an address, if any.
RowOf(p, s) ==
  {k \in InUse(p) : /\ psi[AddressWord(p, k)] = s
                    /\ \A h \in InUse(p) : psi[AddressWord(p, h)] = s => k <= h}

DtInit ==
  /\ packets_queue \in UNION {[1 .. n -> Packets] : n \in 0 .. MaxPackets}
  /\ psi \in [Words -> Garbage \cup {0}]
  /\ \A p \in Policies : psi[NumWord(p)] = 0
  /\ num_ip = 0
  /\ dt_pc = "count"
  /\ at = <<1, 1>>
  /\ reports = {}

-----------------------------------------------------------------------------

Counting(p) ==
  /\ dt_pc = "count"
  /\ at[1] \in DOMAIN packets_queue
  /\ p = at[2]

Matches(p) == packets_queue[at[1]].dst = list_policy[p].ip
Source == packets_queue[at[1]].src

\* The inner loop goes over the policies, the outer one over the packets.
Advance ==
  at' = IF at[2] < Len(list_policy) THEN <<at[1], at[2] + 1>> ELSE <<at[1] + 1, 1>>

\* The packet is not for an address that the policy protects.
Pass(p) ==
  /\ Counting(p)
  /\ ~ Matches(p)
  /\ Advance
  /\ UNCHANGED <<packets_queue, psi, num_ip, dt_pc, reports>>

\* The source has a row: its count goes up.
CountKnown(p) ==
  /\ Counting(p)
  /\ Matches(p)
  /\ Inside(p, InUse(p))
  /\ \E k \in RowOf(p, Source) :
       psi' = [psi EXCEPT ![CountWord(p, k)] = (@ + 1) % Word, ![NumWord(p)] = num_ip]
  /\ Advance
  /\ UNCHANGED <<packets_queue, num_ip, dt_pc, reports>>

\* The source has none: it gets the next one.
CountNew(p) ==
  /\ Counting(p)
  /\ Matches(p)
  /\ Inside(p, InUse(p) \cup {num_ip})
  /\ RowOf(p, Source) = {}
  /\ psi' = [psi EXCEPT ![AddressWord(p, num_ip)] = Source,
                        ![CountWord(p, num_ip)] = 1,
                        ![NumWord(p)] = num_ip + 1]
  /\ num_ip' = num_ip + 1
  /\ Advance
  /\ UNCHANGED <<packets_queue, dt_pc, reports>>

EndCount ==
  /\ dt_pc = "count"
  /\ at[1] \notin DOMAIN packets_queue
  /\ dt_pc' = "report"
  /\ at' = <<1, 1>>
  /\ UNCHANGED <<packets_queue, psi, num_ip, reports>>

\* The count of a row as a rate, and the threshold as the unsigned number that
\* the comparison makes of it.
Rate(p, k) == psi[CountWord(p, k)] \div INTERVAL
Threshold_OffByOne(p) == (list_policy[p].threshold - 1) % Word
Threshold(p) == list_policy[p].threshold % Word

\* One policy is judged: a [DETECTED] line for every row over the threshold.
Judge(p) ==
  /\ dt_pc = "report"
  /\ p = at[1]
  /\ Inside(p, InUse(p))
  /\ reports' = reports \cup
       {[policy |-> p, ip |-> psi[AddressWord(p, k)], sent |-> Rate(p, k)] :
          k \in {h \in InUse(p) : Rate(p, h) > Threshold(p)}}
  /\ at' = <<p + 1, 1>>
  /\ UNCHANGED <<packets_queue, psi, num_ip, dt_pc>>

EndJudge ==
  /\ dt_pc = "report"
  /\ at[1] \notin Policies
  /\ dt_pc' = "done"
  /\ UNCHANGED <<packets_queue, psi, num_ip, at, reports>>

\* A row outside psi is read or written: the model ends there.
Smash(p) ==
  /\ \/ Counting(p) /\ Matches(p) /\ ~ Inside(p, InUse(p) \cup {num_ip})
     \/ dt_pc = "report" /\ p = at[1] /\ ~ Inside(p, InUse(p))
  /\ dt_pc' = "smashed"
  /\ UNCHANGED <<packets_queue, psi, num_ip, at, reports>>

DtNext ==
  \/ \E p \in Policies : Pass(p) \/ CountKnown(p) \/ CountNew(p) \/ Judge(p) \/ Smash(p)
  \/ EndCount \/ EndJudge

DtSpec == DtInit /\ [][DtNext]_dtVars

-----------------------------------------------------------------------------
(* Properties.                                                             *)

\* The pairs of packet and policy that the loops have behind them (once psi is
\* smashed, all).
Behind ==
  {v \in (DOMAIN packets_queue) \X Policies :
     \/ dt_pc # "count"
     \/ v[1] < at[1]
     \/ v[1] = at[1] /\ v[2] < at[2]}

\* Packets that s has sent to the address of p, among those counted so far.
SentSoFar(p, s) ==
  Cardinality({v \in Behind : v[2] = p /\ packets_queue[v[1]].src = s
                               /\ packets_queue[v[1]].dst = list_policy[p].ip})

\* The packets of the window are for the address of at most one policy.  Only then
\* is the one num_ip that all policies share also each policy's own.
Single ==
  Cardinality({p \in Policies : \E k \in DOMAIN packets_queue :
                 packets_queue[k].dst = list_policy[p].ip}) <= 1

\* While the rows last, a [DETECTED] line states the rate at which the address
\* has sent ("source.ip: %s, ... sent %d(pps)", start_policy.c:249).
ReportsAreTrue ==
  num_ip <= ROWS => \A r \in reports : r.sent = SentSoFar(r.policy, r.ip) \div INTERVAL

\* The pairs of policy and source that the window has.
Pairs == {<<v[2], packets_queue[v[1]].src>> :
            v \in {u \in Behind : packets_queue[u[1]].dst = list_policy[u[2]].ip}}

\* A window with no more pairs of policy and source than psi has rows is judged right, although
\* the policies share the index of the next row: no access leaves psi, what is reported is true,
\* and every source over a threshold is reported ("handle the violating IP", start_policy.c:241).
\* Rows that only hold garbage never cost a source a second row of its own.
WindowIsJudged ==
  Cardinality(Pairs) <= ROWS =>
    /\ dt_pc # "smashed" /\ num_ip <= ROWS
    /\ ReportsAreTrue
    /\ dt_pc = "done" =>
         \A p \in Policies, s \in Sources :
           SentSoFar(p, s) \div INTERVAL > Threshold(p)
             => \E r \in reports : r.policy = p /\ r.ip = s

\* In a window for one policy the table implements exact counting: what it
\* reports is what Counting does.  (Any other window is mapped to Counting's
\* first state.)
Exact == INSTANCE Counting WITH
  seen     <- {v \in Behind : Single /\ packets_queue[v[1]].dst = list_policy[v[2]].ip},
  reported <- {<<r.policy, r.ip>> : r \in {q \in reports : Single}}

CountsExactly == Exact!Spec
=============================================================================
