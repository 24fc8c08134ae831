------------------------------- MODULE Stats --------------------------------
(***************************************************************************)
(* stats_poll of xdp_stats: it reads the totals of all verdicts, waits,    *)
(* and from then on prints in every round, verdict by verdict, the new     *)
(* totals and what they have grown by per second.  (How one total is added *)
(* up while packets are counted is in PacketFilter.)                       *)
(***************************************************************************)
EXTENDS Integers, Sequences

CONSTANTS
  Actions,       \* the number of verdicts, XDP_ACTION_MAX
  StatsWord,     \* totals are numbers modulo this
  StackGarbage,  \* what the uninitialised datarec of map_collect may hold
  MaxTime,       \* bound: the clock
  MaxCounted,    \* bound: packets of one verdict
  MaxFailures    \* bound: failed lookups

ASSUME StatsAssumption ==
  /\ Actions \in Nat \ {0} /\ StatsWord \in Nat \ {0}
  /\ StackGarbage \subseteq 0 .. StatsWord - 1
  /\ MaxTime \in Nat /\ MaxCounted \in Nat /\ MaxFailures \in Nat

Keys == 0 .. Actions - 1

VARIABLES
  counted,  \* verdict -> packets counted so far (the map)
  time,     \* the monotonic clock
  stats_pc, \* where stats_poll is
  key,      \* the verdict that stats_collect is at
  record,   \* verdict -> the last reading: its time and its total
  prev,     \* the reading before, once copied
  rows,     \* the verdicts printed in this round
  until,    \* when the sleep is over
  printed,  \* history: verdict -> what the printed differences add up to
  first,    \* history: the first reading
  failures  \* history: failed lookups so far

statsVars ==
  <<counted, time, stats_pc, key, record, prev, rows, until, printed, first, failures>>

NoReading == [k \in Keys |-> [timestamp |-> 0, packets |-> 0]]

StatsInit ==
  /\ counted = [k \in Keys |-> 0] /\ time = 1
  /\ stats_pc = "first" /\ key = 0
  /\ record = NoReading /\ prev = NoReading /\ first = NoReading
  /\ rows = {} /\ until = 0
  /\ printed = [k \in Keys |-> 0] /\ failures = 0

-----------------------------------------------------------------------------

\* The XDP program counts a packet; time passes.
CountPacket(k) ==
  /\ counted[k] < MaxCounted
  /\ counted' = [counted EXCEPT ![k] = @ + 1]
  /\ UNCHANGED <<time, stats_pc, key, record, prev, rows, until, printed, first, failures>>

TimePasses ==
  /\ time < MaxTime
  /\ time' = time + 1
  /\ UNCHANGED <<counted, stats_pc, key, record, prev, rows, until, printed, first, failures>>

Collecting == stats_pc \in {"first", "collect"} /\ key \in Keys

\* map_collect for the next verdict.  A failed lookup is reported, and the
\* uninitialised value is used.
map_collect ==
  /\ Collecting
  /\ \E v \in {counted[key] % StatsWord} \cup (IF failures < MaxFailures THEN StackGarbage ELSE {}) :
       /\ record' = [record EXCEPT ![key] = [timestamp |-> time, packets |-> v]]
       /\ failures' = IF v = counted[key] % StatsWord THEN failures ELSE failures + 1
  /\ key' = key + 1
  /\ UNCHANGED <<counted, time, stats_pc, prev, rows, until, printed, first>>

\* After the first reading, a quarter of a second goes by.
usleep ==
  /\ stats_pc = "first" /\ key \notin Keys
  /\ stats_pc' = "sleep"
  /\ until' = time + 1
  /\ first' = record
  /\ UNCHANGED <<counted, time, key, record, prev, rows, printed, failures>>

StatsWake ==
  /\ stats_pc = "sleep" /\ time >= until
  /\ stats_pc' = "copy"
  /\ UNCHANGED <<counted, time, key, record, prev, rows, until, printed, first, failures>>

CopyRecord_Once ==
  /\ stats_pc = "copy"
  /\ prev' = IF prev = NoReading THEN record ELSE prev
  /\ rows' = {} /\ key' = 0
  /\ stats_pc' = "collect"
  /\ UNCHANGED <<counted, time, record, until, printed, first, failures>>

\* A round: prev = record, then a new reading.
CopyRecord ==
  /\ stats_pc = "copy"
  /\ prev' = record
  /\ rows' = {} /\ key' = 0
  /\ stats_pc' = "collect"
  /\ UNCHANGED <<counted, time, record, until, printed, first, failures>>

calc_period(k) == (record[k].timestamp - prev[k].timestamp) % StatsWord
Growth(k) == (record[k].packets - prev[k].packets) % StatsWord

\* stats_print stops at the first verdict whose two readings have one time.
Printable == {k \in Keys : \A j \in 0 .. k : calc_period(j) # 0}

stats_print ==
  /\ stats_pc = "collect" /\ key \notin Keys
  /\ rows' = Printable
  /\ printed' = [k \in Keys |-> IF k \in Printable THEN (printed[k] + Growth(k)) % StatsWord
                                ELSE printed[k]]
  /\ stats_pc' = "sleep"
  /\ until' = time + 1
  /\ UNCHANGED <<counted, time, key, record, prev, first, failures>>

StatsNext ==
  \/ \E k \in Keys : CountPacket(k)
  \/ TimePasses \/ map_collect \/ usleep \/ StatsWake \/ CopyRecord \/ stats_print

StatsSpec == StatsInit /\ [][StatsNext]_statsVars

-----------------------------------------------------------------------------
(* Properties.                                                             *)

\* Every round of stats_print prints every verdict: the sleeps keep two readings
\* of a verdict apart, so that "period == 0" never ends a round early.
EveryVerdictIsPrinted == stats_pc = "sleep" /\ prev # NoReading => rows = Keys

\* The differences printed so far add up to the growth since the first reading:
\* no packet is missing between two rounds and none is counted in two, and even
\* a total that a failed lookup made up is taken back in the next round.
RoundsAddUp ==
  stats_pc = "sleep" =>
    \A k \in Keys :
      printed[k] = (record[k].packets - first[k].packets) % StatsWord

\* The rounds of xdp_stats are complete and follow on one another.
RoundsAreWhole == EveryVerdictIsPrinted /\ RoundsAddUp
=============================================================================
