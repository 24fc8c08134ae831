---------------------------- MODULE PolicyDaemon ----------------------------
(***************************************************************************)
(* The enforcement loop of the program: start_policy's event_poller with   *)
(* everything it calls, the packet path of the XDP program that feeds it   *)
(* through the per-CPU perf rings, the black_list map they share, and      *)
(* update_list, which writes the same map.                                 *)
(*                                                                         *)
(* The loop polls the rings, reads the wall clock, once per INTERVAL       *)
(* counts the queued packets against the policies and blocks the sources   *)
(* that exceed one, once per second lifts the blocks whose LOCK_TIME is    *)
(* over, and then drains the rings that poll reported.  Packets, the clock *)
(* and update_list run between any two of these steps, and a packet takes  *)
(* two: the look-up of its source and, later, its sample.                  *)
(*                                                                         *)
(* An address is a number and 0 is 0.0.0.0, which is also the value that   *)
(* marks a free row of count_down.                                         *)
(***************************************************************************)
EXTENDS Integers, FiniteSets, Sequences

CONSTANTS
  Cpus,         \* the CPUs, 1..n_cpus: one perf ring each
  Sources,      \* source addresses of the traffic
  Destinations, \* destination addresses of the traffic
  Listable,     \* addresses update_list may add to the black list
  white_list,   \* addresses in the white_list map
  list_policy,  \* the loaded policies: a sequence of [ip, threshold]
  Phantoms,     \* addresses that an uninitialised row of psi may hold
  INTERVAL,     \* seconds per counting window
  LOCK_TIME,    \* seconds a detected source stays blocked
  IP_DYNAMIC,   \* rows of the count_down table
  BLACK_MAX,    \* max_entries of the black_list map
  RING_CAP,     \* samples a perf ring holds
  QUEUE_MAX,    \* entries of the array packets_queue
  FD_LIMIT,     \* file descriptors the process may still open
  Word,         \* unsigned long subtraction is modulo this number
  MaxClock,     \* bound: the last value of the clock
  Wraps,        \* whether the clock goes on from 1 after MaxClock
  MaxGap,       \* bound: seconds between two readings of the clock
  MaxBusy,      \* bound: seconds that pass while the loop body runs
  MaxRate,      \* bound: samples that are tried, per second
  MaxCrashes,   \* bound: crashes of the daemon
  AllocFails    \* whether malloc may fail while a ring is read

ASSUME ConstantsAssumption ==
  /\ Cpus \subseteq Nat /\ Cpus # {} /\ IsFiniteSet(Cpus)
  /\ Sources \subseteq Nat /\ Listable \subseteq Nat
  /\ Destinations \subseteq Nat /\ white_list \subseteq Nat
  /\ Phantoms \subseteq Nat
  /\ list_policy \in Seq([ip : Nat, threshold : Nat])
  /\ INTERVAL \in Nat \ {0} /\ LOCK_TIME \in Nat \ {0}
  /\ IP_DYNAMIC \in Nat \ {0} /\ BLACK_MAX \in Nat \ {0}
  /\ RING_CAP \in Nat \ {0} /\ QUEUE_MAX \in Nat \ {0} /\ Word \in Nat \ {0}
  /\ FD_LIMIT \in Nat /\ MaxCrashes \in Nat
  /\ MaxGap \in Nat /\ MaxBusy \in Nat /\ MaxRate \in Nat
  /\ MaxClock \in Nat \ {0}
  /\ MaxClock <= Word
  /\ Wraps \in BOOLEAN /\ AllocFails \in BOOLEAN

VARIABLES
  clock,         \* time(NULL)
  arrived,       \* packets that reached the perf output in this second
  in_flight,     \* per CPU, the packet that has passed the lists: one or none
  black_list,    \* keys of the kernel's black_list map, pinned on bpffs
  listed,        \* history: the keys that update_list has added
  ring,          \* per CPU, the samples not yet read
  signalled,     \* CPUs whose ring got a sample since poll reported it
  crashes,       \* history: crashes so far
  pc,            \* where the daemon is in its loop
  now,           \* local of event_poller; time_end always equals it
  time_start,
  prev_time,
  packets_queue,
  todo,          \* (policy, source) pairs found over the threshold
  revents,       \* CPUs that poll reported and that are still to be read
  count_down,    \* row of the table: blocked address and time of the block
  fds            \* descriptors that policy_change_black_list has opened

kernel == <<black_list, listed>>
traffic == <<ring, signalled, arrived, in_flight>>
timing == <<now, time_start, prev_time>>
vars == <<clock, crashes, kernel, traffic, pc, timing,
          packets_queue, todo, revents, count_down, fds>>

Rows == 0 .. IP_DYNAMIC - 1
Free == [ip |-> 0, at |-> 0]
Policies == DOMAIN list_policy
Address == Sources \cup Phantoms \cup {0}

\* What the daemon is told of a packet; and a sample of the perf ring, where sec
\* is history, the second it was emitted in.
Addresses == [src : Sources, dst : Destinations]
Sample == [src : Sources, dst : Destinations, sec : 0 .. MaxClock]

\* Unsigned subtraction of two times.
Since(t, u) == (t - u) % Word

Init ==
  /\ clock = 1 /\ arrived = 0 /\ crashes = 0
  /\ black_list = {} /\ listed = {}
  /\ ring = [c \in Cpus |-> <<>>] /\ signalled = {}
  /\ in_flight = [c \in Cpus |-> {}]
  /\ pc = "poll" /\ now = clock /\ time_start = 0 /\ prev_time = 0
  /\ packets_queue = <<>> /\ todo = {} /\ revents = {}
  /\ count_down = [g \in Rows |-> Free]
  /\ fds = 0

-----------------------------------------------------------------------------
(* The environment: the clock, traffic and the other writer of the map.    *)

InBody == pc \notin {"poll", "time", "down"}

Tick ==
  /\ clock < MaxClock \/ Wraps
  /\ pc # "down" => Since(clock, now) < IF InBody THEN MaxBusy ELSE MaxGap
  /\ clock' = IF clock < MaxClock THEN clock + 1 ELSE 1
  /\ arrived' = 0
  /\ UNCHANGED <<crashes, kernel, ring, signalled, in_flight, pc, timing,
                 packets_queue, todo, revents, count_down, fds>>

\* Whom the lists let pass.  A packet that is not IPv4 is not looked up at all,
\* and has 0 for both addresses.
Passes_NoBlackList(s, d) == s \in white_list => s = 0 /\ d = 0
Passes(s, d) == s \in white_list \cup black_list => s = 0 /\ d = 0

\* A CPU looks the source of a packet up and lets it pass.  (The white list is
\* constant here, so the moment of its look-up does not matter.)
LookUp(c, s, d) ==
  /\ in_flight[c] = {}
  /\ Passes(s, d)
  /\ in_flight' = [in_flight EXCEPT ![c] = {[src |-> s, dst |-> d]}]
  /\ UNCHANGED <<clock, crashes, kernel, ring, signalled, arrived, pc, timing,
                 packets_queue, todo, revents, count_down, fds>>

\* It comes to bpf_perf_event_output, whatever the lists say by then.  The call
\* fails when the ring is full, when the daemon and its rings are gone, or for
\* a reason of the kernel's own; the program does not look.
Emit(c) ==
  /\ arrived < MaxRate
  /\ arrived' = arrived + 1
  /\ \E p \in in_flight[c] :
       \/ /\ pc # "down"
          /\ Len(ring[c]) < RING_CAP
          /\ ring' = [ring EXCEPT ![c] =
                        Append(@, [src |-> p.src, dst |-> p.dst, sec |-> clock])]
          /\ signalled' = signalled \cup {c}
       \/ UNCHANGED <<ring, signalled>>
  /\ in_flight' = [in_flight EXCEPT ![c] = {}]
  /\ UNCHANGED <<clock, crashes, kernel, pc, timing,
                 packets_queue, todo, revents, count_down, fds>>

SourcesIn(q) == {q[i].src : i \in DOMAIN q}

\* Whether the map has room for the key.
Insertable(ip) == ip \in black_list \/ Cardinality(black_list) < BLACK_MAX

\* update_list adds one address of its file to the black list.
UpdateList(ip) ==
  /\ Insertable(ip)
  /\ black_list' = black_list \cup {ip}
  /\ listed' = listed \cup {ip}
  /\ UNCHANGED <<clock, crashes, traffic, pc, timing,
                 packets_queue, todo, revents, count_down, fds>>

-----------------------------------------------------------------------------
(* The daemon's loop.                                                      *)

\* poll returns, with events or after its 250 ms.
Poll ==
  /\ pc = "poll"
  /\ revents' = signalled
  /\ signalled' = {}
  /\ pc' = "time"
  /\ UNCHANGED <<clock, crashes, kernel, ring, arrived, in_flight, timing,
                 packets_queue, todo, count_down, fds>>

\* Packets of the window from s to the address of policy p.
Sent(q, p, s) ==
  Cardinality({i \in DOMAIN q : q[i].src = s /\ q[i].dst = list_policy[p].ip})

Exceeding(q) ==
  {v \in Policies \X SourcesIn(q) :
     Sent(q, v[1], v[2]) \div INTERVAL > list_policy[v[1]].threshold}

\* What detect_attackers finds.  With one policy it is exact; with several,
\* the shared num_ip leaves rows of psi uninitialised, and a source may be
\* missed or an address that is in no packet reported (see Detector).
Detections_LastSkipped(q) == {Exceeding(SubSeq(q, 1, Len(q) - 1))}
Detections(q) ==
  IF Len(list_policy) <= 1
  THEN {Exceeding(q)}
  ELSE SUBSET (Exceeding(q) \cup Policies \X Phantoms)

WindowDue(t, start) == Since(t, start) = INTERVAL

\* Reads the clock, starts both timers on the first pass, and counts the
\* window when exactly INTERVAL seconds have passed.
ReadTime ==
  LET unset == time_start = 0 \/ prev_time = 0
      start == IF unset THEN clock ELSE time_start
  IN
  /\ pc = "time"
  /\ now' = clock
  /\ time_start' = start
  /\ prev_time' = IF unset THEN clock ELSE prev_time
  /\ \/ /\ WindowDue(clock, start)
        /\ todo' \in Detections(packets_queue)
        /\ pc' = "block"
     \/ /\ ~ WindowDue(clock, start)
        /\ pc' = "sweep"
        /\ UNCHANGED todo
  /\ UNCHANGED <<clock, crashes, kernel, traffic,
                 packets_queue, revents, count_down, fds>>

\* policy_change_black_list opens the pinned map and never closes it.  Its
\* callers ignore that it could not, and that the map was full.
CanOpen == fds < FD_LIMIT

policy_change_black_list_NoDelete(ip, action) ==
  /\ fds' = fds + 1
  /\ black_list' = IF action = "BLOCK" THEN black_list \cup {ip} ELSE black_list
  /\ UNCHANGED listed

policy_change_black_list(ip, action) ==
  \/ /\ ~ CanOpen
     /\ UNCHANGED <<kernel, fds>>
  \/ /\ CanOpen
     /\ fds' = fds + 1
     /\ \/ /\ action = "BLOCK"
           /\ black_list' = IF Insertable(ip) THEN black_list \cup {ip} ELSE black_list
           /\ UNCHANGED listed
        \/ /\ action = "UNBLOCK"
           /\ black_list' = black_list \ {ip}
           /\ listed' = listed \ {ip}

FirstRow(S) == {g \in S : \A h \in S : g <= h}

FreeRows == {g \in Rows : count_down[g].ip = 0}

\* One source over the threshold: BLOCK it and note it in the first free row.
BlockNext(v) ==
  /\ pc = "block"
  /\ v \in todo
  /\ todo' = todo \ {v}
  /\ policy_change_black_list(v[2], "BLOCK")
  /\ count_down' = [g \in Rows |-> IF g \in FirstRow(FreeRows)
                                   THEN [ip |-> v[2], at |-> clock]
                                   ELSE count_down[g]]
  /\ UNCHANGED <<clock, crashes, traffic, pc, timing, packets_queue, revents>>

\* The window is over: detect_attackers returns and the queue is emptied.
EndWindow ==
  /\ pc = "block"
  /\ todo = {}
  /\ time_start' = now
  /\ packets_queue' = <<>>
  /\ pc' = "sweep"
  /\ UNCHANGED <<clock, crashes, kernel, traffic, now, prev_time,
                 todo, revents, count_down, fds>>

SweepDue == Since(now, prev_time) = 1
ExpiredRows_Early ==
  {g \in Rows : count_down[g].ip # 0 /\ Since(now, count_down[g].at) >= LOCK_TIME - 1}
ExpiredRows_Late ==
  {g \in Rows : count_down[g].ip # 0 /\ Since(now, count_down[g].at) > LOCK_TIME}
ExpiredRows ==
  {g \in Rows : count_down[g].ip # 0 /\ Since(now, count_down[g].at) >= LOCK_TIME}

\* One row whose lock time is over: UNBLOCK the address and free the row.
Unblock ==
  /\ pc = "sweep"
  /\ SweepDue
  /\ \E g \in FirstRow(ExpiredRows) :
       /\ policy_change_black_list(count_down[g].ip, "UNBLOCK")
       /\ count_down' = [count_down EXCEPT ![g].ip = 0]
  /\ UNCHANGED <<clock, crashes, traffic, pc, timing, packets_queue, todo, revents>>

EndSweep ==
  /\ pc = "sweep"
  /\ SweepDue => ExpiredRows = {}
  /\ prev_time' = IF SweepDue THEN now ELSE prev_time
  /\ pc' = "drain"
  /\ UNCHANGED <<clock, crashes, kernel, traffic, now, time_start,
                 packets_queue, todo, revents, count_down, fds>>

NextRing(c) == c \in revents /\ \A d \in revents : c <= d

Drain_TailKept(c) ==
  /\ pc = "drain"
  /\ NextRing(c)
  /\ packets_queue' = packets_queue \o ring[c]
  /\ revents' = revents \ {c}
  /\ UNCHANGED <<clock, crashes, kernel, traffic, pc, timing, todo, count_down, fds>>

\* bpf_perf_event_read_simple hands every sample of a ring to policy_stats.
Drain(c) ==
  /\ pc = "drain"
  /\ NextRing(c)
  /\ packets_queue' = packets_queue \o ring[c]
  /\ ring' = [ring EXCEPT ![c] = <<>>]
  /\ revents' = revents \ {c}
  /\ UNCHANGED <<clock, crashes, kernel, signalled, arrived, in_flight, pc, timing,
                 todo, count_down, fds>>

\* malloc fails at a sample that wraps around the ring: the samples before
\* it are delivered, and the loop leaves the other rings unread.
DrainError(c) ==
  /\ AllocFails
  /\ pc = "drain"
  /\ NextRing(c)
  /\ \E k \in 0 .. Len(ring[c]) - 1 :
       /\ packets_queue' = packets_queue \o SubSeq(ring[c], 1, k)
       /\ ring' = [ring EXCEPT ![c] = SubSeq(@, k + 1, Len(@))]
  /\ revents' = {}
  /\ pc' = "poll"
  /\ UNCHANGED <<clock, crashes, kernel, signalled, arrived, in_flight, timing,
                 todo, count_down, fds>>

EndDrain ==
  /\ pc = "drain"
  /\ revents = {}
  /\ pc' = "poll"
  /\ UNCHANGED <<clock, crashes, kernel, traffic, timing,
                 packets_queue, todo, revents, count_down, fds>>

-----------------------------------------------------------------------------
(* The process dies: its memory, its rings and its descriptors go, the     *)
(* pinned map stays, and so do the packets under way.  A restart begins    *)
(* with empty tables.                                                      *)

Crash ==
  /\ pc # "down"
  /\ crashes < MaxCrashes
  /\ crashes' = crashes + 1
  /\ pc' = "down"
  /\ ring' = [c \in Cpus |-> <<>>] /\ signalled' = {} /\ revents' = {}
  /\ time_start' = 0 /\ prev_time' = 0
  /\ packets_queue' = <<>> /\ todo' = {} /\ fds' = 0
  /\ count_down' = [g \in Rows |-> Free]
  /\ UNCHANGED <<clock, arrived, in_flight, kernel, now>>

Restart ==
  /\ pc = "down"
  /\ pc' = "poll"
  /\ now' = clock
  /\ UNCHANGED <<clock, crashes, kernel, traffic, time_start, prev_time,
                 packets_queue, todo, revents, count_down, fds>>

-----------------------------------------------------------------------------

Daemon ==
  \/ Poll \/ ReadTime
  \/ \E v \in todo : BlockNext(v)
  \/ EndWindow \/ Unblock \/ EndSweep
  \/ \E c \in Cpus : Drain(c)
  \/ EndDrain

Next ==
  \/ Tick
  \/ \E c \in Cpus, s \in Sources, d \in Destinations : LookUp(c, s, d)
  \/ \E c \in Cpus : Emit(c)
  \/ \E ip \in Listable : UpdateList(ip)
  \/ Daemon
  \/ \E c \in Cpus : DrainError(c)
  \/ Crash \/ Restart

Spec == Init /\ [][Next]_vars

\* poll returns after 250 ms at the latest, so the loop goes on for ever; time
\* passes (strongly fair: the bounds disable Tick now and then, time does not).
FairSpec == Spec /\ WF_vars(Daemon) /\ SF_vars(Tick)

-----------------------------------------------------------------------------
(* Properties.                                                             *)

\* Every variable of the loop and of the kernel has the type the code gives it.
TypeOK ==
  /\ clock \in 1 .. MaxClock /\ arrived \in 0 .. MaxRate
  /\ crashes \in 0 .. MaxCrashes
  /\ black_list \subseteq Address \cup Listable
  /\ listed \subseteq Listable
  /\ ring \in [Cpus -> Seq(Sample)] /\ signalled \subseteq Cpus
  /\ in_flight \in [Cpus -> SUBSET Addresses]
  /\ pc \in {"poll", "time", "block", "sweep", "drain", "down"}
  /\ now \in 1 .. MaxClock
  /\ time_start \in 0 .. MaxClock /\ prev_time \in 0 .. MaxClock
  /\ packets_queue \in Seq(Sample)
  /\ todo \subseteq Policies \X Address
  /\ revents \subseteq Cpus
  /\ count_down \in [Rows -> [ip : Address, at : 0 .. MaxClock]]
  /\ fds \in 0 .. FD_LIMIT

\* The addresses that the daemon has blocked and that no row will let go.
\* (0.0.0.0 never has a row: it is what marks a free one.)
Untimed ==
  {ip \in (black_list \ listed) \ {0} : \A g \in Rows : count_down[g].ip # ip}

\* A block of the daemon comes with a row of count_down that will lift it, and
\* loses it only with the block, whatever update_list, packets and passes come
\* in between.  There are three ways for a block to be without, and no others:
\* the table was full when it was made (start_policy.c:254), the map could not
\* be opened when its time was over and the row was freed all the same
\* (start_policy.c:354-356), or the daemon died.
BlockHasTimer ==
  [][\A ip \in Untimed' \ Untimed :
        \/ ip \notin black_list /\ FreeRows = {}
        \/ ip \in black_list /\ SweepDue /\ ~ CanOpen
        \/ pc' = "down"]_vars

\* The sweep lifts a block only when some row of the address has been there
\* for LOCK_TIME seconds of true time, whatever time the loop works with
\* (start_policy.c:349, "skip if the IP has not served its lock time").
LockServed ==
  [][\A ip \in black_list \ black_list' : \E g \in Rows :
        count_down[g].ip = ip /\ clock >= count_down[g].at + LOCK_TIME]_vars

\* An address that detect_attackers blocked in this second is not lifted in it:
\* a row left from an earlier block does not end the new one.
NewBlockStays ==
  [][\A ip \in black_list \ black_list' : \A g \in Rows :
        count_down[g].ip = ip => count_down[g].at # clock]_vars

\* No block outlasts LOCK_TIME: although the sweep only runs when exactly one
\* second has passed since the last, no row is ever older than its lock time.
LockEnds ==
  \A g \in Rows : count_down[g].ip # 0 => clock <= count_down[g].at + LOCK_TIME

\* The sweep has been done for the second that the loop is in
\* (start_policy.c:342, "each second scan the block status once").
SweptEachSecond == pc = "drain" => prev_time = now

\* The window that the loop counts is never older than INTERVAL
\* (start_policy.c:330, "catch and handle the packets of a fixed interval").
WindowEnds == pc = "sweep" => Since(now, time_start) < INTERVAL

\* Everything the daemon has not judged yet is recent: a sample waits in its
\* ring and then in the queue for at most two seconds more than a window.
JudgedSoon ==
  \A q \in {ring[c] : c \in Cpus} \cup {packets_queue} :
    \A i \in DOMAIN q : clock - q[i].sec <= INTERVAL + 2

\* policy_stats, which has no bound check, never writes past packets_queue.
QueueFits == Len(packets_queue) <= QUEUE_MAX

\* The loop keeps up with time: it sweeps in every second, ends each window in time and leaves no
\* sample to a later one, although it compares times for equality and wakes up only four times a
\* second; so the queue never runs over.
LoopKeepsUp == SweptEachSecond /\ WindowEnds /\ JudgedSoon /\ QueueFits

\* Nothing that the CPUs, the rings or the daemon still hold mentions the
\* address.
Untraced(ip) ==
  /\ \A c \in Cpus : \A p \in in_flight[c] : p.src # ip
  /\ \A c \in Cpus : ip \notin SourcesIn(ring[c])
  /\ ip \notin SourcesIn(packets_queue)
  /\ \A v \in todo : v[2] # ip
  /\ \A g \in Rows : count_down[g].ip # ip

\* A black-listed address of which nothing is held stays so for good.  So an
\* entry of update_list is lifted by the daemon only when packets of the address
\* were past the look-up, sampled or blocked before it was made (the row that
\* start_policy.c:354 goes by does not say who blocked); and a block that a
\* crash leaves behind is permanent.
UntracedStays ==
  [][\A ip \in black_list \ (Phantoms \cup {0}) :
        Untraced(ip) => ip \in black_list' /\ Untraced(ip)']_vars

\* The CPUs whose ring has unread samples that no call of poll will report.
Unreported == {c \in Cpus : ring[c] # <<>> /\ c \notin signalled \cup revents}

\* No wake-up is lost between the kernel, which signals a ring while the loop
\* works, and poll, which takes the signals of all rings at once: samples are
\* left without one only where the read of a ring fails and ends the pass, which
\* leaves that ring and all those after it (start_policy.c:371).
WakeUpsAreKept ==
  [][\A c \in Unreported' \ Unreported :
        pc = "drain" /\ pc' = "poll" /\ c \in revents]_vars

\* Every row is freed: no blocked address keeps its timer for ever.
RowsAreFreed == \A g \in Rows : count_down[g].ip # 0 ~> count_down[g].ip = 0

\* A source over the threshold of a policy is blocked, as long as the daemon
\* can open the map.
OverThreshold(s) == \E p \in Policies :
  Sent(packets_queue, p, s) \div INTERVAL > list_policy[p].threshold
AttackerIsBlocked ==
  \A s \in Sources : OverThreshold(s) ~> (s \in black_list \/ ~ CanOpen)

\* A block that the daemon made is lifted, as long as it can open the map.
BlockIsLifted ==
  \A s \in Sources : s \in black_list \ listed
                       ~> (s \notin black_list \ listed \/ ~ CanOpen)

\* Every block ends: its row is freed for the next attacker, and the address is let through again.
BlocksEnd == RowsAreFreed /\ BlockIsLifted
=============================================================================
