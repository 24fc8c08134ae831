------------------------------ MODULE PerfSetup -----------------------------
(***************************************************************************)
(* How the perf rings come and go: setup_perf_poller of start_policy, which *)
(* leaves cleaning up to the end of the process, and perf_buffer__new,     *)
(* perf_buffer__poll and perf_buffer__free of libbpf, which do not.        *)
(*                                                                         *)
(* Both go over the CPUs and take for each a file descriptor, a mapping of *)
(* its memory and an entry of the map of rings.  Any call may fail.        *)
(***************************************************************************)
EXTENDS Integers, FiniteSets

CONSTANTS
  Possible,      \* the number of CPUs of the machine
  max_entries,   \* the size of the map of rings
  MaxSetupFaults \* bound: failed calls

ASSUME SetupAssumption ==
  Possible \in Nat \ {0} /\ max_entries \in Nat \ {0} /\ MaxSetupFaults \in Nat

VARIABLES
  api,      \* "poller" for setup_perf_poller, "buffer" for perf_buffer__new
  online,   \* the CPUs that are online
  setup,    \* where it is: a label and the CPU it is at
  held,     \* what it holds: <<kind, CPU>>, or <<kind, -1>> for what has no CPU
  cpu_bufs, \* the CPUs whose perf_cpu_buf is stored in pb->cpu_bufs
  entries,  \* the keys of the map that lead to a ring
  pending,  \* the CPUs with records not read
  woken,    \* the CPUs that epoll_wait would report
  ready,    \* the CPUs that it did report and that are still to be read
  unserved, \* history: the CPUs reported to a perf_buffer__poll that then failed
  setup_faults

setupVars ==
  <<api, online, setup, held, cpu_bufs, entries, pending, woken, ready, unserved, setup_faults>>
pollVars == <<pending, woken, ready, unserved>>

SetupInit ==
  /\ api \in {"poller", "buffer"}
  /\ online \in SUBSET (0 .. Possible - 1) \ {{}}
  /\ setup = [pc |-> "start", cpu |-> 0]
  /\ held = {} /\ cpu_bufs = {} /\ entries = {}
  /\ pending = {} /\ woken = {} /\ ready = {} /\ unserved = {}
  /\ setup_faults = 0

\* get_nprocs counts the CPUs that are online; perf_buffer__new takes all that
\* are possible, as far as the map has room for them.
cpu_cnt ==
  IF api = "poller" THEN Cardinality(online)
  ELSE IF max_entries < Possible THEN max_entries ELSE Possible

SetupGoto(label, c) == setup' = [pc |-> label, cpu |-> c]
Fails == setup_faults < MaxSetupFaults /\ setup_faults' = setup_faults + 1
Succeeds == UNCHANGED setup_faults

\* The loop over the CPUs: perf_buffer__open_cpu_buf begins with a calloc.
ForCpu(c) ==
  IF c < cpu_cnt THEN SetupGoto(IF api = "poller" THEN "fd" ELSE "alloc", c)
  ELSE SetupGoto("ready", 0)

\* An error ends start_policy, or leads through perf_buffer__free.
SetupError(label, c) == IF api = "poller" THEN SetupGoto("exit", 0) ELSE SetupGoto(label, c)

-----------------------------------------------------------------------------
(* Setting up.                                                             *)

\* perf_buffer__new checks the page count and the map, and holds nothing yet.
SetupChecks ==
  /\ setup.pc = "start"
  /\ \/ /\ Succeeds
        /\ IF api = "poller" THEN ForCpu(0) ELSE SetupGoto("new", 1)
     \/ /\ api = "buffer" /\ Fails
        /\ SetupGoto("failed", 0)
  /\ UNCHANGED <<api, online, held, cpu_bufs, entries, pollVars>>

\* What it then makes, one after another; without a pb there is nothing to free.
NewParts == <<"pb", "epoll", "events", "cpu_bufs">>

NewPart ==
  /\ setup.pc = "new"
  /\ LET k == setup.cpu IN
     \/ /\ Succeeds
        /\ held' = held \cup {<<NewParts[k], -1>>}
        /\ IF k < 4 THEN SetupGoto("new", k + 1) ELSE ForCpu(0)
     \/ /\ Fails
        /\ SetupGoto(IF k = 1 THEN "failed" ELSE "free", 0)
        /\ UNCHANGED held
  /\ UNCHANGED <<api, online, cpu_bufs, entries, pollVars>>

AllocCpuBuf ==
  /\ setup.pc = "alloc"
  /\ \/ /\ Succeeds
        /\ held' = held \cup {<<"cpu_buf", setup.cpu>>}
        /\ SetupGoto("fd", setup.cpu)
     \/ /\ Fails
        /\ SetupGoto("free", 0)
        /\ UNCHANGED held
  /\ UNCHANGED <<api, online, cpu_bufs, entries, pollVars>>

\* perf_event_open wants a CPU that is online.
OpenEvent ==
  /\ setup.pc = "fd"
  /\ \/ /\ setup.cpu \in online
        /\ Succeeds
        /\ held' = held \cup {<<"fd", setup.cpu>>}
        /\ SetupGoto("mmap", setup.cpu)
     \/ /\ IF setup.cpu \in online THEN Fails ELSE Succeeds
        /\ SetupError("undo", setup.cpu)
        /\ UNCHANGED held
  /\ UNCHANGED <<api, online, cpu_bufs, entries, pollVars>>

MapRing ==
  /\ setup.pc = "mmap"
  /\ \/ /\ Succeeds
        /\ held' = held \cup {<<"base", setup.cpu>>}
        /\ SetupGoto("enable", setup.cpu)
     \/ /\ Fails
        /\ SetupError("undo", setup.cpu)
        /\ UNCHANGED held
  /\ UNCHANGED <<api, online, cpu_bufs, entries, pollVars>>

\* The ioctl that enables the event: start_policy does not look at its result,
\* perf_buffer__open_cpu_buf does, and its caller then stores the perf_cpu_buf.
EnableEvent ==
  /\ setup.pc = "enable"
  /\ \/ /\ Succeeds
        /\ SetupGoto("entry", setup.cpu)
        /\ cpu_bufs' = IF api = "buffer" THEN cpu_bufs \cup {setup.cpu} ELSE {}
     \/ /\ api = "buffer" /\ Fails
        /\ SetupGoto("undo", setup.cpu)
        /\ UNCHANGED cpu_bufs
  /\ UNCHANGED <<api, online, held, entries, pollVars>>

\* The way out of perf_buffer__open_cpu_buf: perf_buffer__free_cpu_buf.
UndoCpuBuf ==
  /\ setup.pc = "undo"
  /\ held' = held \ {<<kind, setup.cpu>> : kind \in {"base", "fd", "cpu_buf"}}
  /\ SetupGoto("free", 0)
  /\ UNCHANGED <<api, online, cpu_bufs, entries, pollVars, setup_faults>>

\* The entry of the map; start_policy asserts that there is no error.
SetEntry ==
  /\ setup.pc = "entry"
  /\ \/ /\ Succeeds
        /\ entries' = entries \cup {setup.cpu}
        /\ IF api = "poller" THEN ForCpu(setup.cpu + 1) ELSE SetupGoto("epoll", setup.cpu)
     \/ /\ Fails
        /\ SetupError("free", 0)
        /\ UNCHANGED entries
  /\ UNCHANGED <<api, online, held, cpu_bufs, pollVars>>

AddToEpoll ==
  /\ setup.pc = "epoll"
  /\ \/ Succeeds /\ ForCpu(setup.cpu + 1)
     \/ Fails /\ SetupGoto("free", 0)
  /\ UNCHANGED <<api, online, held, cpu_bufs, entries, pollVars>>

-----------------------------------------------------------------------------
(* Freeing and polling.                                                    *)

FreeCpuBuf_EntryKept ==
  /\ setup.pc = "free"
  /\ setup.cpu < cpu_cnt /\ setup.cpu \in cpu_bufs
  /\ held' = held \ {<<kind, setup.cpu>> : kind \in {"base", "fd", "cpu_buf"}}
  /\ SetupGoto("free", setup.cpu + 1)
  /\ UNCHANGED <<api, online, cpu_bufs, entries, pollVars, setup_faults>>

\* perf_buffer__free, also called by its user: CPU after CPU, up to the first
\* that is not stored, the entry goes before the ring does.
FreeCpuBuf ==
  /\ setup.pc = "free"
  /\ setup.cpu < cpu_cnt /\ setup.cpu \in cpu_bufs
  /\ entries' = entries \ {setup.cpu}
  /\ held' = held \ {<<kind, setup.cpu>> : kind \in {"base", "fd", "cpu_buf"}}
  /\ SetupGoto("free", setup.cpu + 1)
  /\ UNCHANGED <<api, online, cpu_bufs, pollVars, setup_faults>>

FreeRest ==
  /\ setup.pc = "free"
  /\ ~ (setup.cpu < cpu_cnt /\ setup.cpu \in cpu_bufs)
  /\ held' = held \ {<<NewParts[k], -1>> : k \in DOMAIN NewParts}
  /\ SetupGoto("failed", 0)
  /\ pending' = {} /\ woken' = {} /\ ready' = {}
  /\ UNCHANGED <<api, online, cpu_bufs, entries, unserved, setup_faults>>

\* A record for a CPU whose entry is set (bpf_perf_event_output).
Record(c) ==
  /\ c \in online \cap entries
  /\ pending' = pending \cup {c}
  /\ woken' = woken \cup {c}
  /\ UNCHANGED <<api, online, setup, held, cpu_bufs, entries, ready, unserved, setup_faults>>

\* perf_buffer__poll: epoll_wait takes the wake-ups back.
EpollWait ==
  /\ api = "buffer" /\ setup.pc = "ready" /\ ready = {}
  /\ woken # {}
  /\ ready' = woken
  /\ woken' = {}
  /\ unserved' = unserved \ woken
  /\ UNCHANGED <<api, online, setup, held, cpu_bufs, entries, pending, setup_faults>>

\* The rings are read in turn, and the first error ends the call (a failed
\* malloc, or a record of unknown type).
ProcessRecords(c) ==
  /\ setup.pc = "ready" /\ c \in ready
  /\ \/ Succeeds /\ pending' = pending \ {c} /\ ready' = ready \ {c} /\ UNCHANGED unserved
     \/ Fails /\ ready' = {} /\ unserved' = unserved \cup ready /\ UNCHANGED pending
  /\ UNCHANGED <<api, online, setup, held, cpu_bufs, entries, woken>>

\* The user is done with the buffer, between two calls.
UserFrees ==
  /\ api = "buffer" /\ setup.pc = "ready" /\ ready = {}
  /\ SetupGoto("free", 0)
  /\ UNCHANGED <<api, online, held, cpu_bufs, entries, pollVars, setup_faults>>

SetupNext ==
  \/ SetupChecks \/ NewPart \/ AllocCpuBuf \/ OpenEvent \/ MapRing \/ EnableEvent
  \/ UndoCpuBuf \/ SetEntry \/ AddToEpoll \/ FreeCpuBuf \/ FreeRest
  \/ EpollWait \/ UserFrees
  \/ \E c \in 0 .. Possible - 1 : Record(c) \/ ProcessRecords(c)

SetupSpec == SetupInit /\ [][SetupNext]_setupVars

-----------------------------------------------------------------------------
(* Properties.                                                             *)

\* A perf_buffer__new that fails, and a perf_buffer__free, leave nothing behind:
\* no descriptor, mapping or memory, and no entry of the map.
NothingLeaks == setup.pc = "failed" => held = {} /\ entries = {}

\* An entry never leads to a ring whose descriptor is closed or whose memory is
\* unmapped (perf_buffer__free deletes before it closes).
EntriesAreAlive == \A c \in entries : {<<"fd", c>>, <<"base", c>>} \subseteq held

\* When start_policy begins to poll, every CPU that may run the XDP program has
\* a ring, although n counts CPUs and perf_event_open takes a CPU's number: a
\* gap in the numbers makes the start fail, never a CPU go unread.
PollerReadsAllCpus == api = "poller" /\ setup.pc = "ready" => online \subseteq entries

\* No record waits unannounced, except in the rings that a failed
\* perf_buffer__poll was told of and did not come to.
PolledIsRead == setup.pc = "ready" => pending \subseteq woken \cup ready \cup unserved

\* Rings come and go without a leak, and none is left unread.
RingsAreKept == NothingLeaks /\ EntriesAreAlive /\ PollerReadsAllCpus /\ PolledIsRead
=============================================================================
