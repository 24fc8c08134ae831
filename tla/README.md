# Formal verification of anti-dos

TLA+ models of the anti-dos program: an XDP packet filter, the user-space
daemon that detects senders over a limit and blocks them for a while, the
tools around them, and the parts of the vendored libbpf on which they stand.
TLC checks the models on small instances; TLAPS proves theorems about the
daemon, the detector, the filter, the loader, the tools and several parts of
libbpf for all values of the constants.  Paths are relative to `src/` unless they
start with `src/`.

## 1. The system

```
   packets                       list/whitelist, list/blacklist
      |                                   |
      v                                   v
 +--------------------+  lookups  +----------------------+
 | xdp_prog_kern      |---------->| white_list (map)     |<-- update_list
 | (one run per       |---------->| black_list (map)     |<-- update_list
 |  packet, each CPU) |           +----------------------+<-- start_policy
 |                    |                                      BLOCK / UNBLOCK
 |  counters ---------+--> xdp_stats_map (per CPU) --> xdp_stats
 |  sample of PASS ---+--> perf_map -> perf rings  --> start_policy
 |  trace messages ---+--> trace_pipe              --> trace_read
 +--------------------+
      ^  attached, maps pinned under /sys/fs/bpf/<dev>
      |
   xdp_loader  --  libbpf: open, load and pin objects; netlink; BTF; AF_XDP
```

### Packet filter (`main/xdp_prog_kern.c`, `main/common/*.h`)

- State: the four maps; per run the packet, the verdict and the sample.
- Operations: parse Ethernet, IPv4, TCP/UDP/ICMP; look the source up in
  `white_list`, then in `black_list`; drop fragments of a SYN and fragmented
  or large ICMP; count packets and bytes by verdict; send a sample of a PASS.
- Hard: every CPU runs it at once with the writers of the lists; eight ways
  out, two of which by-pass the counters.
- Correct when: every packet is accounted for once; of the passed packets none
  lacks a sample but for a failed `bpf_perf_event_output`, whose result nobody
  looks at; a block takes hold at once, but for packets in flight.

### Policy daemon (`main/start_policy.c`, `event_poller` and callees)

- State: `packets_queue`, the table `count_down` of blocked addresses and the
  time of their block, the times of the last window and sweep, the mapped
  rings, and file descriptors it opens and never closes.
- Operations: poll (250 ms); read the clock; once per `INTERVAL` count the
  queue and block who sent too much; once per second lift expired blocks;
  drain the rings.
- Hard: two timers that test for an exact number of seconds; a clock read in
  two places; samples emitted before a block and judged after it; a table, a
  queue and descriptors with limits; a map that survives a crash beside a
  table that does not.
- Correct when: a block has a timer as long as rows and descriptors last, is
  served in full and ends; windows, sweeps and wake-ups are not missed; an entry
  of `update_list` stays unless packets of its address were under way or sampled,
  or a block of it was made, before (the row that lifts it does not say whose
  entry it is).

### Detector (`main/start_policy.c`, `detect_attackers`)

- State: `psi`, a table on the stack, one struct per policy, of which only
  `num_ip` is initialised; one local `num_ip` for all policies.
- Operations: count each packet of the window for each policy; report the
  sources over the threshold.
- Hard: uninitialised rows, indices shared among policies, adjacent arrays.
- Correct when: it computes what exact counting computes.

### Start-up, files and statistics

- `common/common_params.c`, `open_bpf_map_file`, `check_map_fd_info`: options
  set fields of a configuration one after another; then a pinned map is opened
  and compared with expectations kept in a global.  Hard: an exit code
  returned as a descriptor, a table of options without an end.  Correct when:
  a program works in the mode and on the map that were asked for.
- `load_policy`, `update_list`: text files, read with `fscanf` and `fgets`.
  Hard: conversions that fail and consume nothing, ten policies, a full map.
- `main/xdp_stats.c`: reads totals in rounds and prints differences.  Hard:
  packets are counted while it copies.

### Loader and pinning (`main/xdp_loader.c`, `common/common_user_bpf_xdp.c`)

- State: the program on the hook, in generic or native mode; the pins.
- Operations: load, attach (with `--force`: replace, or swap the mode), unpin
  old maps, pin new ones with rollback; unload.
- Hard: a run is a sequence of system calls, each of which may fail or be the
  last; later runs and the other programs start from what is left.
- Correct when: success means complete; the pins are those of the program on
  the hook; no program gets the maps of two objects.

### libbpf (`libbpf/src`)

| Part | State | Hard | Correct when |
|---|---|---|---|
| perf rings, perf buffers | shared memory, head and tail, descriptors, entries of the map | the kernel writes while the reader copies; each CPU can fail in the set-up | samples come out once, whole, in order; nothing leaks |
| hash map | chains of entries | growth in the middle of use, no memory | it is a map |
| netlink | sockets with queued datagrams | late, lost and foreign answers; sequence numbers that are seconds | an answer is the kernel's, of now |
| object: open | sections, maps, programs, relocations | a failure after any of them | the parts fit together, or nothing is left |
| object: load | maps, pins, programs | maps shared by their pins with other processes; retries | programs that can run, or the system as it was |
| object: pin | files | rollback beside other objects' files | one's own files, all or none |
| AF_XDP | rings with cached counters; umem, sockets, program and map shared | wrap-around; two users at once | descriptors come back; nothing is lost or used after its end |
| BTF | types, strings, records | sizes that overflow, sections that end early, merging in a graph with cycles | same types, once; records the kernel takes |
| BTF to C | order and emission states, names | dumps of several types, one of which fails | C that compiles |
| CO-RE | candidate types, kept between relocations | the order of relocations | the fields named by the source are read |
| links | descriptors of events | several threads; a failure at each step | one owner per event |
| program information | a block of arrays | saved and read at another address | lines are found |

### Others

`trace_read` (prints the trace pipe), the tutorial's helpers, kernel headers.

## 2. Modules

Each component is a module with its own variables, `...Init`, one action per
operation or step, `...Next` and `...Spec`.  Names of operators are those of
the functions wherever an operator stands for one function.

| Module | Models | Grain of a step |
|---|---|---|
| `PolicyDaemon` | daemon loop, with lists, rings, clock and `update_list` as its environment | one step of the loop |
| `PolicyDaemonProofs` | its types, blocks, timers and punctuality, proved | |
| `Detector` | `detect_attackers` on flat memory | packet and policy |
| `Counting` | exact counting, the abstract specification of `Detector` | |
| `DetectorProofs` | that a window is judged right, and the refinement of `Counting` | |
| `PacketFilter` | the XDP program, list writers, `xdp_stats`'s copying | access to shared state |
| `PacketFilterProofs` | its types, accounting, samples, blocks and totals, proved | |
| `Loader` | loader runs, hook, pins, openers of pins | system call |
| `PerfRing` | `bpf_perf_event_read_simple` and the kernel's writer | load, store, callback |
| `SampleQueue` | a queue that loses and repeats nothing: the abstract specification of `PerfRing` and of `XskRing` | |
| `PerfSetup` | `setup_perf_poller`; `perf_buffer__new`, `__poll`, `__free` | system call |
| `Programs` | options, opening and checking of maps, as each `main` does it | option, call |
| `TextFiles` | `load_policy`, `load_user_map` | policy, address |
| `Stats` | `stats_poll` | collection, copy, print |
| `ToolsProofs` | proofs about `Loader`, `Programs`, `PerfSetup`, `TextFiles` and `Stats` | |
| `Hashmap` | `hashmap.c` | operation |
| `KeyValues` | key-value pairs, the abstract specification of `Hashmap` | |
| `Netlink` | `netlink.c` | system call, message |
| `MapDefs` | map definitions of the "maps" and ".maps" sections | symbol, field |
| `ObjectOpen` | `__bpf_object__open` | section, phase |
| `ObjectLoad` | `bpf_object__load`, `__unload` | map, program |
| `ProgLoad` | `load_program`, `bpf_load_program_xattr` | attempt |
| `ObjectPin` | pinning of maps, programs and instances | file |
| `XskRing` | the inline functions of `xsk.h` | function; reading or writing a descriptor |
| `XskSocket` | `xsk.c` | phase between system calls on what is shared |
| `BtfRead` | `btf__new`, sizes, resolution, look-up by name | section, question |
| `BtfExt` | `btf_ext__new`, the records of a program | info section |
| `BtfStrings` | `btf_dedup_strings` | string |
| `BtfDedup` | `btf__dedup` of types | type |
| `BtfDump` | `btf_dump__dump_type` | call |
| `CoreReloc` | `bpf_core_reloc_fields` | relocation |
| `Links` | attach functions, `bpf_link__destroy` | system call |
| `ProgInfo` | `prog_info_linear`, `bpf_prog_linfo.c` | call |
| `RingProofs` | proofs about `XskRing` and `PerfRing`, each with its refinement of `SampleQueue` | |
| `LibbpfProofs` | proofs about `Links`, `ObjectPin`, `XskSocket`, `Netlink`, `ObjectOpen`, `ObjectLoad` and `ProgLoad` | |
| `LibbpfDataProofs` | proofs about `Hashmap`, with its refinement of `KeyValues`, `MapDefs`, `BtfExt`, `BtfStrings`, `BtfRead` and `ProgInfo` | |
| `Sums` | running sums: where things lie that lie one after another | |
| `Arithmetic` | lemmas on remainders, least elements and finite sets | |
| `MC_PolicyDaemon`, `MC_PacketFilter` | instances for TLC | |
| `MC_Tools` | instances of `Detector`, `Loader`, `PerfRing`, `PerfSetup`, `Programs`, `TextFiles`, `Stats` | |
| `MC_Libbpf` | instances of all parts of libbpf from `Hashmap` on | |
| `MC_Detector`, `MC_Loader`, `MC_Hashmap`, `MC_BtfStrings` | instances for the findings | |

How the modules stand to each other:

- `PolicyDaemon` takes of the filter that a source is looked up in the lists and
  that the packet's sample is tried later, of the detector which pairs it may report, and of the ring that
  it is a bounded queue.  `PacketFilter`, `Detector` and `PerfRing` (through
  `SampleQueue`) model these in full.
- `Loader` takes from `Programs` the modes a run can start with
  (`LastModeWins`), and from `Netlink` the answers of the kernel.
- `ObjectOpen` takes maps as `MapDefs` reads them; `ObjectLoad` starts where
  `ObjectOpen` ends, and one of its steps is all of `ProgLoad`.
- `CoreReloc` works on types as `BtfRead` has them; `ObjectOpen`'s
  "btf_ext only with btf" is what `BtfExt` may rely on.

`MC_Tools` and `MC_Libbpf` hold parts that share no state with each other.  In
their runs a behaviour belongs to one part, which the variable `which` names
from the start; the variables of the others have one value and do not change.
So a run is the disjoint union of the parts' state spaces, and a property of a
part is checked exactly on that part's behaviours.

### PolicyDaemon

`pc` names the place in the loop: `poll` (before `poll(2)`), `time`, `block`
(inside `detect_attackers`, one block after another), `sweep`, `drain`, and
`down` after a crash.

| Action | Code |
|---|---|
| `Tick` | `time(NULL)` advances; external |
| `LookUp` | `xdp_parser_func` looks the source up and lets the packet pass: from here on the lists do not matter to it |
| `Emit` | `bpf_perf_event_output` of that packet; a full ring, a dead reader or the kernel's own reasons lose the sample |
| `UpdateList` | `update_list`, black list |
| `Poll` | `poll`, and the `revents` it returns |
| `ReadTime` | `time_end`, `now`, the window test and the counting of `detect_attackers` |
| `BlockNext` | one report: `policy_change_black_list(BLOCK)` and the row of `count_down` |
| `EndWindow` | the reset of the window and of the queue |
| `Unblock`, `EndSweep` | the sweep over `count_down` |
| `Drain`, `DrainError`, `EndDrain` | the loop over the rings |
| `Crash`, `Restart` | the process ends, and `main` runs again |

Modelled exactly: tests for equality of seconds, unsigned subtraction (modulo
`Word`), the two readings of the clock, the row search that does not look for
the address, leaked descriptors (`fds`), the lists' survival, and the packet that
each CPU may have between look-up and sample (`in_flight`).  History variables:
`listed` (keys added by `update_list`), `sec` in a sample, `arrived`, `crashes`.  The pairs that uninitialised rows may add are those
over `Phantoms`; the detector module shows where they come from.

### Detector, PacketFilter, Loader

`psi` is a function from word numbers to values, so `psi[j].ip[1][k]` with
`k >= ROWS` lands on the next field, as in C.  Uninitialised words are any of
`Garbage`.  A write outside `psi` leads to `pc = "smashed"`, after which
nothing is claimed.  The refinement of `Counting` maps the pairs that the loops
have behind them to `seen` and the printed lines to `reported`.

`pc[c]` of `PacketFilter` is the next shared access of CPU `c`: `black` (the
second lookup), `count`, `bytes`, `output`.  Parsing touches nothing shared and
is one step with the first lookup (`Receive`).  A packet is a record of what
the program looks at: length, header lengths, protocol, source, fragment and
SYN bits.  `xdp_stats` copies CPU by CPU and word by word (`ReadCpu`), so the
two words of one total need not agree; a total is compared with the true one of
before and after.  `Output` may fail (`missed`, history), as the helper may; the
program goes on in either case.

In `Loader` an object is the number of the run that loaded it.  `attached` maps
a mode to an object, `pins` a name to an object.  `Kill` may happen before any
system call; `KernelFails` is a failure the model has no reason for.
`LinkError` is the kernel's order of checks behind `EOPNOTSUPP`, `EEXIST` and
`EBUSY`.  `fresh` (history) holds the programs that were started between two
runs and have seen none since.

### The rings

`PerfRing` keeps memory word by word: a word knows its record and its place in
it, so a torn or overwritten record shows.  `data_head` and `data_tail` count
modulo `RingWord`, a multiple of the memory as in the code.  The reader's
steps are the load of the head, the fetch of a record (in place, or copied when
it straddles the end, with `malloc` that may fail), the callback and the store
of the tail; the kernel's are the choice of a record, each word, the new head
and the wake-up.  `XskRing` has the two cached counters of each side and checks
the same abstract queue.

### Objects

`ObjectOpen` keeps what is held (`oo_held`) and undoes it as
`bpf_object__close` does; relocations are compared with the map whose symbol
they name.  `ObjectLoad` has instructions as `[op, arg]` before relocation and
what they reach after it; other processes pin maps at any moment
(`OtherPins`).  `ProgLoad` starts from any kernel that is honest (accepts or
refuses, knows shorter records, writes a log of some length, takes buffers up to
a maximum of its own); `log_buf_size` is an `int` that wraps; `EAGAIN` is answered
as often as signals come.  A retry that changes nothing shows as a circle of
states.  `ObjectPin` names a file by directory, kind, number and owner.  Every
unlink may fail, also those of a rollback, whose results the code ignores:
`op_stuck` (history) holds the files that a call could not unlink.

### BTF

A type is a record of kind, name, size or count, names and references; a
section is a sequence of types.  A string section is a sequence of numbers that
stand for strings of different lengths, so that offsets are bytes; the sort of
`BtfStrings` may leave equal strings in any order, as `qsort` does.  The loops of
`BtfRead` and `ProgInfo` are recursive functions of their turns.
`BtfDedup` has the three passes of the code with the
hypothetical map of the struct pass, its failure after a partial match, and the
option `dont_resolve_fwds`; whether all hashes collide is chosen at the start
(`dd_collide`).  `BtfDump` is a function from the state of the dump and a type
to the new state, one call per step.  Any one allocation of a call may fail,
counted in the order in which they are made: those of the states and of the queue
fail the call; those of the declaration stack, of the map of names and of a name
do not, and leave an item that is not whole (`torn`) or a name that may be taken
(`unsure`).  A name is a string, so a duplicate called `A___2` can meet a type of
that name, and is cut at `MaxName`.  The declaration stack may move while an outer
declaration still reads it; the run ends there (`crashed`).  The output is a
sequence of items, without the spelling of declarators.
`CoreReloc` patches one relocation per step and keeps the candidates of each
local type between them; objects are of either byte order, and a field may have
no size.

### Links and line information

`Links` has one table of descriptors that several threads use, so a descriptor
that is closed by one call can be given to another at once; a file of sysfs
without a number gives 0 when `errno` is 0, as `parse_uint_from_file` does.
`ProgInfo` lays the arrays out word by word, so that a pointer can be compared
with the block it should point into, and moves the block, which always lies within
`AddressSpace`.

## 3. Runs

The bounds are named in each module (`Max...` constants and sets of inputs); the
inputs are defined in the `MC_` modules.

| Run | Instance | Shows |
|---|---|---|
| `daemon_lock` | 1 CPU, 2 sources of which `update_list` may list one, 1 policy, lock of 2 s, 2 rows, 3 descriptors, clock to 5 | with a daemon that keeps up: a block is without a timer only for a full table, a map that could not be opened or a crash (`BlockHasTimer`), locks served exactly (`LockServed`, `LockEnds`), no sweep, window, sample or place in the queue missed (`LoopKeepsUp`) |
| `daemon_crash` | 2 CPUs, 2 policies, phantoms, a source that is listed and sends, 1 crash, failed `malloc`, 2 descriptors, clock to 3 | entries of which nothing is under way stay (`UntracedStays`); only a failed read leaves samples without a wake-up (`WakeUpsAreKept`) |
| `daemon_live` | 1 source, a clock that goes round for ever, fairness | attackers are blocked; rows are freed and blocks lifted |
| `filter_counts` | 2 CPUs, 3 packets of 4 kinds, lists written at any time | accounting, samples, blocks, totals |
| `tools_runs` | the seven components of `MC_Tools` | eleven properties, below |
| `libbpf_runs` | the seventeen parts of `MC_Libbpf` | seventeen properties, below |
| `daemon_busy` | a second may pass inside the loop body | **violation** of `LockServed` |
| `daemon_requeue` | lock of 3 s, window of 1 s | **violation** of `NewBlockStays` |
| `detector_garbage` | 2 policies on a dirty stack | **violation** of `ReportsAreTrue` |
| `loader_leftovers` | 3 loads, 1 kill | **violation** of `LeftoversAreCleaned` |
| `hashmap_order` | appended values, a table that grows | **violation** of `FindsLastInserted` |
| `dedup_strings` | a string only a CO-RE relocation refers to | **violation** of `ExtIsHonored` |

`tools_runs`:

| Property | Component | What it says |
|---|---|---|
| `WindowIsJudged` | Detector | a window with no more pairs of policy and source than rows is judged right on a zeroed stack, or for one destination on any |
| `CountsExactly` | Detector | for one policy: refines `Counting` |
| `PinsServeUsers` | Loader | without faults the pins are those of the program on the hook, and programs started between runs read its maps |
| `OneFaultMixesNothing` | Loader | one kill or refusal never leaves the pins of two objects |
| `SuccessIsComplete` | Loader | exit 0 means attached alone, and all maps pinned |
| `RecordsAreServed` | PerfRing | the reader meets whole records only and never sleeps over one |
| `RingIsQueue` | PerfRing | refines `SampleQueue` |
| `RingsAreKept` | PerfSetup | no leak, no entry of a dead ring, no unread CPU in `start_policy`, no forgotten ring in `perf_buffer__poll` |
| `StartsAsAsked` | Programs | the last of `-A -S -N` counts; a program works only on the map it named |
| `FilesAreLoaded` | TextFiles | well-formed files are loaded whole; an overrun has its reason in the file; a list is loaded unless the map is full |
| `RoundsAreWhole` | Stats | each round prints every verdict, and the differences add up |

`libbpf_runs`:

| Property | Part | What it says |
|---|---|---|
| `HashmapIsMap` | Hashmap | refines `KeyValues` |
| `AnswersAreRight` | Netlink | ids are fresh, results are the kernel's, sockets are closed, listings are whole, no wait in vain |
| `DefinitionsAreRead` | MapDefs | maps have the file's values whatever the layout and the order of fields |
| `OpensWholeOrNot` | ObjectOpen | nothing stays held after a failure; relocations name their map |
| `LoadsWholeOrNot` | ObjectLoad | references resolved; a failed load restores the pins and closes all |
| `LoadEnds` | ProgLoad | the retries end when the signals do, and end with success where the kernel accepts and the doubled buffer reaches the log below its maximum |
| `PinsAreKept` | ObjectPin | all or none but for what could not be unlinked and what a loop stopped by that did not come to; others' files stay; `pinned` is true |
| `RingServes` | XskRing | refines `SampleQueue`; a refusal has its reason |
| `SocketsShareSafely` | XskSocket | references, descriptors, rings and map entries have live owners |
| `TypesAreRead` | BtfRead | every type is indexed; sizes are exact or refused |
| `RecordsAreFit` | BtfExt | inside the section, rising, all or none |
| `StringsAreDeduplicated` | BtfStrings | names read the same; each string once |
| `TypesAreDeduplicated` | BtfDedup | no loop in the map; the same graph of types; none twice |
| `PrintsC` | BtfDump | declared before use, once, under unique names, in calls before and after failures; what failures and look-alike names excuse is named |
| `FieldsAreFound` | CoreReloc | one target type explains all patched values; bit-fields are read exactly; existence and offset agree |
| `LinksOwnTheirEvents` | Links | one owner per event, links run their programs, failures leave nothing |
| `LinesAreFound` | ProgInfo | the block is whole wherever it is; searches find the right record |

A property is one conjunction per component: its parts are named, each with a
comment that says what it is about, in the module's last section.  Where the
code has an exception (a descriptor that stays open, a size that is
misread), the property names it, and nothing weaker is claimed.

Why the bounds are enough.

- Daemon: clock 5 with a lock of 2 has a block, its end, and a second block;
  the third second is where a late sweep would show.  In `daemon_lock` the gap
  of one second, the time `poll` may wait (250 ms) rounded up to what
  `time(NULL)` can tell, is the assumption that the daemon keeps up;
  `daemon_busy` drops it, and `daemon_requeue` does not need it.
  In `daemon_lock` two rows are filled by two sources, or by one that is judged
  twice, and three descriptors are used up by two blocks and one end: both
  exceptions of `BlockHasTimer` occur, and it fails without either.  `RING_CAP` is
  reached; `QUEUE_MAX` just holds what the rate allows, to the last entry.
  In `daemon_crash` source 1 both sends and is listed, so an entry of
  `update_list` is made with packets of it in every place.  Two CPUs are needed only for the order of draining and for failed
  reads, one more source only for two rows at once.
- Detector: two rows and four pairs of policy and source overrun the table, and
  two packets per source separate a first packet from the next.
- Filter: two CPUs and three packets let one CPU sample while a block, an
  unblock and a reading happen beside it.
- Loader: four loads let one run leave a state, two more be misled by it, and
  a last one repair it; more faults than two bring no new kind of leftover.
- Perf ring: eight words, samples of three and notices of two: every alignment
  at the end of the memory occurs, and the counters wrap at sixteen; six
  samples fill the ring twice.  AF_XDP: two slots, counters that wrap at eight,
  nine descriptors.
- Set-up: three possible CPUs, of which any may be off-line, and a map of two
  entries: gaps in the numbers and too small a map both occur.
- Files: six tokens are two policies or every way to break one; two policies
  fill the table.
- Hash map: two keys of one bucket and four entries: the table is made, and
  grows with the chain in it.
- Netlink: two calls, so that the second can meet what the first left; two
  seconds, so that both equal and different sequence numbers occur.
- Objects: a file has any subset of six optional sections in LLVM's order, or
  seven in another, and one of ten relocations; three maps and up to three programs with functions; each run has
  one failure at any step (pinning: two failures or files of others, so that the
  rollback of a failed call fails too).  Pinning has two maps, one of them pinned by
  the load, and programs of two instances and of one (`TwoAndOne`): each loop of the
  rollback has something before the place of the failure.
- Program loading: the log is at most 5 long, the first buffer 1; `KernelLogs` has a
  kernel that takes no more than the first buffer and one that takes up to `IntMax`
  = 7.  So the doubling ends with success, with a refusal by the kernel, and in a
  wrapped `int` (4 becomes -8).  One signal interrupts either call.
- BTF: all sections of up to two of nine descriptors and those of three that
  begin with an int; numbers wrap at 16 and chains end at three, so overflow
  and too long a chain occur.  Deduplication: pairs and triples of compilation
  units that know a cycle of three structs from different sides, with enums,
  functions and forward declarations.  BTF to C: four sections, one of them with
  names that look like duplicates of others and names that are cut (`MaxName` = 6);
  three calls, in one of which any one allocation fails: none makes more than
  `MaxAllocs` = 13.  CO-RE: up to three of seven relocations
  in any order against five kernels, and the rare ones alone.
- Links: two threads, two descriptors, three calls: a descriptor closed by one
  thread is reused by the other.

`CHECK_DEADLOCK FALSE` is set wherever a bound (packets, clock, calls) can stop
the model, or a call ends.

### Fairness

`FairSpec` of the daemon has weak fairness of its steps: `poll` returns after
250 ms at the latest, and no call in the loop waits for another process.
`Tick` is strongly fair: the bounds on how much time passes within a pass
disable it now and then, but real time does not stop.  Packets, `update_list`,
crashes and errors have no fairness.  `daemon_live` lets the clock go round
modulo its bound, so that behaviours are infinite without an infinite state
space.  `AttackerIsBlocked` and `BlocksEnd` say "or the map cannot be opened":
the descriptor leak is a fact of the code, and past the limit neither holds.

`LoadEnds` has weak fairness of `load_program` alone: it is one call of one
thread that waits for nobody but the kernel.  What bounds the loop on `EAGAIN` is
that signals end (`MaxSignals`), which is not for the program to see to.  All other parts of `libbpf_runs`
and `tools_runs` are checked without fairness.

## 4. Findings

1. **Early unblock** (`daemon_busy`, `start_policy.c:350`).  A second that begins
   while `detect_attackers` runs makes `now - count_down[1][i]` underflow.
2. **A second row lifts a later block** (`daemon_requeue`, `:254`, `:354`).
   Packets emitted before a block are judged after it and give the address a
   second row; that row ends whatever block it meets.
3. **Invented rates** (`detector_garbage`, `:229`).  With two policies the
   shared `num_ip` takes uninitialised rows in.
4. **Leftover pins** (`loader_leftovers`, `xdp_loader.c:91`).  One pin stands for
   all; after a kill at the wrong moment every later run fails, with its
   program attached and without pins.
5. **Order of appended values** (`hashmap_order`, `libbpf/src/hashmap.c:106`).
   Growing turns chains around, against the comment of `hashmap.h:77`.
6. **Strings of CO-RE relocations** (`dedup_strings`, `libbpf/src/btf.c:1518`).
   Deduplication of strings does not look at them, against the comment of
   `btf.c:1093`.

Both timers of the daemon test for equality of seconds, so a missed second is
missed for good; this shows as `LoopKeepsUp` and the assumption `KeepsUp` of the
theorems.  Exceptions that the properties name are observations too: among
them the descriptor that stays open when libelf cannot begin
(`OpenLeavesNothing`), the descriptor of a reused map (`UnloadClosesAll`), a
program left on the caller's event (`NoProgramIsLeft`), a saved NULL that
comes back as an address (`AstrayHasReason`), a listing that takes in messages
of an earlier call (`ListingIsWhole`).

## 5. Hazards

`PROJECT.json` lists each at its line with the properties that would catch it.
In short: stale reads of the clock, equality tests on time, rows, descriptors
and the queue at their limits, samples judged late, two writers of one map, a
pinned map that outlives a table, uninitialised memory, reading counters while
they change, partial sequences of system calls with and without rollback,
retries, answers that come late, cached counters that wrap, merging in a graph
that changes meanwhile, and state that one call leaves for the next.

Four of the listed hazards have no property, since the code promises nothing once they
strike: more than a table's number of sources in a window (`Detector` models the
overrun of `psi`), an option that the table without an end does not know (`Programs`
models a crash or an exit), a declaration stack that moves under a declaration in use
(`BtfDump` ends there), and the list of CO-RE candidates that is allocated too short
(not modelled).  Others are covered in part, as their notes in `PROJECT.json` say: a
late netlink answer of the same second, map definitions of mixed sizes, a descriptor 40
that is an exit code, pointers of line information that come back as addresses.

Two more things seen in the code have no property: `--unload` in the wrong mode
prints that the program was removed and removes nothing (`Loader` has the
behaviour; no text promises the contrary), and the data length of a short ICMP
packet is a negative difference in 16 bits, which nothing but the trace shows.

## 6. What is proved

All proofs are for arbitrary constants within the named assumptions of the
modules.  These say what the code takes for granted: `ConstantsAssumption` (types,
positive limits, `MaxClock <= Word`), `FilterAssumption` (finitely many CPUs, typed
packets), `DetectorAssumption` (addresses and garbage are words),
`LoaderAssumption` (an object has maps, each named once), `RingAssumption` and
`XskRingAssumption` (a counter's range is a multiple of the ring and longer than
it; a record is shorter than the ring), `SetupAssumption`, `StatsAssumption`,
`FilesAssumption`, `LinksAssumption` (types), `ObjectPinAssumption` (an object with
maps and programs, as `xdp_loader` has it), `XskSocketAssumption` (finitely many
places on a umem), `NetlinkAssumption` (the interface asked for is listed),
`ObjectOpenAssumption` (no section is twice in a file), `ObjectLoadAssumption` (programs
are as LLVM emits them: .text comes first, loads name maps of the object and calls
functions inside .text; maps for global data are not pinned), `ProgLoadAssumption` (types, a
buffer that is not empty, sizes within an `int`), `HashAssumption` (hashes fit the largest table, which has room
for all entries), `MapDefsAssumption` (types of sizes and fields), `BtfExtAssumption`
(records of a section rise and lie in it, as the compiler writes them),
`BtfStringsAssumption` (a section begins with the empty string), `BtfReadAssumption` (types of
descriptors, limits above 0), `ProgInfoAssumption` (types, and `OfKernel`: the lines of a
program rise, its functions lie apart, and the addresses of its last function lie in it and
do not fall, which is what the kernel gives and libbpf does not check).

| Theorem | Statement | Argument |
|---|---|---|
| `TypeCorrect` | `Spec => []TypeOK` of the daemon (proved, not among the runs) | inductive as it stands; lemmas on sequences and on the reported pairs |
| `UntracedIsKept` | `Spec => UntracedStays` | no step makes an unknown black-listed address known: its packets are dropped at the look-up, none is past it, and rows come only from samples |
| `WakeUpsAreNotLost` | `Spec => WakeUpsAreKept` | outside of `poll` and `drain` nothing is left to report (`NoneReported`); one case per step that fills or reads a ring |
| `TimersEnd` | when the loop keeps up, `LockEnds`, `SweptEachSecond`, `WindowEnds` | invariant `TimerInv` |
| `BlocksAreServed` | when the loop keeps up, `LockServed` | `TimerInv` at the only step that lifts a block |
| `LoopAlwaysKeepsUp` | when the loop keeps up and the queue is long enough, `LoopKeepsUp` | invariant `KeepUpInv` |
| `TimersArePresent` | `Spec => BlockHasTimer` | step by step: only `BlockNext` and `Unblock` touch an address and its rows together |
| `WindowAlwaysJudged` | from `CleanStart`, `[]WindowIsJudged` | invariant `DtInv` |
| `CountingIsExact` | when `CountsFitRows`, `CountsExactly` | refinement, step by step, on `DtInv` |
| `TypesAreRight` | `Spec => []TypeOK` of the filter | the parts below together |
| `PacketsAreCountedOnce` | `Spec => []EveryPacketOnce` | inductive relative to the types |
| `SamplesAreThePasses` | `Spec => []SamplesArePasses` | inductive relative to the types |
| `BlocksLeakLittle` | `Spec => []BlockLeaksLittle` | invariant `LeakInv` |
| `TotalsAlwaysReal` | `Spec => []TotalsAreReal` | invariant `ReadInv` |
| `PinsAlwaysServeUsers` | `LdSpec => []PinsServeUsers` | invariant `LdInv` |
| `OneFaultNeverMixes` | `LdSpec => []OneFaultMixesNothing` | invariant `LdInv` |
| `SuccessAlwaysComplete` | `LdSpec => SuccessIsComplete` | `LdInv` at the last step of the pin loop |
| `RecordsAlwaysServed` | `RingSpec => []RecordsAreServed` | invariant `PrInv` |
| `PerfRingIsQueue` | `RingSpec => RingIsQueue` | refinement of `SampleQueue`, on `QueueInv` |
| `RingsServeTheProgram` | `XrSpec => RingServes` | refinement of `SampleQueue`, on `XrInv` |
| `AlwaysStartsAsAsked` | `MainSpec => []StartsAsAsked` | invariant `MainInv` |
| `RingsAlwaysKept` | `SetupSpec => []RingsAreKept` | invariant `SetupInv` |
| `RoundsAlwaysWhole` | when `ClockFits`, `[]RoundsAreWhole` | invariant `StatsInv` |
| `FilesAlwaysLoaded` | `FileSpec => []FilesAreLoaded` | invariant `FileInv` |
| `LinksAlwaysOwn` | `LkSpec => []LinksOwnTheirEvents` | invariant `LkInv` |
| `PinsAlwaysKept` | `OpSpec => []PinsAreKept` | invariant `OpInv`, and the files of others step by step |
| `SocketsAlwaysShareSafely` | `XsSpec => []SocketsShareSafely` | invariant `XsInv` |
| `AnswersAlwaysRight` | `NlSpec => []AnswersAreRight` | invariant `NlInv` |
| `ObjectsAlwaysLoadWhole` | `OlSpec => []LoadsWholeOrNot` | invariant `OlInv` |
| `ObjectsAlwaysOpenWhole` | `OoSpec => []OpensWholeOrNot` | invariant `OoInv` |
| `AcceptedAlwaysLoaded` | `PlSpec => []LoadedIfAccepted` | invariant `PlInv` |
| `RetriesAlwaysEnd` | `PlSpec => EndComesNearer` | `PlMeasure` falls with every step that no signal interrupts, on `PlInv` |
| `HashmapAlwaysMap` | `HashSpec => HashmapIsMap` | refinement of `KeyValues`, on `HashInv` |
| `DefinitionsAlwaysRead` | `MdSpec => []DefinitionsAreRead` | invariants `LegacyInv` and `BtfInv` |
| `RecordsAlwaysFit` | `BeSpec => []RecordsAreFit` | invariant `BeInv` |
| `StringsAlwaysDeduplicated` | `BsSpec => []StringsAreDeduplicated` | invariant `BsInv` |
| `TypesAlwaysRead` | `BtSpec => []TypesAreRead` | invariant `BtInv` |
| `LinesAlwaysFound` | `PiSpec => []LinesAreFound` | invariant `PiInv` |

### The daemon

`KeepsUp` is `~Wraps /\ MaxGap = 1 /\ MaxBusy = 0`: the loop sees every second
and its body runs within one.  The equality tests are right only then, which
is why `LockEnds` alone is not inductive.  `TimerInv` adds that `now` is the
clock in the body, that both timers are set together and are at most one second
behind between two passes, and that an occupied row is younger than
`LOCK_TIME` except in the pass about to sweep it.

`LoopAlwaysKeepsUp` takes besides `KeepsUp` that no `malloc` fails, and that
`packets_queue` holds what arrives in a window and what the rings may bring along
from before it (`MaxRate * INTERVAL + Cardinality(Cpus) * RING_CAP <= QUEUE_MAX`;
`daemon_lock` meets this with equality).  `KeepUpInv` adds to `TimerInv` how old the
samples in rings and queue are, that those of each second are no more than `MaxRate`,
and that those of earlier seconds fit the rings: so the queue has room for them
whenever a ring is drained.

`BlockHasTimer` is a property of steps, and holds whatever time, packets and
`update_list` do: a step that leaves a block without a row is `BlockNext` with a full
table, `Unblock` without a descriptor, or `Crash`.  0.0.0.0 is left out of it, since a
row with address 0 counts as free.  `WakeUpsAreKept` needs of the loop that it only
drains what `poll` has reported, so that a ring is either still to be read or has its
signal.

### The detector

`CleanStart` names the windows that the run checks: all from a table of zeroes when
no packet comes from address 0, and those for one destination on any stack.
For the other windows the property is false (finding 3).  `DtInv` describes the
table under the premise that the window has no more pairs than rows: fresh rows
hold nothing that looks like an address with a count, a row counts what its address has
sent, an address has one row in each policy, and every source counted has one.
That `num_ip` never exceeds the number of pairs is what keeps the accesses inside
`psi`; the struct of each policy is shown apart from the next word by word.
`CountsFitRows` (no more sources than rows, thresholds that fit a word) is what
`Counting` needs to be the right abstraction: beyond it the code loses a source.

### The filter

`BlockLeaksLittle` counts samples since the block.  `LeakInv` adds the CPUs
past the look-up with a packet of the source (`InFlight`): the sum never
exceeds the number of CPUs, a sample moves one from the second term to the
first, and no new one enters while the source is listed.

`TotalsAreReal` says that a total read lies between two true ones.  A sum over CPUs
that is read one CPU at a time is not an invariant of sums: `ReadInv` says that there
are shares per CPU (at the start of the reading, copied so far, last recorded) that
add up to the three numbers the reader keeps, and that each CPU's share lies between
its counters then and now.

### The loader

`LdInv` follows the two loops over the list of maps: the pins behind the pin loop
are the run's own, those ahead of the unpin loop are of one object.  With at most
one fault so far (`OneFaultInv`) the pins that differ are those the run made and
will roll back; without any (`Undisturbed`) the pins are of the object on the hook
whenever a run begins, which is why a program started in between reads the maps of
the program that runs.  `HookIsMine` holds through all faults; `SuccessIsComplete`
needs nothing else.

### The rings

`XrInv` says that there are three true numbers (sent by the kernel, known by the
program to be taken, known by it to be there) of which the eight counters and
copies are remainders, and that a slot between two counters holds the descriptor of
its number.  A copy may be stale by any amount, but on the safe side, and less than
a turn apart; then remainders tell the same as the numbers (`ModApart`).

`PrInv` has the true positions of tail, head and the kernel's writing, and where
each record starts.  The word at each position between tail and head is that word
of that record, in the ring or in the reader's copy when the record straddles the
end.  `RingWord % mmap_size = 0` is used where a position wraps in both.

`QueueInv` adds what `policy_stats` has: the samples among the records before
position `c`, in the order in which they were written.  The samples are collected
by a recursive function (`SamplesOf`); `CollectsExist` shows by induction on
numbers that the function exists, `CollectsAgree` and `CollectsGrow` that later
records change nothing of what was collected before.

### The tools

`MainInv`: at every turn of the option loop the modes in the configuration are those of the
last mode option so far; and information on a map is only of the map that was asked
for, although `open_bpf_map_file` may return an exit code as a descriptor.
`SetupInv`: descriptors, mappings and entries have an owner at every system call, and an
entry is set only after its ring is mapped.  `StatsInv`: readings of one verdict are
apart in time, so no period is 0, and what was printed is the growth since the first
reading.  `ClockFits` (the clock does not go round) is needed for the first part
only.  `FileInv`: while a file keeps its format, token and field are in step; the
list's addresses read so far are in the map or the map is full.

### libbpf

`LkInv`: what is open has one owner, a thread's call or a link or the caller, and
what has an owner is open; a call past a check may rely on it, because
the descriptor cannot have been closed by another thread and given out anew.
`OpInv` says at each step of a pinning or its rollback which files are the call's own
(`Held`), which it knows of (`Known`), has added and has to remove; `Known` makes
the rollback remove just those, or note those it could not remove (`NotUndone`):
for a map that is the file alone in a rollback of `bpf_object__pin_maps`, and all maps after
it where `bpf_object__unpin_maps` stopped.  `XsInv` says for each phase of a call what it
holds and what the umem counts, for the thread's own umem; that entries of the
map and queue numbers in use belong to live sockets ties the threads together.

`NlInv` looks at all that a call has still to read, the rest of its buffer and the
socket (`ToRead`).  For a listing or a get (`ListComes`) the last message of it is the
end of the kernel's answer to this call, every other one is of that answer or was left
by an earlier listing on the caller's socket, and what was not shown yet is still among
them; so the call cannot wait in vain, and a listing that meets an old end early
has a sequence number that was on the socket before (`nl_left`).  For a set
(`VerdictComes`) it is the one verdict.  `ListCut` shows that the list arrives whole and
in order however the kernel cuts it into datagrams, `InfoFound` that `get_xdp_info`
collects all modes from the nested attributes.

`OoInv` says for each section seen so far that it is known by its index in the file
(`OoIndices`), of what is held that something knows of it which frees it (`OoKnown`), and
of each map that its section is that of its type (`OoMaps`).  The sort keeps this
because it yields every map found once: in a strict order of finitely many maps each
place is that of one map (`Ranked`).  A relocation is resolved when all sections are
known; then an index means one section, and the map chosen lies in it.

`OlInv` divides the maps by the phase into those finished, the one at hand and those
ahead, and the open descriptors by what opened them, so that a failure closes and
unpins what this load made (`OlPinned`: the rest is as others left it).  `OlCode` says
that the programs relocated so far are linked: each load has the id of its map, and in a
program that calls, .text stands behind the program's own instructions with its loads
relocated, so that `imm` leads to the function meant (`CallArithmetic`, `LinkedIsResolved`).

`PlInv` says why a try failed: for want of room for the log only when the log is longer
than its buffer, and a program that the kernel accepts for nothing else, as long as the buffer is
within the kernel's maximum (`PlRoom`, which `LogFits` keeps).  So doubling the buffer
ends: `PlMeasure` (the room still lacking, then the steps of one round) falls with
every step, and a size that wrapped is the last.  Only the tries that a signal interrupts
leave it as it is; the code bounds them by nothing.  This is `LoadEnds` but for the fairness
that `load_program` goes on.

### Data of libbpf

What these parts compute, they compute in loops over sequences, which the modules have as
recursive functions of the loop's turn (`Sums`, `Steps`) or as functions of a place.  That a
function on `0 .. n` with given steps exists and is the only one is shown by induction on sets
of numbers (`StepsExist`, `StepsAgree`), and each proof then has one lemma per
turn; `SumsRise` and its like say where things lie that lie one after another, and
the lemmas on `Count` what appending, removing and moving do to a sequence taken as a bag.

`HashmapAlwaysMap` maps a table to the bag of its entries.  `HashInv` is no more than types;
what carries the refinement is that a chain of `k` has all entries of `k`, whatever the
number of buckets, and that growing moves each entry once.  The order of appended values is
not part of `KeyValues` (finding 5).

`LegacyInv`: the definitions made so far are those at the offsets of their symbols, within the
section, with nothing but zeroes beyond a definition's size when that is asked for.  `BtfInv`:
the definition so far holds the sizes of all fields read so far and nothing else
(`BtfFieldsRead`), so what is accepted at the end depends on the set of fields alone.

`BeInv`: a part that is accepted is walked to its end without leaving it, and the
records of a program are those of its section, and after relocation those of .text
moved by the length of the main program; since records of a section rise and those of main lie
below that length, all rise.

`BsInv` follows the passes: the index has every string at its offset; strings are sorted by
some order that keeps equal strings together (any of them: `qsort` is not stable), and of each
group that is used one is written behind the last; offsets of references are then
looked up in the index.  `TmpIs` says of the groups finished that what is written is
their strings, each once.

`BtInv` says that the types indexed so far are those of the section in order (`ReadInOrder`)
while the section is sound, and that every answer is what the resolving function gives.  What
`btf__resolve_size` gives is compared with the size in C by following the chain of types: its
product of dimensions is exact or refused, for every chain that ends within
`MAX_RESOLVE_DEPTH`.

`PiInv` has the block as the kernel wrote it (`BlockOf`): arrays lie apart, each word is
that of its record, and pointers count from the address of the block or from 0.  A pointer that the
kernel left 0 never leads into the block, wherever that is moved (`HiddenIsOutside`), so
it is noticed or followed amiss only after a move.  `FuncsFound` says that the
index of each function is its first record; with `OfKernel` the records from there to the
next function rise, so the last one not after an address is its line.

### Only model-checked

- Liveness (`AttackerIsBlocked`, `BlocksEnd`, `LoadEnds`): fairness and ENABLED
  are beyond the prover.  What needs neither is proved: `TimersEnd` bounds the time of a
  block, `RetriesAlwaysEnd` the number of retries.
- `BtfDedup`, `BtfDump` and `CoreReloc` (`TypesAreDeduplicated`, `PrintsC`, `FieldsAreFound`)
  recur along the references of types: their operators are recursive in the shape of the
  data, several of them mutually and not along any number that the code counts.  What they
  compute for every input needs induction over that data, which is beyond the
  prover.
- The properties of the violation runs are false, and the README's findings say
  under which conditions; `BlocksAreServed` and `WindowAlwaysJudged` show that
  outside of these conditions the first and the third are true.

## 7. What is not modelled

- Ports, sequence numbers, data length and trace messages of the filter: no
  decision depends on them.  IPv6: passed unread, as any packet not IPv4.
- `trace_read`: it copies the kernel's trace pipe to the terminal and keeps no
  state that another part reads.
- `-M` of the loader: `pin_dir` is never set, so it always fails.
- Two daemons at once, which would fight over `perf_map`.
- The tutorial's helpers (`common/common_libbpf.c`, `parsing_helpers.h`,
  `rewrite_helpers.h`, `xdp_stats_kern.h`): no program of
  `main/` calls them.
- Headers and generated tables (half of the repository's lines): constants,
  prototypes and layouts, without behaviour.
- Of libbpf: the probes of the running kernel (`libbpf_probes.c`) and thin
  wrappers of single system calls (`bpf.c`, but for program loading); loading
  BTF into the kernel and reading it back; externs of the kernel's
  configuration; guessing types from section names (a table); parsing of CPU
  masks; alignment, padding and the spelling of declarators in `btf_dump`;
  reading and writing of record sizes below the minimum in `bpf_prog_linfo`.
  These are tables, text, or one system call with its error code passed on.

## 8. Plan

Done, in this order: the daemon loop and its proofs (the heart of the system
and its hardest timing), the detector and its refinement, the filter and its
proofs, the loader; then the perf ring with its refinement, start-up, files and
statistics; then libbpf from the hash map to the links.

Proved since, in this order: the rest of the daemon and the filter; the loader;
the links; the rings; pinning; the tools; the sockets; the detector with its
refinement; netlink; loading and opening of objects.

Proved last: the parts of libbpf that work on data, from the hash map to the line
information.  What is left, and why, is in section 6 under "Only model-checked".

## 9. Running the checks

In this directory, with the TLA+ tools on the path:

```
tlc -workers 2 -config PolicyDaemon_lock.cfg MC_PolicyDaemon
tlc -workers 2 -config Libbpf_runs.cfg MC_Libbpf
tlapm PolicyDaemonProofs.tla
tlapm DetectorProofs.tla
tlapm PacketFilterProofs.tla
tlapm RingProofs.tla
tlapm ToolsProofs.tla
tlapm LibbpfProofs.tla
tlapm LibbpfDataProofs.tla
tlapm Arithmetic.tla
```

The `Operator_Variant` definitions in the modules (for instance
`ExpiredRows_Early`) are faulty versions of an operator.  Each property is
violated when the operator named under `mutants` in `PROJECT.json` is replaced
by its variant: the property notices that mistake.
