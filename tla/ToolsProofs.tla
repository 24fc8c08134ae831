----------------------------- MODULE ToolsProofs -----------------------------
(***************************************************************************)
(* Proofs about the programs beside the daemon's loop: how a program       *)
(* starts (Programs), what xdp_loader keeps true of the hook and of the    *)
(* pins (Loader), how the rings are set up and taken down (PerfSetup), how *)
(* policies and lists are read (TextFiles) and what xdp_stats prints       *)
(* (Stats), for any number of options, maps, runs, faults, CPUs, failing   *)
(* calls, verdicts, packets and rounds.                                    *)
(***************************************************************************)
EXTENDS Programs, Loader, PerfSetup, TextFiles, Stats, Arithmetic, FiniteSetTheorems

-----------------------------------------------------------------------------
(* Programs.                                                               *)

Labels ==
  {"parse", "exit", "load", "detach", "ask", "open", "check", "recheck", "start", "work",
   "change"}

MainTypeOK ==
  /\ prog \in Started
  /\ parsed \in Seq(Options)
  /\ main_cfg \in [flags : SUBSET {"NOEXIST", "SKB", "DRV", "HW"}, dev : BOOLEAN,
                   unload : BOOLEAN, reuse : BOOLEAN,
                   bind : SUBSET {"COPY", "ZEROCOPY"}, verbose : BOOLEAN]
  /\ main_pc \in Labels

\* The modes in main_cfg are those of the last mode option at every turn of the loop, and
\* not only at its end: of the loader's, whose flags begin with the native mode.
ModeSoFar ==
  prog = "xdp_loader" =>
    \/ ModeArgs = {} /\ main_cfg.flags \cap ModeFlags = {"DRV"}
    \/ \E m \in ModeArgs : /\ \A j \in ModeArgs : j <= m
                           /\ main_cfg.flags \cap ModeFlags = ModeOf[parsed[m]]

\* What a descriptor is worth: before the first map is opened info is zero, and when it is
\* checked it is still zero if the descriptor is the exit code.
InfoSoFar ==
  /\ main_pc \in {"load", "detach"} => prog = "xdp_loader"
  /\ main_pc \in {"ask", "open", "check", "start"} => prog # "xdp_loader"
  /\ main_pc \in {"parse", "ask", "open"} => info = "zero"
  /\ main_pc = "check" => map_fd = mapname \/ info = "zero"
  /\ main_pc = "start" => map_fd = mapname

MainInv == MainTypeOK /\ ModeSoFar /\ InfoSoFar

\* The record of the configuration after any option, and the modes in it: a mode option
\* sets its own, every other leaves them.
LEMMA OptionType ==
  ASSUME MainTypeOK, NEW o \in Options
  PROVE  /\ ApplyOption(o) \in [flags : SUBSET {"NOEXIST", "SKB", "DRV", "HW"}, dev : BOOLEAN,
                                unload : BOOLEAN, reuse : BOOLEAN,
                                bind : SUBSET {"COPY", "ZEROCOPY"}, verbose : BOOLEAN]
         /\ o \in DOMAIN ModeOf => ApplyOption(o).flags \cap ModeFlags = ModeOf[o]
         /\ o \notin DOMAIN ModeOf =>
              ApplyOption(o).flags \cap ModeFlags = main_cfg.flags \cap ModeFlags
  <1>. DEFINE cfgs == [flags : SUBSET {"NOEXIST", "SKB", "DRV", "HW"}, dev : BOOLEAN,
                       unload : BOOLEAN, reuse : BOOLEAN,
                       bind : SUBSET {"COPY", "ZEROCOPY"}, verbose : BOOLEAN]
  <1>1. main_cfg \in cfgs
    BY DEF MainTypeOK
  <1>2. \A mode \in {{}, {"SKB"}, {"DRV"}} :
          WithMode(mode) \in cfgs /\ WithMode(mode).flags \cap ModeFlags = mode
    BY <1>1 DEF WithMode, ModeFlags
  <1>3. CASE o \in {"A", "S", "N"}
    <2>1. /\ o = "A" => ApplyOption(o) = WithMode({})
          /\ o = "N" => ApplyOption(o) = WithMode({"DRV"})
          /\ o = "S" => ApplyOption(o) = [WithMode({"SKB"}) EXCEPT
                                            !.bind = (@ \cap {"ZEROCOPY"}) \cup {"COPY"}]
      BY <1>3 DEF ApplyOption
    <2>2. DOMAIN ModeOf = {"A", "S", "N"} /\ ModeOf["A"] = {} /\ ModeOf["S"] = {"SKB"}
            /\ ModeOf["N"] = {"DRV"}
      BY DEF ModeOf
    <2>. QED BY <1>2, <1>3, <2>1, <2>2
  <1>4. CASE o \notin {"A", "S", "N"}
    <2>1. ApplyOption(o) \in cfgs
            /\ ApplyOption(o).flags \in {main_cfg.flags, main_cfg.flags \ {"NOEXIST"}}
      BY <1>1, <1>4, ZenonT(60) DEF ApplyOption, Options
    <2>. QED BY <1>4, <2>1 DEF ModeOf, ModeFlags
  <1>. QED BY <1>3, <1>4

\* The three requirements of an inductive invariant.
LEMMA MainInvInit == MainInit => MainInv
  <1>. SUFFICES ASSUME MainInit PROVE MainInv
    OBVIOUS
  <1>. USE DEF MainInit
  <1>1. MainTypeOK
    BY DEF MainTypeOK, Labels, Options
  <1>2. ModeArgs = {}
    BY DEF ModeArgs
  <1>3. ModeSoFar
    BY <1>2 DEF ModeSoFar, ModeFlags
  <1>4. InfoSoFar
    BY DEF InfoSoFar
  <1>. QED BY <1>1, <1>3, <1>4 DEF MainInv

\* Every step of a program's start keeps the invariant.
LEMMA MainInvStep == MainInv /\ [MainNext]_mainVars => MainInv'
  <1>. SUFFICES ASSUME MainInv, [MainNext]_mainVars PROVE MainInv'
    OBVIOUS
  <1>. USE DEF MainInv
  <1>1. ASSUME NEW o \in Options, ParseOption(o) PROVE MainInv'
    <2>1. MainTypeOK'
      BY <1>1, OptionType DEF MainTypeOK, ParseOption, Exit, Continue, Labels
    <2>2. ModeSoFar'
      <3>. SUFFICES ASSUME prog = "xdp_loader" PROVE ModeSoFar'
        BY <1>1 DEF ParseOption, ModeSoFar
      <3>. PICK n \in Nat : n = Len(parsed) /\ DOMAIN parsed = 1 .. n
        BY DEF MainTypeOK
      <3>1. /\ DOMAIN parsed' = 1 .. n + 1
            /\ parsed'[n + 1] = o
            /\ \A k \in 1 .. n : parsed'[k] = parsed[k]
        BY <1>1 DEF MainTypeOK, ParseOption
      <3>2. CASE o \in DOMAIN ModeOf
        <4>1. ModeArgs' = ModeArgs \cup {n + 1}
          BY <3>1, <3>2 DEF ModeArgs
        <4>2. \A j \in ModeArgs' : j <= n + 1
          BY <3>1 DEF ModeArgs
        <4>3. main_cfg'.flags \cap ModeFlags = ModeOf[o]
          BY <1>1, <3>2, OptionType DEF ParseOption
        <4>. QED BY <3>1, <4>1, <4>2, <4>3 DEF ModeSoFar
      <3>3. CASE o \notin DOMAIN ModeOf
        <4>1. ModeArgs' = ModeArgs
          BY <3>1, <3>3 DEF ModeArgs
        <4>2. \A k \in ModeArgs : parsed'[k] = parsed[k]
          BY <3>1 DEF ModeArgs
        <4>3. main_cfg'.flags \cap ModeFlags = main_cfg.flags \cap ModeFlags
          BY <1>1, <3>3, OptionType DEF ParseOption
        <4>. QED BY <4>1, <4>2, <4>3 DEF ModeSoFar
      <3>. QED BY <3>2, <3>3
    <2>3. InfoSoFar'
      BY <1>1 DEF InfoSoFar, ParseOption, Exit, Continue
    <2>. QED BY <2>1, <2>2, <2>3
  <1>2. ASSUME NEW name, Opened(name), UNCHANGED <<prog, parsed, main_cfg, mapname>>,
               main_pc = "open" => name = mapname, main_pc \in {"open", "work"}
        PROVE  MainInv'
    <2>1. MainTypeOK'
      BY <1>2 DEF MainTypeOK, Opened, Exit, Continue, Labels
    <2>2. ModeSoFar'
      BY <1>2 DEF ModeSoFar, ModeArgs
    <2>3. InfoSoFar'
      BY <1>2 DEF InfoSoFar, Opened, Exit, Continue
    <2>. QED BY <2>1, <2>2, <2>3
  <1>3. CASE CheckMap
    <2>1. MainTypeOK' /\ ModeSoFar'
      BY <1>3 DEF MainTypeOK, CheckMap, Exit, Continue, Labels, ModeSoFar, ModeArgs
    <2>2. info = "zero" => ~ check_map_fd_info(map_expect[prog])
      <3>1. prog \in {"start_policy", "xdp_stats", "update_list"}
        BY <1>3 DEF InfoSoFar, MainTypeOK, Started, CheckMap
      <3>2. map_expect[prog][1] = 4
        BY <3>1 DEF map_expect
      <3>3. Shape["zero"][1] = 0
        BY DEF Shape
      <3>. QED BY <3>2, <3>3 DEF check_map_fd_info
    <2>3. InfoSoFar'
      BY <1>3, <2>2 DEF InfoSoFar, CheckMap, Exit, Continue
    <2>. QED BY <2>1, <2>3
  <1>4. CASE ReadPastTable \/ EndOptions \/ AskName \/ BeginWork \/ RecheckMap \/ ChangeMap
             \/ UNCHANGED mainVars
    <2>1. MainTypeOK'
      BY <1>4 DEF MainTypeOK, ReadPastTable, EndOptions, AskName, BeginWork, RecheckMap, ChangeMap,
        mainVars, Exit, Continue, Labels
    <2>2. ModeSoFar'
      BY <1>4 DEF ReadPastTable, EndOptions, AskName, BeginWork, RecheckMap, ChangeMap,
        mainVars, ModeSoFar, ModeArgs
    <2>3. InfoSoFar'
      BY <1>4 DEF MainTypeOK, Started, ReadPastTable, EndOptions, AskName, BeginWork, RecheckMap,
        ChangeMap, mainVars, Exit, Continue, InfoSoFar
    <2>. QED BY <2>1, <2>2, <2>3
  <1>5. CASE OpenMap
    BY <1>2, <1>5 DEF OpenMap
  <1>6. CASE ReopenMap
    BY <1>2, <1>6 DEF ReopenMap
  <1>. QED BY <1>1, <1>3, <1>4, <1>5, <1>6 DEF MainNext

\* The invariant starts the programs as they were asked.
LEMMA MainInvStarts == MainInv => StartsAsAsked
  <1>. SUFFICES ASSUME MainInv PROVE LastModeWins /\ StartsOnItsMap
    BY DEF StartsAsAsked
  <1>1. StartsOnItsMap
    BY DEF MainInv, InfoSoFar, StartsOnItsMap
  <1>2. ASSUME main_pc \in {"load", "detach"}
        PROVE  main_cfg.flags \cap ModeFlags =
                 IF ModeArgs = {} THEN {"DRV"}
                 ELSE ModeOf[parsed[CHOOSE k \in ModeArgs : \A j \in ModeArgs : j <= k]]
    <2>1. prog = "xdp_loader"
      BY <1>2 DEF MainInv, InfoSoFar
    <2>2. CASE ModeArgs = {}
      BY <2>1, <2>2 DEF MainInv, ModeSoFar
    <2>3. CASE ModeArgs # {}
      <3>. PICK m \in ModeArgs : /\ \A j \in ModeArgs : j <= m
                                 /\ main_cfg.flags \cap ModeFlags = ModeOf[parsed[m]]
        BY <2>1, <2>3 DEF MainInv, ModeSoFar
      <3>. DEFINE c == CHOOSE k \in ModeArgs : \A j \in ModeArgs : j <= k
      <3>1. c \in ModeArgs /\ \A j \in ModeArgs : j <= c
        OBVIOUS
      <3>2. ModeArgs \subseteq Nat
        BY DEF MainInv, MainTypeOK, ModeArgs
      <3>3. c <= m /\ m <= c /\ c \in Nat /\ m \in Nat
        BY <3>1, <3>2
      <3>4. c = m
        BY ONLY <3>3
      <3>. QED BY <2>3, <3>4
    <2>. QED BY <2>2, <2>3
  <1>. QED BY <1>1, <1>2 DEF LastModeWins

\* A started program stays well-formed, knows the mode its options ask for at every turn of
\* the loop, and never takes a descriptor for a map's that is none.
THEOREM MainInvariant == MainSpec => []MainInv
  BY MainInvInit, MainInvStep, PTL DEF MainSpec

\* However many options there are and in whatever order, the last of -A, -S and -N counts;
\* and a program begins its work only on the map it asked for, although a failed
\* open_bpf_map_file can return an exit code that looks like a descriptor.
THEOREM AlwaysStartsAsAsked == MainSpec => []StartsAsAsked
  BY MainInvariant, MainInvStarts, PTL

-----------------------------------------------------------------------------
(* PerfSetup: setup_perf_poller, and perf_buffer__new, __poll and __free.  *)

SetupPcs == {"start", "new", "alloc", "fd", "mmap", "enable", "undo", "entry", "epoll",
             "ready", "free", "failed", "exit"}

\* What is held once, and what is held for a CPU.
Parts == {"pb", "epoll", "events", "cpu_bufs"}
CpuKinds == {"base", "fd", "cpu_buf"}
Resources == {<<p, -1>> : p \in Parts} \cup {<<k, c>> : k \in CpuKinds, c \in Nat}

SetupTypeOK ==
  /\ api \in {"poller", "buffer"}
  /\ online \in SUBSET (0 .. Possible - 1)
  /\ setup \in [pc : SetupPcs, cpu : Nat]
  /\ held \subseteq Resources
  /\ cpu_bufs \subseteq Nat
  /\ entries \subseteq Nat
  /\ setup.pc = "new" => setup.cpu \in 1 .. 4
  /\ api = "poller" =>
       setup.pc \in {"start", "fd", "mmap", "enable", "entry", "ready", "exit"}
  /\ api = "buffer" => setup.pc # "exit"

\* The perf_cpu_bufs are stored in the order of the CPUs, without a gap, and the
\* loop has stored those below the CPU it is at.
BufsInOrder ==
  api = "buffer" =>
    /\ \A c \in cpu_bufs : c < cpu_cnt
    /\ \A c \in cpu_bufs : \A d \in Nat : d < c => d \in cpu_bufs
    /\ setup.pc \in {"start", "new"} => cpu_bufs = {}
    /\ setup.pc \in {"alloc", "fd", "mmap", "enable", "undo"} =>
         setup.cpu < cpu_cnt /\ \A c \in Nat : c \in cpu_bufs <=> c < setup.cpu
    /\ setup.pc \in {"entry", "epoll"} =>
         setup.cpu < cpu_cnt /\ \A c \in Nat : c \in cpu_bufs <=> c <= setup.cpu

\* What is held for a CPU belongs to a stored perf_cpu_buf or to the one that is
\* being made, so that perf_buffer__free comes by it, and has not yet.
HeldIsOwned ==
  api = "buffer" =>
    /\ \A k \in CpuKinds, c \in Nat : <<k, c>> \in held =>
         \/ c \in cpu_bufs
         \/ setup.pc \in {"fd", "mmap", "enable", "undo"} /\ c = setup.cpu
    /\ setup.pc = "free" =>
         \A k \in CpuKinds, c \in Nat : <<k, c>> \in held => c >= setup.cpu
    /\ setup.pc = "start" => held = {}
    /\ setup.pc = "new" /\ setup.cpu = 1 => held = {}
    /\ setup.pc = "failed" => held = {}

EntriesAreOwned ==
  api = "buffer" =>
    /\ entries \subseteq cpu_bufs
    /\ setup.pc = "free" => \A c \in entries : c >= setup.cpu
    /\ setup.pc = "failed" => entries = {}

\* A CPU gets its descriptor and its mapping before it gets its entry.
RingBeforeEntry ==
  /\ EntriesAreAlive
  /\ setup.pc \in {"mmap", "enable", "entry"} => <<"fd", setup.cpu>> \in held
  /\ setup.pc \in {"enable", "entry"} => <<"base", setup.cpu>> \in held
  /\ setup.pc = "undo" => setup.cpu \notin entries

\* setup_perf_poller has set the entries of the CPUs below the one it is at, and
\* each of them is online.
PollerInOrder ==
  api = "poller" =>
    /\ setup.pc = "start" => entries = {}
    /\ setup.pc \in {"fd", "mmap", "enable", "entry"} =>
         \A d \in Nat : d < setup.cpu => d \in entries \cap online
    /\ setup.pc \in {"mmap", "enable", "entry"} => setup.cpu \in online
    /\ setup.pc = "ready" => \A d \in Nat : d < cpu_cnt => d \in entries \cap online

NothingUnannounced == pending \subseteq woken \cup ready \cup unserved

SetupInv ==
  /\ SetupTypeOK
  /\ BufsInOrder
  /\ HeldIsOwned
  /\ EntriesAreOwned
  /\ RingBeforeEntry
  /\ PollerInOrder
  /\ NothingUnannounced

-----------------------------------------------------------------------------
\* The online CPUs can be counted.
LEMMA CpuCntFacts ==
  ASSUME SetupTypeOK
  PROVE  cpu_cnt \in Nat /\ IsFiniteSet(online)
  <1>1. IsFiniteSet(0 .. Possible - 1)
    BY SetupAssumption, FS_Interval
  <1>2. IsFiniteSet(online)
    BY <1>1, FS_Subset DEF SetupTypeOK
  <1>3. Cardinality(online) \in Nat
    BY <1>2, FS_CardinalityType
  <1>4. QED
    BY <1>2, <1>3, SetupAssumption DEF cpu_cnt

\* The invariant holds before a ring is set up.
LEMMA SetupInvInit == SetupInit => SetupInv
  BY DEF SetupInit, SetupInv, SetupTypeOK, SetupPcs, BufsInOrder, HeldIsOwned,
     EntriesAreOwned, RingBeforeEntry, EntriesAreAlive, PollerInOrder, NothingUnannounced


\* Every step of the set-up keeps the invariant.
LEMMA SetupInvStep == SetupInv /\ [SetupNext]_setupVars => SetupInv'
  <1> SUFFICES ASSUME SetupInv, [SetupNext]_setupVars PROVE SetupInv'
    OBVIOUS
  <1>i. /\ SetupTypeOK /\ BufsInOrder /\ HeldIsOwned /\ EntriesAreOwned
        /\ RingBeforeEntry /\ PollerInOrder /\ NothingUnannounced
    BY DEF SetupInv
  <1>c. cpu_cnt \in Nat
    BY <1>i, CpuCntFacts
  <1>u. UNCHANGED <<api, online>>
    BY DEF SetupNext, setupVars, SetupChecks, NewPart, AllocCpuBuf, OpenEvent, MapRing,
       EnableEvent, UndoCpuBuf, SetEntry, AddToEpoll, FreeCpuBuf, FreeRest, EpollWait,
       UserFrees, Record, ProcessRecords
  <1>d. cpu_cnt' = cpu_cnt
    BY <1>u DEF cpu_cnt
  <1>n. setup.cpu \in Nat /\ setup.pc \in SetupPcs
    BY <1>i DEF SetupTypeOK
  <1>1. CASE SetupChecks
    <2>1. SetupTypeOK'
      BY <1>1, <1>i, <1>c, <1>d, <1>u
      DEF SetupChecks, ForCpu, SetupGoto, SetupTypeOK, SetupPcs, Resources, CpuKinds
    <2>2. BufsInOrder'
      BY <1>1, <1>i, <1>c, <1>d, <1>u
      DEF SetupChecks, ForCpu, SetupGoto, SetupTypeOK, BufsInOrder
    <2>3. HeldIsOwned'
      BY <1>1, <1>i, <1>c, <1>d, <1>u
      DEF SetupChecks, ForCpu, SetupGoto, SetupTypeOK, HeldIsOwned, CpuKinds, Resources
    <2>4. EntriesAreOwned'
      BY <1>1, <1>i, <1>c, <1>d, <1>u
      DEF SetupChecks, ForCpu, SetupGoto, SetupTypeOK, EntriesAreOwned, BufsInOrder
    <2>5. RingBeforeEntry'
      BY <1>1, <1>i, <1>c, <1>d, <1>u
      DEF SetupChecks, ForCpu, SetupGoto, SetupTypeOK, RingBeforeEntry, EntriesAreAlive
    <2>6. PollerInOrder'
      BY <1>1, <1>i, <1>c, <1>d, <1>u
      DEF SetupChecks, ForCpu, SetupGoto, SetupTypeOK, PollerInOrder
    <2>7. NothingUnannounced'
      BY <1>1, <1>i, <1>c, <1>d, <1>u
      DEF SetupChecks, ForCpu, SetupGoto, SetupTypeOK, NothingUnannounced, pollVars
    <2> QED BY <2>1, <2>2, <2>3, <2>4, <2>5, <2>6, <2>7 DEF SetupInv
  <1>2. CASE NewPart
    <2>1. SetupTypeOK' /\ BufsInOrder' /\ HeldIsOwned'
      BY <1>2, <1>i, <1>c, <1>d, <1>u
      DEF NewPart, NewParts, ForCpu, SetupGoto, Parts, SetupTypeOK, SetupPcs, Resources,
          CpuKinds, BufsInOrder, HeldIsOwned
    <2>2. EntriesAreOwned' /\ RingBeforeEntry' /\ PollerInOrder' /\ NothingUnannounced'
      BY <1>2, <1>i, <1>c, <1>d, <1>u
      DEF NewPart, NewParts, ForCpu, SetupGoto, Parts, SetupTypeOK, Resources,
          BufsInOrder, HeldIsOwned, EntriesAreOwned, RingBeforeEntry, EntriesAreAlive,
          PollerInOrder, NothingUnannounced, pollVars
    <2> QED BY <2>1, <2>2 DEF SetupInv
  <1>3. CASE AllocCpuBuf
    <2>1. SetupTypeOK' /\ BufsInOrder' /\ HeldIsOwned'
      BY <1>3, <1>i, <1>c, <1>d, <1>u
      DEF AllocCpuBuf, SetupGoto, SetupTypeOK, SetupPcs, Resources, CpuKinds,
          BufsInOrder, HeldIsOwned
    <2>2. EntriesAreOwned' /\ RingBeforeEntry' /\ PollerInOrder' /\ NothingUnannounced'
      BY <1>3, <1>i, <1>c, <1>d, <1>u
      DEF AllocCpuBuf, SetupGoto, SetupTypeOK, Resources, BufsInOrder, HeldIsOwned,
          EntriesAreOwned, RingBeforeEntry, EntriesAreAlive, PollerInOrder,
          NothingUnannounced, pollVars
    <2> QED BY <2>1, <2>2 DEF SetupInv
  <1>4. CASE OpenEvent
    <2>1. SetupTypeOK' /\ BufsInOrder' /\ HeldIsOwned'
      BY <1>4, <1>i, <1>c, <1>d, <1>u
      DEF OpenEvent, SetupError, SetupGoto, SetupTypeOK, SetupPcs, Resources, CpuKinds,
          BufsInOrder, HeldIsOwned
    <2>2. EntriesAreOwned' /\ RingBeforeEntry' /\ PollerInOrder' /\ NothingUnannounced'
      BY <1>4, <1>i, <1>c, <1>d, <1>u
      DEF OpenEvent, SetupError, SetupGoto, SetupTypeOK, Resources, BufsInOrder,
          HeldIsOwned, EntriesAreOwned, RingBeforeEntry, EntriesAreAlive, PollerInOrder,
          NothingUnannounced, pollVars
    <2> QED BY <2>1, <2>2 DEF SetupInv
  <1>5. CASE MapRing
    <2>1. SetupTypeOK' /\ BufsInOrder' /\ HeldIsOwned'
      BY <1>5, <1>i, <1>c, <1>d, <1>u
      DEF MapRing, SetupError, SetupGoto, SetupTypeOK, SetupPcs, Resources, CpuKinds,
          BufsInOrder, HeldIsOwned
    <2>2. EntriesAreOwned' /\ RingBeforeEntry' /\ PollerInOrder' /\ NothingUnannounced'
      BY <1>5, <1>i, <1>c, <1>d, <1>u
      DEF MapRing, SetupError, SetupGoto, SetupTypeOK, Resources, BufsInOrder,
          HeldIsOwned, EntriesAreOwned, RingBeforeEntry, EntriesAreAlive, PollerInOrder,
          NothingUnannounced, pollVars
    <2> QED BY <2>1, <2>2 DEF SetupInv
  <1>6. CASE EnableEvent
    <2>0. cpu_bufs' \subseteq Nat
      BY <1>6, <1>i, <1>n DEF EnableEvent, SetupTypeOK
    <2>1. SetupTypeOK'
      BY <1>6, <1>i, <1>c, <1>d, <1>u, <2>0
      DEF EnableEvent, SetupGoto, SetupTypeOK, SetupPcs, Resources, CpuKinds
    <2>2. BufsInOrder'
      <3> SUFFICES ASSUME api = "buffer" PROVE BufsInOrder'
        BY <1>u DEF BufsInOrder
      <3>1. setup.cpu < cpu_cnt /\ \A c \in Nat : c \in cpu_bufs <=> c < setup.cpu
        BY <1>6, <1>i DEF EnableEvent, BufsInOrder
      <3>2. CASE /\ setup'.pc = "entry" /\ setup'.cpu = setup.cpu
                 /\ cpu_bufs' = cpu_bufs \cup {setup.cpu}
        <4>1. \A c \in Nat : c \in cpu_bufs' <=> c <= setup.cpu
          BY <1>n, <3>1, <3>2
        <4>2. \A c \in cpu_bufs' : c \in Nat /\ c <= setup.cpu
          BY <2>0, <4>1
        <4>3. QED
          BY <1>c, <1>d, <1>n, <3>1, <3>2, <4>1, <4>2 DEF BufsInOrder
      <3>3. CASE setup'.pc = "undo" /\ setup'.cpu = setup.cpu /\ cpu_bufs' = cpu_bufs
        BY <1>i, <1>d, <3>1, <3>3 DEF BufsInOrder
      <3>4. QED
        BY <1>6, <3>2, <3>3 DEF EnableEvent, SetupGoto
    <2>3. HeldIsOwned'
      BY <1>6, <1>i, <1>c, <1>d, <1>u
      DEF EnableEvent, SetupGoto, SetupTypeOK, HeldIsOwned, CpuKinds, Resources
    <2>4. EntriesAreOwned'
      BY <1>6, <1>i, <1>c, <1>d, <1>u
      DEF EnableEvent, SetupGoto, SetupTypeOK, EntriesAreOwned
    <2>5. RingBeforeEntry'
      BY <1>6, <1>i, <1>c, <1>d, <1>u
      DEF EnableEvent, SetupGoto, SetupTypeOK, RingBeforeEntry, EntriesAreAlive,
          EntriesAreOwned, BufsInOrder
    <2>6. PollerInOrder'
      BY <1>6, <1>i, <1>c, <1>d, <1>u
      DEF EnableEvent, SetupGoto, SetupTypeOK, PollerInOrder
    <2>7. NothingUnannounced'
      BY <1>6, <1>i, <1>c, <1>d, <1>u
      DEF EnableEvent, SetupGoto, SetupTypeOK, NothingUnannounced, pollVars
    <2> QED BY <2>1, <2>2, <2>3, <2>4, <2>5, <2>6, <2>7 DEF SetupInv
  <1>7. CASE UndoCpuBuf
    <2>1. SetupTypeOK' /\ BufsInOrder' /\ HeldIsOwned'
      BY <1>7, <1>i, <1>c, <1>d, <1>u
      DEF UndoCpuBuf, SetupGoto, SetupTypeOK, SetupPcs, Resources, CpuKinds,
          BufsInOrder, HeldIsOwned
    <2>2. EntriesAreOwned' /\ RingBeforeEntry' /\ PollerInOrder' /\ NothingUnannounced'
      BY <1>7, <1>i, <1>c, <1>d, <1>u
      DEF UndoCpuBuf, SetupGoto, SetupTypeOK, Resources, BufsInOrder, HeldIsOwned,
          EntriesAreOwned, RingBeforeEntry, EntriesAreAlive, PollerInOrder,
          NothingUnannounced, pollVars
    <2> QED BY <2>1, <2>2 DEF SetupInv
  <1>8. CASE SetEntry
    <2>0. entries' \subseteq Nat
      BY <1>8, <1>i, <1>n DEF SetEntry, SetupTypeOK
    <2>1. SetupTypeOK'
      BY <1>8, <1>i, <1>c, <1>d, <1>u, <2>0
      DEF SetEntry, ForCpu, SetupError, SetupGoto, SetupTypeOK, SetupPcs, Resources,
          CpuKinds
    <2>2. BufsInOrder'
      BY <1>8, <1>i, <1>c, <1>d, <1>u
      DEF SetEntry, ForCpu, SetupError, SetupGoto, SetupTypeOK, BufsInOrder
    <2>3. HeldIsOwned'
      BY <1>8, <1>i, <1>c, <1>d, <1>u
      DEF SetEntry, ForCpu, SetupError, SetupGoto, SetupTypeOK, HeldIsOwned, CpuKinds,
          Resources
    <2>e. setup.pc = "entry" /\ entries' \subseteq entries \cup {setup.cpu}
      BY <1>8 DEF SetEntry
    <2>4. EntriesAreOwned'
      <3>1. api = "buffer" => setup.cpu \in cpu_bufs
        BY <1>i, <1>n, <2>e DEF BufsInOrder
      <3>2. setup'.pc # "failed" /\ (setup'.pc = "free" => setup'.cpu = 0)
        BY <1>8 DEF SetEntry, ForCpu, SetupError, SetupGoto
      <3>3. cpu_bufs' = cpu_bufs
        BY <1>8 DEF SetEntry
      <3>4. QED
        BY <1>i, <1>u, <2>0, <2>e, <3>1, <3>2, <3>3 DEF EntriesAreOwned
    <2>5. RingBeforeEntry'
      <3>1. setup'.pc \notin {"mmap", "enable", "entry", "undo"} /\ held' = held
        BY <1>8 DEF SetEntry, ForCpu, SetupError, SetupGoto
      <3>2. QED
        BY <1>i, <2>e, <3>1 DEF RingBeforeEntry, EntriesAreAlive
    <2>6. PollerInOrder'
      BY <1>8, <1>i, <1>c, <1>d, <1>u
      DEF SetEntry, ForCpu, SetupError, SetupGoto, SetupTypeOK, PollerInOrder
    <2>7. NothingUnannounced'
      BY <1>8, <1>i, <1>c, <1>d, <1>u
      DEF SetEntry, ForCpu, SetupError, SetupGoto, SetupTypeOK, NothingUnannounced,
          pollVars
    <2> QED BY <2>1, <2>2, <2>3, <2>4, <2>5, <2>6, <2>7 DEF SetupInv
  <1>9. CASE AddToEpoll
    <2>1. SetupTypeOK' /\ BufsInOrder' /\ HeldIsOwned'
      BY <1>9, <1>i, <1>c, <1>d, <1>u
      DEF AddToEpoll, ForCpu, SetupGoto, SetupTypeOK, SetupPcs, Resources, CpuKinds,
          BufsInOrder, HeldIsOwned
    <2>2. EntriesAreOwned' /\ RingBeforeEntry' /\ PollerInOrder' /\ NothingUnannounced'
      BY <1>9, <1>i, <1>c, <1>d, <1>u
      DEF AddToEpoll, ForCpu, SetupGoto, SetupTypeOK, Resources, BufsInOrder,
          HeldIsOwned, EntriesAreOwned, RingBeforeEntry, EntriesAreAlive, PollerInOrder,
          NothingUnannounced, pollVars
    <2> QED BY <2>1, <2>2 DEF SetupInv
  <1>10. CASE FreeCpuBuf
    <2>0. entries' \subseteq Nat
      BY <1>10, <1>i, <1>n DEF FreeCpuBuf, SetupTypeOK
    <2>1. SetupTypeOK'
      BY <1>10, <1>i, <1>c, <1>d, <1>u, <2>0
      DEF FreeCpuBuf, SetupGoto, SetupTypeOK, SetupPcs, Resources, CpuKinds
    <2>2. BufsInOrder'
      BY <1>10, <1>i, <1>c, <1>d, <1>u
      DEF FreeCpuBuf, SetupGoto, SetupTypeOK, BufsInOrder
    <2>3. HeldIsOwned'
      BY <1>10, <1>i, <1>c, <1>d, <1>u
      DEF FreeCpuBuf, SetupGoto, SetupTypeOK, HeldIsOwned, CpuKinds, Resources
    <2>4. EntriesAreOwned'
      <3>1. \A c \in entries' : c \in Nat /\ c \in entries /\ c # setup.cpu
        BY <1>10, <2>0 DEF FreeCpuBuf
      <3>2. QED
        BY <1>10, <1>i, <1>n, <1>u, <3>1 DEF FreeCpuBuf, SetupGoto, EntriesAreOwned
    <2>5. RingBeforeEntry'
      BY <1>10, <1>i, <1>c, <1>d, <1>u
      DEF FreeCpuBuf, SetupGoto, SetupTypeOK, RingBeforeEntry, EntriesAreAlive
    <2>6. PollerInOrder'
      BY <1>10, <1>i, <1>c, <1>d, <1>u
      DEF FreeCpuBuf, SetupGoto, SetupTypeOK, PollerInOrder
    <2>7. NothingUnannounced'
      BY <1>10, <1>i, <1>c, <1>d, <1>u
      DEF FreeCpuBuf, SetupGoto, SetupTypeOK, NothingUnannounced, pollVars
    <2> QED BY <2>1, <2>2, <2>3, <2>4, <2>5, <2>6, <2>7 DEF SetupInv
  <1>11. CASE FreeRest
    <2>1. SetupTypeOK' /\ BufsInOrder' /\ HeldIsOwned'
      BY <1>11, <1>i, <1>c, <1>d, <1>u
      DEF FreeRest, NewParts, Parts, SetupGoto, SetupTypeOK, SetupPcs, Resources,
          CpuKinds, BufsInOrder, HeldIsOwned
    <2>2. EntriesAreOwned' /\ RingBeforeEntry' /\ PollerInOrder' /\ NothingUnannounced'
      BY <1>11, <1>i, <1>c, <1>d, <1>u
      DEF FreeRest, NewParts, Parts, SetupGoto, SetupTypeOK, Resources, BufsInOrder,
          HeldIsOwned, EntriesAreOwned, RingBeforeEntry, EntriesAreAlive, PollerInOrder,
          NothingUnannounced, pollVars
    <2> QED BY <2>1, <2>2 DEF SetupInv
  <1>12. CASE EpollWait
    <2>1. SetupTypeOK' /\ BufsInOrder' /\ HeldIsOwned'
      BY <1>12, <1>i, <1>c, <1>d, <1>u
      DEF EpollWait, SetupTypeOK, SetupPcs, Resources, CpuKinds, BufsInOrder,
          HeldIsOwned
    <2>2. EntriesAreOwned' /\ RingBeforeEntry' /\ PollerInOrder' /\ NothingUnannounced'
      BY <1>12, <1>i, <1>c, <1>d, <1>u
      DEF EpollWait, SetupTypeOK, Resources, BufsInOrder, HeldIsOwned, EntriesAreOwned,
          RingBeforeEntry, EntriesAreAlive, PollerInOrder, NothingUnannounced, pollVars
    <2> QED BY <2>1, <2>2 DEF SetupInv
  <1>13. CASE UserFrees
    <2>1. SetupTypeOK' /\ BufsInOrder' /\ HeldIsOwned'
      BY <1>13, <1>i, <1>c, <1>d, <1>u
      DEF UserFrees, SetupGoto, SetupTypeOK, SetupPcs, Resources, CpuKinds, BufsInOrder,
          HeldIsOwned
    <2>2. EntriesAreOwned' /\ RingBeforeEntry' /\ PollerInOrder' /\ NothingUnannounced'
      BY <1>13, <1>i, <1>c, <1>d, <1>u
      DEF UserFrees, SetupGoto, SetupTypeOK, Resources, BufsInOrder, HeldIsOwned,
          EntriesAreOwned, RingBeforeEntry, EntriesAreAlive, PollerInOrder,
          NothingUnannounced, pollVars
    <2> QED BY <2>1, <2>2 DEF SetupInv
  <1>14. CASE \E c \in 0 .. Possible - 1 : Record(c)
    <2>1. SetupTypeOK' /\ BufsInOrder' /\ HeldIsOwned'
      BY <1>14, <1>i, <1>c, <1>d, <1>u
      DEF Record, SetupTypeOK, SetupPcs, Resources, CpuKinds, BufsInOrder, HeldIsOwned
    <2>2. EntriesAreOwned' /\ RingBeforeEntry' /\ PollerInOrder' /\ NothingUnannounced'
      BY <1>14, <1>i, <1>c, <1>d, <1>u
      DEF Record, SetupTypeOK, Resources, BufsInOrder, HeldIsOwned, EntriesAreOwned,
          RingBeforeEntry, EntriesAreAlive, PollerInOrder, NothingUnannounced, pollVars
    <2> QED BY <2>1, <2>2 DEF SetupInv
  <1>15. CASE \E c \in 0 .. Possible - 1 : ProcessRecords(c)
    <2>1. SetupTypeOK' /\ BufsInOrder' /\ HeldIsOwned'
      BY <1>15, <1>i, <1>c, <1>d, <1>u
      DEF ProcessRecords, SetupTypeOK, SetupPcs, Resources, CpuKinds, BufsInOrder,
          HeldIsOwned
    <2>2. EntriesAreOwned' /\ RingBeforeEntry' /\ PollerInOrder' /\ NothingUnannounced'
      BY <1>15, <1>i, <1>c, <1>d, <1>u
      DEF ProcessRecords, SetupTypeOK, Resources, BufsInOrder, HeldIsOwned,
          EntriesAreOwned, RingBeforeEntry, EntriesAreAlive, PollerInOrder,
          NothingUnannounced, pollVars
    <2> QED BY <2>1, <2>2 DEF SetupInv
  <1>16. CASE UNCHANGED setupVars
    BY <1>16, <1>i, <1>c, <1>d, <1>u
    DEF setupVars, SetupInv, SetupTypeOK, SetupPcs, Resources, CpuKinds, BufsInOrder,
        HeldIsOwned, CpuKinds, Resources, EntriesAreOwned, RingBeforeEntry,
        EntriesAreAlive, PollerInOrder, NothingUnannounced, pollVars
  <1>17. QED
    BY <1>1, <1>2, <1>3, <1>4, <1>5, <1>6, <1>7, <1>8, <1>9, <1>10, <1>11, <1>12, <1>13,
       <1>14, <1>15, <1>16
    DEF SetupNext

\* The rings are as the invariant says in every reachable state.
THEOREM SetupInvariant == SetupSpec => []SetupInv
  <1>1. SetupInit => SetupInv
    BY SetupInvInit
  <1>2. SetupInv /\ [SetupNext]_setupVars => SetupInv'
    BY SetupInvStep
  <1>3. QED
    BY <1>1, <1>2, PTL DEF SetupSpec

\* A set of CPU numbers that has n members and holds all of 0 to n-1 holds no other.
LEMMA CountedFromZero ==
  ASSUME NEW S, IsFiniteSet(S), S \subseteq Nat,
         \A d \in Nat : d < Cardinality(S) => d \in S
  PROVE  \A c \in S : c < Cardinality(S)
  <1> DEFINE n == Cardinality(S)
  <1>1. n \in Nat
    BY FS_CardinalityType
  <1>2. Cardinality(0 .. n - 1) = n
    BY <1>1, FS_Interval
  <1>3. 0 .. n - 1 \subseteq S
    BY <1>1
  <1>4. 0 .. n - 1 = S
    BY <1>2, <1>3, FS_Subset
  <1>5. QED
    BY <1>1, <1>4

\* What perf_buffer__new and __free promise of descriptors, mappings and entries,
\* perf_buffer__poll of the records it was told of, and setup_perf_poller of the
\* CPUs that are online: whichever call fails, and with any gaps between the CPUs.
THEOREM RingsAlwaysKept == SetupSpec => []RingsAreKept
  <1>1. SetupInv => RingsAreKept
    <2> SUFFICES ASSUME SetupInv PROVE RingsAreKept
      OBVIOUS
    <2>1. NothingLeaks
      BY DEF SetupInv, SetupTypeOK, HeldIsOwned, EntriesAreOwned, NothingLeaks
    <2>2. EntriesAreAlive /\ PolledIsRead
      BY DEF SetupInv, RingBeforeEntry, NothingUnannounced, PolledIsRead
    <2>3. PollerReadsAllCpus
      <3> SUFFICES ASSUME api = "poller", setup.pc = "ready" PROVE online \subseteq entries
        BY DEF PollerReadsAllCpus
      <3>1. cpu_cnt = Cardinality(online)
        BY DEF cpu_cnt
      <3>2. \A d \in Nat : d < Cardinality(online) => d \in entries \cap online
        BY <3>1 DEF SetupInv, PollerInOrder
      <3>3. IsFiniteSet(online) /\ online \subseteq Nat
        BY CpuCntFacts, SetupAssumption DEF SetupInv, SetupTypeOK
      <3>4. \A c \in online : c < Cardinality(online)
        BY <3>2, <3>3, CountedFromZero
      <3>5. QED
        BY <3>2, <3>3, <3>4
    <2>4. QED
      BY <2>1, <2>2, <2>3 DEF RingsAreKept
  <1>2. QED
    BY SetupInvariant, <1>1, PTL

-----------------------------------------------------------------------------
(* Stats.                                                                  *)

\* The clock does not go round: it is a number of nanoseconds in 64 bits.
ClockFits == MaxTime <= StatsWord

Totals == [Keys -> 0 .. StatsWord - 1]
Readings == [Keys -> [timestamp : 0 .. StatsWord, packets : 0 .. StatsWord - 1]]

StatsTypeOK ==
  /\ counted \in [Keys -> Nat] /\ time \in 1 .. StatsWord
  /\ stats_pc \in {"first", "sleep", "copy", "collect"} /\ key \in Nat
  /\ record \in Readings /\ prev \in Readings /\ first \in Readings
  /\ rows \subseteq Keys /\ until \in Nat
  /\ printed \in Totals

\* The readings of a collection that is under way are not older than the round, and later
\* than those before; between collections every reading is, so that no period is 0.
InTime ==
  /\ stats_pc = "first" => \A k \in Keys : k < key => 1 <= record[k].timestamp
  /\ stats_pc \in {"first", "sleep", "collect"} => \A k \in Keys : record[k].timestamp <= time
  /\ stats_pc = "sleep" =>
       \A k \in Keys : 1 <= record[k].timestamp /\ record[k].timestamp < until
  /\ stats_pc = "copy" =>
       \A k \in Keys : 1 <= record[k].timestamp /\ record[k].timestamp < time
  /\ stats_pc = "collect" =>
       \A k \in Keys : /\ 1 <= prev[k].timestamp /\ prev[k].timestamp < time
                       /\ k < key => prev[k].timestamp < record[k].timestamp

\* What is printed adds up to the last reading, or while the next is collected to the one
\* before; the first reading is taken before anything is printed.
SumsSoFar ==
  /\ stats_pc = "first" => \A k \in Keys : printed[k] = 0
  /\ stats_pc \in {"sleep", "copy"} =>
       \A k \in Keys : printed[k] = (record[k].packets - first[k].packets) % StatsWord
  /\ stats_pc = "collect" =>
       \A k \in Keys : printed[k] = (prev[k].packets - first[k].packets) % StatsWord
  /\ stats_pc = "first" => prev = NoReading
  /\ stats_pc = "sleep" => prev = NoReading \/ rows = Keys

StatsInv == StatsTypeOK /\ InTime /\ SumsSoFar

\* The sizes of the counters.
LEMMA StatsSizes == Actions \in Nat \ {0} /\ StatsWord \in Nat \ {0} /\ MaxTime \in Nat /\ Keys \subseteq Nat
  BY StatsAssumption DEF Keys

\* A growth added to the growth before is the growth of both.
LEMMA GrowthAdds ==
  ASSUME NEW a \in Int, NEW b \in Int, NEW f \in Int
  PROVE  (((a - f) % StatsWord) + ((b - a) % StatsWord)) % StatsWord = (b - f) % StatsWord
  <1>. DEFINE g == (b - a) % StatsWord
  <1>0. g \in Int /\ (a - f) \in Int /\ (b - a) \in Int /\ StatsWord \in Nat \ {0}
    BY StatsSizes, ModDef
  <1>1. (((a - f) % StatsWord) + g) % StatsWord = ((a - f) + g) % StatsWord
    <2>. HIDE DEF g
    <2>. QED BY ONLY <1>0, ModAdd, a - f \in Int
  <1>2. ((a - f) + g) % StatsWord = (g + (a - f)) % StatsWord
    BY <1>0
  <1>3. (g + (a - f)) % StatsWord = ((b - a) + (a - f)) % StatsWord
    BY <1>0, ModAdd
  <1>4. (b - a) + (a - f) = b - f
    OBVIOUS
  <1>. QED BY <1>1, <1>2, <1>3, <1>4

\* The invariant holds before the first round.
LEMMA StatsInvInit == StatsInit => StatsInv
  <1>. SUFFICES ASSUME StatsInit PROVE StatsInv
    OBVIOUS
  <1>. USE StatsSizes DEF StatsInit, NoReading
  <1>1. StatsTypeOK
    BY DEF StatsTypeOK, Totals, Readings
  <1>2. InTime
    BY DEF InTime
  <1>3. SumsSoFar
    BY DEF SumsSoFar
  <1>. QED BY <1>1, <1>2, <1>3 DEF StatsInv

\* Every step of the statistics keeps the invariant, while the clock fits its word.
LEMMA StatsInvStep == ClockFits /\ StatsInv /\ [StatsNext]_statsVars => StatsInv'
  <1>. SUFFICES ASSUME ClockFits, StatsInv, [StatsNext]_statsVars PROVE StatsInv'
    OBVIOUS
  <1>. USE StatsSizes DEF StatsInv
  <1>1. ASSUME NEW k \in Keys, CountPacket(k) PROVE StatsInv'
    BY <1>1 DEF CountPacket, StatsTypeOK, InTime, SumsSoFar, Totals, Readings
  <1>2. CASE TimePasses
    BY <1>2 DEF TimePasses, ClockFits, StatsTypeOK, InTime, SumsSoFar, Totals, Readings
  <1>3. CASE map_collect
    <2>. PICK v \in {counted[key] % StatsWord} \cup StackGarbage :
           record' = [record EXCEPT ![key] = [timestamp |-> time, packets |-> v]]
      BY <1>3 DEF map_collect
    <2>1. v \in 0 .. StatsWord - 1 /\ key \in Keys /\ stats_pc \in {"first", "collect"}
      <3>1. key \in Keys /\ stats_pc \in {"first", "collect"}
        BY <1>3 DEF map_collect, Collecting
      <3>2. counted[key] \in Int
        BY <3>1 DEF StatsTypeOK
      <3>3. counted[key] % StatsWord \in 0 .. StatsWord - 1
        BY <3>2, ModDef
      <3>. QED BY <3>1, <3>3, StatsAssumption
    <2>2. record' \in Readings /\ \A k \in Keys :
            record'[k] = IF k = key THEN [timestamp |-> time, packets |-> v] ELSE record[k]
      BY <2>1 DEF StatsTypeOK, Readings
    <2>3. StatsTypeOK'
      BY <1>3, <2>2 DEF map_collect, StatsTypeOK
    <2>4. InTime'
      BY <1>3, <2>1, <2>2 DEF map_collect, StatsTypeOK, InTime, Readings
    <2>5. SumsSoFar'
      BY <1>3, <2>1 DEF map_collect, SumsSoFar
    <2>. QED BY <2>3, <2>4, <2>5
  <1>4. CASE usleep
    <2>1. \A k \in Keys : k < key
      BY <1>4 DEF usleep, Keys, StatsTypeOK
    <2>2. StatsTypeOK'
      BY <1>4 DEF usleep, StatsTypeOK
    <2>3. InTime'
      BY <1>4, <2>1 DEF usleep, StatsTypeOK, InTime, Readings
    <2>4. \A k \in Keys : (record[k].packets - record[k].packets) % StatsWord = 0
      <3>. TAKE k \in Keys
      <3>1. record[k].packets \in Int
        BY DEF StatsTypeOK, Readings
      <3>2. record[k].packets - record[k].packets = StatsWord * 0 + 0 /\ 0 \in 0 .. StatsWord - 1
        BY <3>1
      <3>3. (StatsWord * 0 + 0) % StatsWord = 0
        BY <3>2, ModUnique
      <3>. QED BY <3>2, <3>3
    <2>5. SumsSoFar'
      BY <1>4, <2>4 DEF usleep, SumsSoFar
    <2>. QED BY <2>2, <2>3, <2>5
  <1>5. CASE StatsWake
    <2>1. StatsTypeOK' /\ SumsSoFar'
      BY <1>5 DEF StatsWake, StatsTypeOK, SumsSoFar
    <2>2. InTime'
      BY <1>5 DEF StatsWake, StatsTypeOK, InTime, Readings
    <2>. QED BY <2>1, <2>2
  <1>6. CASE CopyRecord
    <2>1. StatsTypeOK' /\ SumsSoFar'
      BY <1>6 DEF CopyRecord, StatsTypeOK, SumsSoFar
    <2>2. InTime'
      <3>1. \A k \in Keys : record[k].timestamp \in Int /\ ~ (k < 0)
        BY DEF StatsTypeOK, Readings, Keys
      <3>2. time \in Int
        BY DEF StatsTypeOK
      <3>3. \A k \in Keys : record[k].timestamp <= time
        BY <1>6, <3>1, <3>2 DEF CopyRecord, InTime
      <3>. QED BY <1>6, <3>1, <3>3 DEF CopyRecord, InTime
    <2>. QED BY <2>1, <2>2
  <1>7. CASE stats_print
    <2>1. \A k \in Keys : k < key
      BY <1>7 DEF stats_print, Keys, StatsTypeOK
    <2>2. \A k \in Keys : calc_period(k) # 0
      <3>. TAKE k \in Keys
      <3>. DEFINE d == record[k].timestamp - prev[k].timestamp
      <3>1. d \in 1 .. StatsWord - 1
        BY <1>7, <2>1 DEF stats_print, StatsTypeOK, InTime, Readings
      <3>2. StatsWord * 0 + d = d /\ d \in 0 .. StatsWord - 1
        BY <3>1
      <3>3. d % StatsWord = d
        BY ONLY <3>2, ModUnique, StatsSizes, 0 \in Int
      <3>. QED BY <3>1, <3>3 DEF calc_period
    <2>3. Printable = Keys
      BY <2>2 DEF Printable, Keys
    <2>4. \A k \in Keys : printed'[k] = (printed[k] + Growth(k)) % StatsWord
      BY <1>7, <2>3 DEF stats_print
    <2>5. \A k \in Keys : printed'[k] = (record[k].packets - first[k].packets) % StatsWord
      <3>. TAKE k \in Keys
      <3>1. printed[k] = (prev[k].packets - first[k].packets) % StatsWord
        BY <1>7 DEF stats_print, SumsSoFar
      <3>2. record[k].packets \in Int /\ prev[k].packets \in Int /\ first[k].packets \in Int
        BY DEF StatsTypeOK, Readings
      <3>3. (((prev[k].packets - first[k].packets) % StatsWord)
               + ((record[k].packets - prev[k].packets) % StatsWord)) % StatsWord
              = (record[k].packets - first[k].packets) % StatsWord
        BY ONLY <3>2, GrowthAdds
      <3>. QED BY <2>4, <3>1, <3>3 DEF Growth
    <2>6. \A k \in Keys : (printed[k] + Growth(k)) % StatsWord \in 0 .. StatsWord - 1
      <3>. TAKE k \in Keys
      <3>1. record[k].packets - prev[k].packets \in Int
        BY DEF StatsTypeOK, Readings
      <3>2. Growth(k) \in Int
        BY <3>1, ModDef DEF Growth
      <3>3. printed[k] + Growth(k) \in Int
        BY <3>2 DEF StatsTypeOK, Totals
      <3>. QED BY <3>3, ModDef
    <2>7. printed' = [k \in Keys |-> (printed[k] + Growth(k)) % StatsWord]
      BY <1>7, <2>3 DEF stats_print
    <2>8. printed' \in Totals
      BY <2>6, <2>7 DEF Totals
    <2>9. StatsTypeOK'
      BY <1>7, <2>3, <2>8 DEF stats_print, StatsTypeOK
    <2>10. InTime'
      BY <1>7, <2>1 DEF stats_print, StatsTypeOK, InTime, Readings
    <2>11. SumsSoFar'
      BY <1>7, <2>3, <2>5 DEF stats_print, SumsSoFar
    <2>. QED BY <2>9, <2>10, <2>11
  <1>8. CASE UNCHANGED statsVars
    BY <1>8 DEF statsVars, StatsTypeOK, InTime, SumsSoFar
  <1>. QED BY <1>1, <1>2, <1>3, <1>4, <1>5, <1>6, <1>7, <1>8 DEF StatsNext

\* Readings of one verdict are always apart in time, and what was printed is always the sum
\* of what was read, as long as the clock does not go round.
THEOREM StatsInvariant == ClockFits => (StatsSpec => []StatsInv)
  <1>. SUFFICES ASSUME ClockFits PROVE StatsSpec => []StatsInv
    OBVIOUS
  <1>1. StatsInv /\ [StatsNext]_statsVars => StatsInv'
    BY StatsInvStep
  <1>. QED BY <1>1, StatsInvInit, PTL DEF StatsSpec

\* Every round of stats_print prints every verdict, and the differences printed add up to
\* the growth since the first reading, whatever a failed lookup made up meanwhile and however
\* often the totals wrap.
THEOREM RoundsAlwaysWhole == ClockFits => (StatsSpec => []RoundsAreWhole)
  <1>. SUFFICES ASSUME ClockFits PROVE StatsSpec => []RoundsAreWhole
    OBVIOUS
  <1>1. StatsInv => RoundsAreWhole
    BY DEF StatsInv, SumsSoFar, RoundsAreWhole, EveryVerdictIsPrinted, RoundsAddUp
  <1>2. StatsSpec => []StatsInv
    BY StatsInvariant
  <1>. QED BY <1>1, <1>2, PTL

-----------------------------------------------------------------------------
(* TextFiles.                                                              *)

Scans == [id : Int, ip : Tokens, threshold : Int]
FilePolicies == [id : Int, ip : Int, threshold : Int]

FileTypeOK ==
  /\ text \in Seq(Tokens) /\ stream \in Seq(Tokens)
  /\ file_pc \in {"first", "next", "list", "done", "listed", "smashed", "nofile"}
  /\ scanned \in Scans
  /\ file_policy \in Seq(FilePolicies)
  /\ file_pc = "first" => file_policy = <<>>

\* What is left of the file behind the first m tokens.
Rest(m) == SubSeq(text, m + 1, Len(text))

\* Files that keep load_policy in step: numbers wherever a number is wanted, and no more
\* policies than list_policy has entries; the last line may be incomplete.
Aligned ==
  /\ \A k \in DOMAIN text : text[k].kind = "number" \/ k % 3 = 2
  /\ Len(text) <= 3 * POLICIES

\* In step, n policies have taken three tokens each, or all that there are.
Taken3(n) == IF 3 * n <= Len(text) THEN 3 * n ELSE Len(text)
InStep ==
  Aligned =>
    /\ file_pc # "smashed"
    /\ file_pc \in {"first", "next"} => stream = Rest(Taken3(Len(file_policy)))

\* The policies read so far are those of the file's first lines.
LinesSoFar ==
  WellFormed /\ Aligned =>
    /\ 3 * Len(file_policy) <= Len(text)
    /\ file_pc = "done" => 3 * Len(file_policy) = Len(text)
    /\ \A k \in 1 .. Len(file_policy) :
         file_policy[k] = [id |-> text[3 * k - 2].v, ip |-> text[3 * k - 1].v,
                           threshold |-> text[3 * k].v]

\* The addresses among the first m tokens.
AddressesUpTo(m) == {text[k].v : k \in {j \in 1 .. m : text[j].kind = "address"}}

\* The list holds the addresses read so far, or is full.
ListSoFar ==
  file_pc \in {"list", "listed"} =>
    \E m \in 0 .. Len(text) :
      /\ stream = Rest(m)
      /\ file_pc = "listed" => m = Len(text)
      /\ user_map \subseteq AddressesUpTo(m)
      /\ IsFiniteSet(user_map) /\ Cardinality(user_map) <= LIST_MAX
      /\ user_map = AddressesUpTo(m) \/ Cardinality(user_map) = LIST_MAX

FileInv == FileTypeOK /\ InStep /\ LinesSoFar /\ ListSoFar

\* A token has a kind and a value.
LEMMA TokenFields ==
  /\ \A t \in Tokens : t.kind \in {"number", "address", "word"} /\ t.v \in Int
  /\ Token("word", 0) \in Tokens /\ Token("word", 0).kind = "word"
  BY FilesAssumption DEF Tokens, Token

\* What is left of the file, token by token.
LEMMA RestFacts ==
  ASSUME text \in Seq(Tokens), NEW m \in 0 .. Len(text)
  PROVE  /\ Rest(m) \in Seq(Tokens)
         /\ Rest(m) = <<>> <=> m = Len(text)
         /\ m < Len(text) => /\ m + 1 \in DOMAIN text
                             /\ Head(Rest(m)) = text[m + 1]
                             /\ Tail(Rest(m)) = Rest(m + 1)
         /\ Rest(0) = text
  <1>. PICK n \in Nat : n = Len(text) /\ DOMAIN text = 1 .. n
    OBVIOUS
  <1>1. \A j \in 0 .. n : /\ Rest(j) \in Seq(Tokens)
                          /\ Len(Rest(j)) = n - j
                          /\ \A k \in 1 .. n - j : Rest(j)[k] = text[j + k]
    BY DEF Rest
  <1>2. Rest(m) = <<>> <=> m = n
    BY <1>1
  <1>3. ASSUME m < n
        PROVE  m + 1 \in DOMAIN text /\ Head(Rest(m)) = text[m + 1] /\ Tail(Rest(m)) = Rest(m + 1)
    <2>1. Rest(m) # <<>> /\ Len(Rest(m)) = n - m /\ Rest(m) \in Seq(Tokens)
      BY <1>1, <1>2, <1>3
    <2>2. Head(Rest(m)) = Rest(m)[1]
      BY <2>1
    <2>3. /\ Tail(Rest(m)) \in Seq(Tokens) /\ Len(Tail(Rest(m))) = n - m - 1
          /\ \A k \in 1 .. n - m - 1 : Tail(Rest(m))[k] = Rest(m)[k + 1]
      BY <2>1
    <2>4. m + 1 \in 0 .. n
      BY <1>3
    <2>5. Len(Rest(m + 1)) = n - m - 1 /\ Rest(m + 1) \in Seq(Tokens)
      BY <1>1, <2>4
    <2>6. \A k \in 1 .. n - m - 1 : Tail(Rest(m))[k] = Rest(m + 1)[k]
      <3>. TAKE k \in 1 .. n - m - 1
      <3>1. k + 1 \in 1 .. n - m /\ k \in 1 .. n - (m + 1) /\ m \in 0 .. n
        BY <2>4
      <3>2. Rest(m)[k + 1] = text[m + (k + 1)]
        BY <1>1, <3>1
      <3>3. Rest(m + 1)[k] = text[(m + 1) + k]
        BY <1>1, <2>4, <3>1
      <3>4. m + (k + 1) = (m + 1) + k
        OBVIOUS
      <3>. QED BY <2>3, <3>2, <3>3, <3>4
    <2>7. Tail(Rest(m)) = Rest(m + 1)
      <3>. DEFINE s == Tail(Rest(m))  t == Rest(m + 1)
      <3>1. s \in Seq(Tokens) /\ t \in Seq(Tokens) /\ Len(s) = Len(t) /\ \A k \in 1 .. Len(s) : s[k] = t[k]
        BY <2>3, <2>5, <2>6
      <3>. HIDE DEF s, t
      <3>2. s = t
        BY <3>1
      <3>. QED BY <3>2 DEF s, t
    <2>8. Rest(m)[1] = text[m + 1] /\ m + 1 \in 1 .. n
      BY <1>1, <1>3
    <2>. QED BY <2>2, <2>7, <2>8
  <1>4. Rest(0) = text
    <2>1. 0 \in 0 .. n /\ n - 0 = n /\ \A k \in 1 .. n : 0 + k = k
      OBVIOUS
    <2>2. /\ Rest(0) \in Seq(Tokens) /\ Len(Rest(0)) = n
          /\ \A k \in 1 .. n : Rest(0)[k] = text[k]
      BY <1>1, <2>1
    <2>. QED BY <2>2
  <1>. QED BY <1>1, <1>2, <1>3, <1>4

\* What fscanf gives is well-formed, on any stream.
LEMMA FscanfType ==
  ASSUME NEW s \in Seq(Tokens), NEW old \in Scans
  PROVE  /\ Fscanf(s, old).rest \in Seq(Tokens) /\ Fscanf(s, old).vars \in Scans
         /\ Fscanf(s, old).ret = -1 => s = <<>>
         /\ Fscanf(s, old).ret <= 0 => s = <<>> \/ Head(s).kind = "word"
  <1>1. \A q \in Seq(Tokens) : ScanInt(q).rest \in Seq(Tokens) /\ ScanInt(q).v \in Int
                                /\ (~ ScanInt(q).ok => q = <<>> \/ Head(q).kind = "word")
    <2>. TAKE q \in Seq(Tokens)
    <2>1. q # <<>> => Head(q) \in Tokens /\ Tail(q) \in Seq(Tokens)
      OBVIOUS
    <2>2. q # <<>> => <<Token("word", 0)>> \o Tail(q) \in Seq(Tokens)
      BY <2>1, TokenFields
    <2>. QED BY <2>1, <2>2, TokenFields DEF ScanInt
  <1>2. \A q \in Seq(Tokens) : ScanWord(q).rest \in Seq(Tokens) /\ ScanWord(q).v \in Tokens
    <2>. TAKE q \in Seq(Tokens)
    <2>1. q # <<>> => Head(q) \in Tokens /\ Tail(q) \in Seq(Tokens)
      OBVIOUS
    <2>2. Unset.ip \in Tokens
      BY TokenFields DEF Unset
    <2>. QED BY <2>1, <2>2 DEF ScanWord
  <1>. DEFINE a == ScanInt(s)  b == ScanWord(a.rest)  c == ScanInt(b.rest)
  <1>3. a.rest \in Seq(Tokens) /\ b.rest \in Seq(Tokens) /\ c.rest \in Seq(Tokens)
        /\ a.v \in Int /\ b.v \in Tokens /\ c.v \in Int
    BY <1>1, <1>2
  <1>4. ~ a.ok => s = <<>> \/ Head(s).kind = "word"
    BY <1>1
  <1>5. Fscanf(s, old) =
         IF ~ a.ok THEN [ret |-> IF s = <<>> THEN -1 ELSE 0, vars |-> old, rest |-> s]
         ELSE IF ~ b.ok THEN [ret |-> 1, vars |-> [old EXCEPT !.id = a.v], rest |-> b.rest]
         ELSE IF ~ c.ok
              THEN [ret |-> 2, vars |-> [old EXCEPT !.id = a.v, !.ip = b.v], rest |-> c.rest]
         ELSE [ret |-> 3, vars |-> [id |-> a.v, ip |-> b.v, threshold |-> c.v], rest |-> c.rest]
    BY DEF Fscanf
  <1>6. /\ old \in Scans /\ [old EXCEPT !.id = a.v] \in Scans
        /\ [old EXCEPT !.id = a.v, !.ip = b.v] \in Scans
        /\ [id |-> a.v, ip |-> b.v, threshold |-> c.v] \in Scans
    BY <1>3 DEF Scans
  <1>. HIDE DEF a, b, c
  <1>7. CASE ~ a.ok
    BY <1>4, <1>5, <1>6, <1>7
  <1>8. CASE a.ok /\ ~ b.ok
    BY <1>3, <1>5, <1>6, <1>8
  <1>9. CASE a.ok /\ b.ok /\ ~ c.ok
    BY <1>3, <1>5, <1>6, <1>9
  <1>10. CASE a.ok /\ b.ok /\ c.ok
    BY <1>3, <1>5, <1>6, <1>10
  <1>. QED BY <1>7, <1>8, <1>9, <1>10

\* In step fscanf takes three tokens, or all that there are, and of a whole line it takes
\* what the line says.
LEMMA FscanfInStep ==
  ASSUME text \in Seq(Tokens), NEW m \in 0 .. Len(text), NEW old \in Scans,
         m < Len(text), text[m + 1].kind = "number",
         m + 3 <= Len(text) => text[m + 3].kind = "number"
  PROVE  LET r == Fscanf(Rest(m), old)
         IN /\ r.ret > 0
            /\ r.rest = Rest(IF m + 3 <= Len(text) THEN m + 3 ELSE Len(text))
            /\ m + 3 <= Len(text) =>
                 r.vars = [id |-> text[m + 1].v, ip |-> text[m + 2], threshold |-> text[m + 3].v]
  <1>. PICK n \in Nat : n = Len(text)
    OBVIOUS
  <1>. DEFINE a == ScanInt(Rest(m))  b == ScanWord(a.rest)  c == ScanInt(b.rest)
  <1>1. Rest(m) # <<>> /\ Head(Rest(m)) = text[m + 1] /\ Tail(Rest(m)) = Rest(m + 1)
    BY RestFacts
  <1>2. a = [ok |-> TRUE, v |-> text[m + 1].v, rest |-> Rest(m + 1)]
    BY <1>1 DEF ScanInt
  <1>3. CASE m + 1 = n
    <2>1. Rest(m + 1) = <<>>
      BY <1>3, RestFacts
    <2>2. b.ok = FALSE /\ b.rest = Rest(m + 1)
      BY <1>2, <2>1 DEF ScanWord
    <2>. QED BY <1>2, <1>3, <2>2 DEF Fscanf
  <1>4. CASE m + 1 < n
    <2>1. /\ Rest(m + 1) # <<>> /\ Head(Rest(m + 1)) = text[m + 2]
          /\ Tail(Rest(m + 1)) = Rest(m + 2)
      <3>1. m + 1 \in 0 .. Len(text) /\ (m + 1) + 1 = m + 2
        BY <1>4
      <3>. QED BY <1>4, <3>1, RestFacts
    <2>2. b = [ok |-> TRUE, v |-> text[m + 2], rest |-> Rest(m + 2)]
      <3>1. a.rest = Rest(m + 1)
        BY <1>2
      <3>. HIDE DEF a
      <3>. QED BY <2>1, <3>1 DEF ScanWord
    <2>3. CASE m + 2 = n
      <3>1. Rest(m + 2) = <<>>
        BY <2>3, RestFacts
      <3>2. c.ok = FALSE /\ c.rest = Rest(m + 2)
        BY <2>2, <3>1 DEF ScanInt
      <3>. QED BY <1>2, <2>2, <2>3, <3>2 DEF Fscanf
    <2>4. CASE m + 2 < n
      <3>1. m + 2 \in 0 .. Len(text) /\ (m + 2) + 1 = m + 3 /\ m + 3 <= n
        BY <2>4
      <3>2. /\ Rest(m + 2) # <<>> /\ Head(Rest(m + 2)) = text[m + 3]
            /\ Tail(Rest(m + 2)) = Rest(m + 3)
        BY <2>4, <3>1, RestFacts
      <3>3. c = [ok |-> TRUE, v |-> text[m + 3].v, rest |-> Rest(m + 3)]
        <4>1. b.rest = Rest(m + 2)
          BY <2>2
        <4>. HIDE DEF b
        <4>. QED BY <3>1, <3>2, <4>1 DEF ScanInt
      <3>. QED BY <1>2, <2>2, <3>1, <3>3 DEF Fscanf
    <2>. QED BY <1>4, <2>3, <2>4
  <1>. QED BY <1>3, <1>4

\* fscanf at the end of the file returns EOF.
LEMMA FscanfAtEnd == \A old : Fscanf(<<>>, old).ret = -1
  BY DEF Fscanf, ScanInt

\* Numbers in step with the lines of three tokens.
LEMMA ByThrees ==
  /\ \A n \in Nat : (3 * n + 1) % 3 # 2 /\ (3 * n + 3) % 3 # 2
  /\ \A n, l \in Nat : l % 3 = 0 /\ 3 * n < l => 3 * n + 3 <= l
  /\ \A k \in Nat \ {0} : \E j \in Nat : k \in {3 * j + 1, 3 * j + 2, 3 * j + 3}
  /\ \A l \in Nat : l % 3 = 0 => l = 3 * (l \div 3)
  <1>1. \A k \in Nat \ {0} : \E j \in Nat : k \in {3 * j + 1, 3 * j + 2, 3 * j + 3}
    <2>. TAKE k \in Nat \ {0}
    <2>1. (k - 1) \div 3 \in Nat /\ k \in {3 * ((k - 1) \div 3) + 1, 3 * ((k - 1) \div 3) + 2,
                                            3 * ((k - 1) \div 3) + 3}
      OBVIOUS
    <2>. QED BY <2>1
  <1>. QED BY <1>1

\* A turn of load_policy in step: there is room, and the next line is taken.
LEMMA LineInStep ==
  ASSUME FileInv, Aligned, file_pc \in {"first", "next"}, stream # <<>>,
         NEW n \in Nat, n = Len(file_policy)
  PROVE  LET r == Fscanf(stream, scanned)
         IN /\ 3 * n < Len(text) /\ n < POLICIES
            /\ r.ret > 0
            /\ r.rest = Rest(Taken3(n + 1))
            /\ 3 * n + 3 <= Len(text) =>
                 r.vars = [id |-> text[3 * n + 1].v, ip |-> text[3 * n + 2],
                           threshold |-> text[3 * n + 3].v]
  <1>. PICK l \in Nat : l = Len(text) /\ DOMAIN text = 1 .. l
    BY DEF FileInv, FileTypeOK
  <1>0. POLICIES \in Nat
    BY FilesAssumption
  <1>1. stream = Rest(Taken3(n))
    BY DEF FileInv, InStep
  <1>2. 3 * n < l
    <2>1. ASSUME l <= 3 * n PROVE FALSE
      <3>1. Taken3(n) = l
        BY <2>1 DEF Taken3
      <3>2. l \in 0 .. Len(text)
        OBVIOUS
      <3>. QED BY <1>1, <3>1, <3>2, RestFacts DEF FileInv, FileTypeOK
    <2>. QED BY <2>1
  <1>3. n < POLICIES
    BY <1>0, <1>2 DEF Aligned
  <1>4. stream = Rest(3 * n)
    BY <1>1, <1>2 DEF Taken3
  <1>5. text[3 * n + 1].kind = "number"
    <2>1. 3 * n + 1 \in 1 .. l
      BY <1>2
    <2>. QED BY <2>1, ByThrees DEF Aligned
  <1>6. 3 * n + 3 <= l => text[3 * n + 3].kind = "number"
    <2>1. 3 * n + 3 <= l => 3 * n + 3 \in 1 .. l
      BY <1>2
    <2>. QED BY <2>1, ByThrees DEF Aligned
  <1>7. 3 * n \in 0 .. Len(text) /\ scanned \in Scans /\ text \in Seq(Tokens)
    BY <1>2 DEF FileInv, FileTypeOK
  <1>8. Taken3(n + 1) = IF 3 * n + 3 <= Len(text) THEN 3 * n + 3 ELSE Len(text)
    BY <1>2 DEF Taken3
  <1>. DEFINE m == 3 * n
  <1>9. LET r == Fscanf(Rest(m), scanned)
         IN /\ r.ret > 0
            /\ r.rest = Rest(IF m + 3 <= Len(text) THEN m + 3 ELSE Len(text))
            /\ m + 3 <= Len(text) =>
                 r.vars = [id |-> text[m + 1].v, ip |-> text[m + 2], threshold |-> text[m + 3].v]
    <2>1. m \in 0 .. Len(text) /\ m < Len(text) /\ text[m + 1].kind = "number"
          /\ (m + 3 <= Len(text) => text[m + 3].kind = "number")
      BY <1>2, <1>5, <1>6, <1>7
    <2>. HIDE DEF m
    <2>. QED BY <1>7, <2>1, FscanfInStep
  <1>. QED BY <1>2, <1>3, <1>4, <1>8, <1>9

\* The policy of a line is what the line says.
LEMMA PolicyOfLine ==
  ASSUME FileInv, WellFormed, Aligned, file_pc \in {"first", "next"}, stream # <<>>,
         NEW n \in Nat, n = Len(file_policy)
  PROVE  /\ 3 * n + 3 <= Len(text)
         /\ PolicyOf(Fscanf(stream, scanned).vars) =
              [id |-> text[3 * n + 1].v, ip |-> text[3 * n + 2].v, threshold |-> text[3 * n + 3].v]
  <1>. PICK l \in Nat : l = Len(text) /\ DOMAIN text = 1 .. l
    BY DEF FileInv, FileTypeOK
  <1>1. 3 * n < l
    BY LineInStep
  <1>2. 3 * n + 3 <= l
    BY <1>1, ByThrees DEF WellFormed
  <1>3. n \in Triples
    BY <1>2 DEF Triples
  <1>4. text[3 * n + 2].kind = "address"
    BY <1>3 DEF WellFormed
  <1>5. Fscanf(stream, scanned).vars = [id |-> text[3 * n + 1].v, ip |-> text[3 * n + 2],
                                        threshold |-> text[3 * n + 3].v]
    BY <1>2, LineInStep
  <1>. QED BY <1>2, <1>4, <1>5 DEF PolicyOf, inet_pton

\* The invariant holds when a file is opened.
LEMMA FileInvInit == FileInit => FileInv
  <1>. SUFFICES ASSUME FileInit PROVE FileInv
    OBVIOUS
  <1>. USE DEF FileInit
  <1>1. text \in Seq(Tokens)
    OBVIOUS
  <1>2. scanned \in Scans
    BY TokenFields DEF Scans, Unset
  <1>3. FileTypeOK
    BY <1>1, <1>2 DEF FileTypeOK
  <1>4. 0 \in 0 .. Len(text) /\ Rest(0) = text /\ Taken3(0) = 0 /\ Len(file_policy) = 0
    BY <1>1, RestFacts DEF Taken3
  <1>5. InStep
    BY <1>4 DEF InStep
  <1>6. LinesSoFar
    BY <1>1, <1>4 DEF LinesSoFar
  <1>7. ListSoFar
    <2>1. AddressesUpTo(0) = {}
      BY DEF AddressesUpTo
    <2>2. IsFiniteSet({}) /\ Cardinality({}) = 0
      BY FS_EmptySet
    <2>. QED BY <1>4, <2>1, <2>2, FilesAssumption DEF ListSoFar
  <1>. QED BY <1>3, <1>5, <1>6, <1>7 DEF FileInv

\* A policy is added: by the first call of fscanf or by one in the loop.
LEMMA AddPolicyKeeps ==
  ASSUME FileInv, file_pc \in {"first", "next"}, UNCHANGED <<text, user_map>>, stream # <<>>,
         AddPolicy(Fscanf(stream, scanned))
  PROVE  FileInv'
  <1>. DEFINE r == Fscanf(stream, scanned)
  <1>. PICK n \in Nat : n = Len(file_policy) /\ DOMAIN file_policy = 1 .. n
    BY DEF FileInv, FileTypeOK
  <1>1. r.rest \in Seq(Tokens) /\ r.vars \in Scans
    BY FscanfType DEF FileInv, FileTypeOK
  <1>2. PolicyOf(r.vars) \in FilePolicies
    <2>1. inet_pton(r.vars.ip) \in Int
      BY <1>1, TokenFields DEF inet_pton, Scans
    <2>2. r.vars.id \in Int /\ r.vars.threshold \in Int
      BY <1>1 DEF Scans
    <2>. QED BY <2>1, <2>2 DEF PolicyOf, FilePolicies
  <1>. HIDE DEF r
  <1>a. stream' = r.rest /\ scanned' = r.vars /\
        IF n < POLICIES
        THEN file_policy' = Append(file_policy, PolicyOf(r.vars)) /\ file_pc' = "next"
        ELSE file_pc' = "smashed" /\ UNCHANGED file_policy
    BY DEF AddPolicy, r
  <1>b. POLICIES \in Nat /\ file_policy \in Seq(FilePolicies)
    BY FilesAssumption DEF FileInv, FileTypeOK
  <1>c. Append(file_policy, PolicyOf(r.vars)) \in Seq(FilePolicies)
    BY <1>2, <1>b
  <1>3. FileTypeOK'
    BY <1>1, <1>a, <1>b, <1>c DEF FileInv, FileTypeOK
  <1>4. n < POLICIES => /\ Len(file_policy') = n + 1
                        /\ file_policy'[n + 1] = PolicyOf(r.vars)
                        /\ \A k \in 1 .. n : file_policy'[k] = file_policy[k]
    BY <1>a, <1>2, <1>b
  <1>5. InStep'
    <2>. SUFFICES ASSUME Aligned
                  PROVE  file_pc' # "smashed" /\ stream' = Rest(Taken3(n + 1)) /\ Len(file_policy') = n + 1
      BY DEF InStep, Aligned, Rest, Taken3
    <2>1. n < POLICIES /\ r.rest = Rest(Taken3(n + 1))
      BY LineInStep DEF r
    <2>. QED BY <1>a, <1>4, <2>1
  <1>6. LinesSoFar'
    <2>. SUFFICES ASSUME WellFormed, Aligned
                  PROVE  /\ 3 * Len(file_policy') <= Len(text)
                         /\ file_pc' # "done"
                         /\ \A k \in 1 .. Len(file_policy') :
                              file_policy'[k] = [id |-> text[3 * k - 2].v, ip |-> text[3 * k - 1].v,
                                                 threshold |-> text[3 * k].v]
      BY DEF LinesSoFar, Aligned, WellFormed, Triples
    <2>1. n < POLICIES
      BY LineInStep
    <2>2. 3 * n + 3 <= Len(text) /\ PolicyOf(r.vars) =
            [id |-> text[3 * n + 1].v, ip |-> text[3 * n + 2].v, threshold |-> text[3 * n + 3].v]
      BY PolicyOfLine DEF r
    <2>3. 3 * (n + 1) - 2 = 3 * n + 1 /\ 3 * (n + 1) - 1 = 3 * n + 2 /\ 3 * (n + 1) = 3 * n + 3
      OBVIOUS
    <2>4. \A k \in 1 .. n : file_policy[k] = [id |-> text[3 * k - 2].v, ip |-> text[3 * k - 1].v,
                                              threshold |-> text[3 * k].v]
      BY DEF FileInv, LinesSoFar
    <2>5. \A k \in 1 .. n + 1 : k \in 1 .. n \/ k = n + 1
      OBVIOUS
    <2>. QED BY <1>a, <1>4, <2>1, <2>2, <2>3, <2>4, <2>5
  <1>7. ListSoFar'
    BY <1>a DEF ListSoFar
  <1>. QED BY <1>3, <1>5, <1>6, <1>7 DEF FileInv

\* load_policy ends, at the end of the file if it is in step.
LEMMA EndPolicyKeeps ==
  ASSUME FileInv, file_pc \in {"first", "next"}, UNCHANGED <<text, user_map>>,
         file_pc' = "done", UNCHANGED <<stream, scanned, file_policy>>,
         stream = <<>> \/ Head(stream).kind = "word"
  PROVE  FileInv'
  <1>1. FileTypeOK' /\ InStep' /\ ListSoFar'
    BY DEF FileInv, FileTypeOK, InStep, ListSoFar, Aligned
  <1>2. LinesSoFar'
    <2>. SUFFICES ASSUME WellFormed, Aligned PROVE 3 * Len(file_policy) = Len(text)
      BY DEF FileInv, LinesSoFar, WellFormed, Aligned, Triples
    <2>. PICK n \in Nat : n = Len(file_policy)
      BY DEF FileInv, FileTypeOK
    <2>. PICK l \in Nat : l = Len(text)
      BY DEF FileInv, FileTypeOK
    <2>1. 3 * n <= l
      BY DEF FileInv, LinesSoFar
    <2>2. stream = Rest(3 * n) /\ 3 * n \in 0 .. Len(text) /\ text \in Seq(Tokens)
      BY <2>1 DEF FileInv, FileTypeOK, InStep, Taken3
    <2>3. ASSUME 3 * n < l PROVE FALSE
      <3>. DEFINE m == 3 * n
      <3>1. m \in 0 .. Len(text) /\ m < Len(text) /\ stream = Rest(m)
        BY <2>2, <2>3
      <3>2. Rest(m) # <<>> /\ Head(Rest(m)) = text[m + 1] /\ m + 1 \in DOMAIN text
        <4>. HIDE DEF m
        <4>. QED BY <2>2, <3>1, RestFacts
      <3>3. text[m + 1].kind = "number"
        BY <3>2, ByThrees DEF Aligned
      <3>. QED BY <3>1, <3>2, <3>3
    <2>. QED BY <2>1, <2>3
  <1>. QED BY <1>1, <1>2 DEF FileInv

\* One address of the list is read.
LEMMA NextAddressKeeps == ASSUME FileInv, NextAddress PROVE FileInv'
  <1>. DEFINE r == ScanWord(stream)
  <1>. PICK m \in 0 .. Len(text) :
         /\ stream = Rest(m)
         /\ user_map \subseteq AddressesUpTo(m)
         /\ IsFiniteSet(user_map) /\ Cardinality(user_map) <= LIST_MAX
         /\ user_map = AddressesUpTo(m) \/ Cardinality(user_map) = LIST_MAX
    BY DEF FileInv, ListSoFar, NextAddress
  <1>. PICK n \in Nat : n = Len(text) /\ DOMAIN text = 1 .. n
    BY DEF FileInv, FileTypeOK
  <1>0. text \in Seq(Tokens) /\ LIST_MAX \in Nat
    BY FilesAssumption DEF FileInv, FileTypeOK
  <1>1. CASE m = n
    <2>1. stream = <<>>
      BY <1>0, <1>1, RestFacts
    <2>2. file_pc' = "listed" /\ UNCHANGED <<stream, user_map, text, scanned, file_policy>>
      BY <2>1 DEF NextAddress, ScanWord
    <2>3. FileTypeOK' /\ InStep' /\ LinesSoFar'
      BY <2>2 DEF FileInv, FileTypeOK, InStep, LinesSoFar, Aligned, WellFormed, Triples
    <2>4. ListSoFar'
      BY <1>1, <2>2 DEF ListSoFar, Rest, AddressesUpTo
    <2>. QED BY <2>3, <2>4 DEF FileInv
  <1>2. CASE m < n
    <2>. DEFINE w == text[m + 1]
    <2>1. /\ stream # <<>> /\ Head(stream) = w /\ Tail(stream) = Rest(m + 1)
          /\ m + 1 \in 0 .. n /\ w \in Tokens /\ Rest(m + 1) \in Seq(Tokens)
      <3>1. m + 1 \in 0 .. n /\ m + 1 \in 1 .. n
        BY <1>2
      <3>. QED BY <1>0, <1>2, <3>1, RestFacts
    <2>2. update_list(w) /\ stream' = Rest(m + 1) /\ UNCHANGED <<file_pc, text, scanned, file_policy>>
      BY <2>1 DEF NextAddress, ScanWord
    <2>3. file_pc = "list"
      BY DEF NextAddress
    <2>4. FileTypeOK' /\ InStep' /\ LinesSoFar'
      BY <2>1, <2>2, <2>3
      DEF FileInv, FileTypeOK, InStep, LinesSoFar, Aligned, WellFormed, Triples
    <2>5. AddressesUpTo(m + 1) = IF w.kind = "address" THEN AddressesUpTo(m) \cup {w.v}
                                 ELSE AddressesUpTo(m)
      <3>1. 1 .. m + 1 = (1 .. m) \cup {m + 1}
        OBVIOUS
      <3>. QED BY <3>1 DEF AddressesUpTo
    <2>6. /\ user_map' \subseteq AddressesUpTo(m + 1)
          /\ IsFiniteSet(user_map') /\ Cardinality(user_map') <= LIST_MAX
          /\ user_map' = AddressesUpTo(m + 1) \/ Cardinality(user_map') = LIST_MAX
      <3>. PICK c \in Nat : c = Cardinality(user_map)
        BY FS_CardinalityType
      <3>1. CASE w.kind = "address" /\ w.v \notin user_map /\ c < LIST_MAX
        <4>1. user_map' = user_map \cup {w.v}
          BY <2>2, <3>1 DEF update_list
        <4>2. IsFiniteSet(user_map') /\ Cardinality(user_map') = c + 1
          BY <3>1, <4>1, FS_AddElement
        <4>3. user_map = AddressesUpTo(m)
          BY <3>1, <1>0
        <4>4. c + 1 <= LIST_MAX
          BY <1>0, <3>1
        <4>. QED BY <2>5, <3>1, <4>1, <4>2, <4>3, <4>4
      <3>2. CASE w.kind = "address" /\ w.v \in user_map
        <4>1. user_map' = user_map
          BY <2>2, <3>2 DEF update_list
        <4>. QED BY <2>5, <3>2, <4>1
      <3>3. CASE w.kind = "address" /\ w.v \notin user_map /\ ~ c < LIST_MAX
        <4>1. user_map' = user_map
          BY <2>2, <3>3 DEF update_list
        <4>2. c = LIST_MAX
          BY <1>0, <3>3
        <4>. QED BY <2>5, <3>3, <4>1, <4>2
      <3>4. CASE w.kind # "address"
        <4>1. user_map' = user_map
          BY <2>2, <3>4 DEF update_list
        <4>. QED BY <2>5, <3>4, <4>1
      <3>. QED BY <3>1, <3>2, <3>3, <3>4
    <2>7. ListSoFar'
      <3>1. AddressesUpTo(m + 1)' = AddressesUpTo(m + 1) /\ Rest(m + 1)' = Rest(m + 1)
            /\ Len(text') = n /\ file_pc' = "list"
        BY <2>2, <2>3 DEF AddressesUpTo, Rest
      <3>. DEFINE k == m + 1
      <3>2. /\ k \in 0 .. n /\ stream' = Rest(k)' /\ user_map' \subseteq AddressesUpTo(k)'
            /\ user_map' = AddressesUpTo(k)' \/ Cardinality(user_map') = LIST_MAX
        BY <2>1, <2>2, <2>6, <3>1
      <3>. HIDE DEF k
      <3>. QED BY <2>6, <3>1, <3>2 DEF ListSoFar, AddressesUpTo, Rest
    <2>. QED BY <2>4, <2>7 DEF FileInv
  <1>. QED BY <1>1, <1>2

\* Every step of the readers keeps the invariant.
LEMMA FileInvStep == FileInv /\ [FileNext]_fileVars => FileInv'
  <1>. SUFFICES ASSUME FileInv, [FileNext]_fileVars PROVE FileInv'
    OBVIOUS
  <1>0. stream \in Seq(Tokens) /\ scanned \in Scans
    BY DEF FileInv, FileTypeOK
  <1>1. CASE NoFile \/ UNCHANGED fileVars
    <2>1. UNCHANGED <<text, stream, scanned, file_policy, user_map>>
          /\ (file_pc' = file_pc \/ (file_pc \in {"first", "list"} /\ file_pc' = "nofile"))
      <3>1. CASE NoFile
        BY <3>1 DEF NoFile
      <3>2. CASE UNCHANGED fileVars
        BY <3>2 DEF fileVars
      <3>. QED BY <1>1, <3>1, <3>2
    <2>2. FileTypeOK' /\ InStep'
      BY <2>1 DEF FileInv, FileTypeOK, InStep, Aligned, Rest, Taken3
    <2>3. LinesSoFar'
      BY <2>1 DEF FileInv, LinesSoFar, Aligned, WellFormed, Triples
    <2>4. ListSoFar'
      BY <2>1 DEF FileInv, ListSoFar, Rest, AddressesUpTo
    <2>. QED BY <2>2, <2>3, <2>4 DEF FileInv
  <1>2. CASE FirstPolicy
    <2>. DEFINE r == Fscanf(stream, scanned)
    <2>1. CASE r.ret > 0
      <3>1. stream # <<>>
        BY <2>1, FscanfAtEnd
      <3>2. AddPolicy(r) /\ UNCHANGED <<text, user_map>> /\ file_pc = "first"
        BY <1>2, <2>1 DEF FirstPolicy
      <3>. QED BY <3>1, <3>2, AddPolicyKeeps
    <2>2. CASE ~ r.ret > 0
      <3>1. r.ret \in {-1, 0}
        <4>1. r.ret \in {-1, 0, 1, 2, 3}
          BY DEF Fscanf
        <4>. QED BY <2>2, <4>1
      <3>2. stream = <<>> \/ Head(stream).kind = "word"
        BY <1>0, <3>1, FscanfType
      <3>3. /\ file_pc = "first" /\ file_pc' = "done"
            /\ UNCHANGED <<stream, scanned, file_policy>> /\ UNCHANGED <<text, user_map>>
        BY <1>2, <2>2 DEF FirstPolicy
      <3>. QED BY <3>2, <3>3, EndPolicyKeeps
    <2>. QED BY <2>1, <2>2
  <1>3. CASE NextPolicy
    <2>. DEFINE r == Fscanf(stream, scanned)
    <2>1. CASE r.ret # -1
      <3>1. stream # <<>>
        BY <2>1, FscanfAtEnd
      <3>2. AddPolicy(r) /\ UNCHANGED <<text, user_map>> /\ file_pc = "next"
        BY <1>3, <2>1 DEF NextPolicy
      <3>. QED BY <3>1, <3>2, AddPolicyKeeps
    <2>2. CASE r.ret = -1
      <3>1. stream = <<>>
        BY <1>0, <2>2, FscanfType
      <3>2. /\ file_pc = "next" /\ file_pc' = "done"
            /\ UNCHANGED <<stream, scanned, file_policy>> /\ UNCHANGED <<text, user_map>>
        BY <1>3, <2>2 DEF NextPolicy
      <3>. QED BY <3>1, <3>2, EndPolicyKeeps
    <2>. QED BY <2>1, <2>2
  <1>. QED BY <1>1, <1>2, <1>3, NextAddressKeeps DEF FileNext

\* The invariant loads the files.
LEMMA FileInvLoads == FileInv => FilesAreLoaded
  <1>. SUFFICES ASSUME FileInv PROVE GoodFileIsLoaded /\ OverrunHasReason /\ ListIsLoaded
    BY DEF FilesAreLoaded
  <1>. PICK l \in Nat : l = Len(text) /\ DOMAIN text = 1 .. l
    BY DEF FileInv, FileTypeOK
  <1>. PICK n \in Nat : n = Len(file_policy) /\ DOMAIN file_policy = 1 .. n
    BY DEF FileInv, FileTypeOK
  <1>0. POLICIES \in Nat /\ text \in Seq(Tokens)
    BY FilesAssumption DEF FileInv, FileTypeOK
  <1>1. GoodFileIsLoaded
    <2>. SUFFICES ASSUME WellFormed, Len(text) <= 3 * POLICIES
                  PROVE  /\ file_pc # "smashed"
                         /\ file_pc = "done" =>
                              file_policy = [k \in 1 .. Len(text) \div 3 |->
                                 [id |-> text[3 * k - 2].v, ip |-> text[3 * k - 1].v,
                                  threshold |-> text[3 * k].v]]
      BY DEF GoodFileIsLoaded
    <2>1. ASSUME NEW k \in 1 .. l PROVE text[k].kind = "number" \/ k % 3 = 2
      <3>0. k \in Nat \ {0}
        OBVIOUS
      <3>. PICK j \in Nat : k \in {3 * j + 1, 3 * j + 2, 3 * j + 3}
        BY <3>0, ByThrees
      <3>1. 3 * j < l
        OBVIOUS
      <3>2. 3 * j + 3 <= l
        BY <3>1, ByThrees DEF WellFormed
      <3>3. j \in Triples
        BY <3>2 DEF Triples
      <3>4. (3 * j + 2) % 3 = 2
        OBVIOUS
      <3>5. text[3 * j + 1].kind = "number" /\ text[3 * j + 3].kind = "number"
        BY <3>3 DEF WellFormed
      <3>6. CASE k = 3 * j + 2
        BY <3>4, <3>6
      <3>7. CASE k = 3 * j + 1
        BY <3>5, <3>7
      <3>8. CASE k = 3 * j + 3
        BY <3>5, <3>8
      <3>. QED BY <3>6, <3>7, <3>8
    <2>2. Aligned
      BY <2>1 DEF Aligned
    <2>3. file_pc # "smashed"
      BY <2>2 DEF FileInv, InStep
    <2>4. ASSUME file_pc = "done"
          PROVE  file_policy = [k \in 1 .. Len(text) \div 3 |->
                                 [id |-> text[3 * k - 2].v, ip |-> text[3 * k - 1].v,
                                  threshold |-> text[3 * k].v]]
      <3>1. 3 * n = l
        BY <2>2, <2>4 DEF FileInv, LinesSoFar
      <3>2. l \div 3 = n
        BY <3>1
      <3>3. file_policy = [k \in 1 .. n |-> file_policy[k]]
        BY DEF FileInv, FileTypeOK
      <3>4. \A k \in 1 .. n : file_policy[k] = [id |-> text[3 * k - 2].v, ip |-> text[3 * k - 1].v,
                                                threshold |-> text[3 * k].v]
        BY <2>2 DEF FileInv, LinesSoFar
      <3>. QED BY <3>2, <3>3, <3>4
    <2>. QED BY <2>3, <2>4
  <1>2. OverrunHasReason
    <2>1. file_pc = "smashed" => ~ Aligned
      BY DEF FileInv, InStep
    <2>2. ~ Aligned => \/ Len(text) > 3 * POLICIES
                       \/ \E k \in DOMAIN text : text[k].kind # "number" /\ k % 3 # 2
      BY <1>0 DEF Aligned
    <2>. QED BY <2>1, <2>2 DEF OverrunHasReason
  <1>3. ListIsLoaded
    <2>. SUFFICES ASSUME file_pc = "listed"
                  PROVE  LET listed == {text[k].v : k \in {j \in DOMAIN text : text[j].kind = "address"}}
                         IN /\ user_map \subseteq listed
                            /\ user_map = listed \/ Cardinality(user_map) = LIST_MAX
      BY DEF ListIsLoaded
    <2>1. AddressesUpTo(l) = {text[k].v : k \in {j \in DOMAIN text : text[j].kind = "address"}}
      BY DEF AddressesUpTo
    <2>2. /\ user_map \subseteq AddressesUpTo(l)
          /\ user_map = AddressesUpTo(l) \/ Cardinality(user_map) = LIST_MAX
      BY DEF FileInv, ListSoFar
    <2>. QED BY <2>1, <2>2
  <1>. QED BY <1>1, <1>2, <1>3

\* While the tokens are read, load_policy is in step with the lines of a file that keeps it
\* there, and load_user_map has put every address it read in the map or filled it.
THEOREM FileInvariant == FileSpec => []FileInv
  BY FileInvInit, FileInvStep, PTL DEF FileSpec

\* Policies and lists are loaded as they are written, in files and maps of any size; a run past
\* list_policy, or an address that is not in the list's map, has a reason in the file.
THEOREM FilesAlwaysLoaded == FileSpec => []FilesAreLoaded
  BY FileInvariant, FileInvLoads, PTL

-----------------------------------------------------------------------------
(* Loader.                                                                 *)

Pcs == {"idle", "attach", "access", "unpin", "pin", "rollback"}

LdTypeOK ==
  /\ native \in BOOLEAN
  /\ attached \in [Modes -> Nat]
  /\ pins \in [MapNames -> Nat]
  /\ ld_pc \in Pcs
  /\ cfg \in [mode : Modes \cup {"auto"}, force : BOOLEAN]
  /\ obj \in Nat
  /\ i \in 0 .. Len(maps)
  /\ handle \in [Users -> Nat]
  /\ fresh \subseteq Users
  /\ faults \in Nat

\* The loops stay inside the list of maps, and a run has an object.
InLoop ==
  /\ ld_pc \in {"unpin", "pin"} => i > 0
  /\ ld_pc # "idle" => obj > 0

\* The two modes are never on the hook together, and once the run has attached
\* its program, that one is there, whatever happens to the pins.
HookIsMine ==
  /\ \E m \in Modes : attached[m] = 0
  /\ ld_pc \in {"access", "unpin", "pin", "rollback"} =>
       /\ \A m \in Modes : attached[m] \in {0, obj}
       /\ \E m \in Modes : attached[m] = obj

\* The pin loop has passed the maps below i, and their pins are its own.
PassedArePinned ==
  ld_pc = "pin" => \A k \in 1 .. i - 1 : pins[maps[k]] = obj

\* The pins from the k-th on that exist are of one object.
AgreeFrom(k) ==
  \A a, b \in DOMAIN maps :
    a >= k /\ b >= k /\ pins[maps[a]] # 0 /\ pins[maps[b]] # 0
      => pins[maps[a]] = pins[maps[b]]

\* With at most one fault so far, only the pins that the run itself has made, and
\* will roll back, differ from the others.
OneFaultInv ==
  faults <= 1 =>
    /\ ld_pc \in {"idle", "attach", "access", "unpin"} => AgreeFrom(1)
    /\ ld_pc = "pin" => AgreeFrom(i)
    /\ ld_pc = "rollback" => AgreeFrom(i + 1)

\* Without a fault all pins are of one object, up to the map that a loop is at,
\* and that object is the one on the hook when a run begins.
Undisturbed ==
  faults = 0 =>
    /\ ld_pc # "rollback"
    /\ ld_pc \in {"idle", "attach", "access"} =>
         \A a, b \in DOMAIN maps : pins[maps[a]] = pins[maps[b]]
    /\ ld_pc \in {"idle", "attach"} =>
         \A m \in Modes, a \in DOMAIN maps :
           attached[m] # 0 => attached[m] = pins[maps[a]]
    /\ ld_pc = "unpin" =>
         \A a \in DOMAIN maps :
           pins[maps[a]] = IF a < i THEN 0 ELSE pins[maps[i]]
    /\ ld_pc = "unpin" => pins[maps[i]] # 0
    /\ ld_pc = "pin" =>
         \A a \in DOMAIN maps : pins[maps[a]] = IF a < i THEN obj ELSE 0

\* A program that no run has overlapped has open what its pin still names.
FreshFollowPins ==
  \A u \in fresh : ld_pc = "idle" /\ handle[u] = pins[Opens[u]]

LdInv ==
  /\ LdTypeOK
  /\ InLoop
  /\ HookIsMine
  /\ PassedArePinned
  /\ OneFaultInv
  /\ Undisturbed
  /\ FreshFollowPins
-----------------------------------------------------------------------------
(* The list of maps, and what a pin or an unpin does to it.                *)

\* The object has maps, in an order.
LEMMA MapsFacts ==
  /\ Len(maps) \in Nat /\ Len(maps) > 0
  /\ DOMAIN maps = 1 .. Len(maps)
  BY LoaderAssumption

\* The names are those of the maps.
LEMMA NamesFacts ==
  /\ \A k \in DOMAIN maps : maps[k] \in MapNames
  /\ \A n \in MapNames : \E k \in DOMAIN maps : n = maps[k]
  BY DEF MapNames

\* Writing one map's pin leaves the others' as they were.
LEMMA PinUpdate ==
  ASSUME LdTypeOK, i > 0, NEW v \in Nat,
         pins' = [pins EXCEPT ![maps[i]] = v]
  PROVE  /\ pins' \in [MapNames -> Nat]
         /\ \A k \in DOMAIN maps :
              pins'[maps[k]] = IF k = i THEN v ELSE pins[maps[k]]
  <1>1. i \in DOMAIN maps
    BY MapsFacts DEF LdTypeOK
  <1>2. QED
    BY <1>1, NamesFacts, LoaderAssumption DEF LdTypeOK

-----------------------------------------------------------------------------
(* The inductive invariant.                                                *)

\* The invariant holds when the loader starts.
LEMMA LdInvInit == LdInit => LdInv
  BY MapsFacts, NamesFacts
  DEF LdInit, LdInv, LdTypeOK, InLoop, HookIsMine, PassedArePinned, AgreeFrom,
      OneFaultInv, Undisturbed, FreshFollowPins, Pcs, Modes

\* No step of the loader, of the kernel or of a program that uses a map breaks
\* the invariant.
LEMMA LdInvStep == LdInv /\ [LdNext]_ldVars => LdInv'
  <1> SUFFICES ASSUME LdInv, [LdNext]_ldVars PROVE LdInv'
    OBVIOUS
  <1> USE MapsFacts DEF Pcs, Modes
  <1>t. LdTypeOK /\ InLoop /\ HookIsMine /\ PassedArePinned
    BY DEF LdInv
  <1>f. OneFaultInv /\ Undisturbed /\ FreshFollowPins
    BY DEF LdInv
  <1>i. i \in Int /\ Len(maps) \in Int /\ 0 <= i /\ i <= Len(maps)
    BY <1>t DEF LdTypeOK
  <1>1. CASE \E mode \in Modes \cup {"auto"} : Unload(mode)
    <2>1. LdTypeOK' /\ InLoop' /\ HookIsMine' /\ PassedArePinned'
      BY <1>1, <1>t DEF Unload, Hook, LdTypeOK, InLoop, HookIsMine, PassedArePinned
    <2>2. OneFaultInv' /\ Undisturbed' /\ FreshFollowPins'
      BY <1>1, <1>t, <1>f
      DEF Unload, Hook, LdTypeOK, OneFaultInv, AgreeFrom, Undisturbed, FreshFollowPins
    <2> QED BY <2>1, <2>2 DEF LdInv
  <1>2. CASE \E mode \in Modes \cup {"auto"}, force \in BOOLEAN : Load(mode, force)
    <2>1. LdTypeOK' /\ InLoop' /\ HookIsMine' /\ PassedArePinned'
      BY <1>2, <1>t DEF Load, LdTypeOK, InLoop, HookIsMine, PassedArePinned
    <2>2. OneFaultInv' /\ Undisturbed' /\ FreshFollowPins'
      BY <1>2, <1>t, <1>f
      DEF Load, LdTypeOK, OneFaultInv, AgreeFrom, Undisturbed, FreshFollowPins
    <2> QED BY <2>1, <2>2 DEF LdInv
  <1>3. CASE Attach
    <2>1. LdTypeOK' /\ InLoop' /\ PassedArePinned'
      BY <1>3, <1>t DEF Attach, Hook, Goto, rest, LdTypeOK, InLoop, PassedArePinned
    <2>2. HookIsMine'
      BY <1>3, <1>t
      DEF Attach, LinkError, Hook, Other, Goto, rest, LdTypeOK, HookIsMine
    <2>3. OneFaultInv' /\ Undisturbed' /\ FreshFollowPins'
      BY <1>3, <1>t, <1>f
      DEF Attach, Goto, rest, LdTypeOK, OneFaultInv, AgreeFrom, Undisturbed,
          FreshFollowPins
    <2> QED BY <2>1, <2>2, <2>3 DEF LdInv
  <1>4. CASE Swap
    <2>1. LdTypeOK' /\ InLoop' /\ HookIsMine' /\ PassedArePinned'
      BY <1>4, <1>t DEF Swap, run, rest, LdTypeOK, InLoop, HookIsMine, PassedArePinned
    <2>2. OneFaultInv' /\ Undisturbed' /\ FreshFollowPins'
      BY <1>4, <1>t, <1>f
      DEF Swap, run, rest, LdTypeOK, OneFaultInv, AgreeFrom, Undisturbed,
          FreshFollowPins
    <2> QED BY <2>1, <2>2 DEF LdInv
  <1>5. CASE AttachRefused
    <2>1. LdTypeOK' /\ InLoop' /\ HookIsMine' /\ PassedArePinned'
      BY <1>5, <1>t
      DEF AttachRefused, End, rest, LdTypeOK, InLoop, HookIsMine, PassedArePinned
    <2>2. OneFaultInv' /\ Undisturbed' /\ FreshFollowPins'
      BY <1>5, <1>t, <1>f
      DEF AttachRefused, End, rest, LdTypeOK, OneFaultInv, AgreeFrom, Undisturbed,
          FreshFollowPins
    <2> QED BY <2>1, <2>2 DEF LdInv
  <1>6. CASE Access
    <2>1. LdTypeOK' /\ InLoop' /\ HookIsMine' /\ PassedArePinned'
      BY <1>6, <1>t DEF Access, Goto, rest, LdTypeOK, InLoop, HookIsMine, PassedArePinned
    <2>2. OneFaultInv' /\ FreshFollowPins'
      BY <1>6, <1>t, <1>f
      DEF Access, Goto, rest, LdTypeOK, OneFaultInv, AgreeFrom, FreshFollowPins
    <2>3. Undisturbed'
      <3>1. PICK c \in DOMAIN maps : map_name = maps[c]
        BY LoaderAssumption, NamesFacts
      <3>2. QED
        BY <1>6, <1>t, <1>f, <3>1 DEF Access, Goto, rest, LdTypeOK, Undisturbed
    <2> QED BY <2>1, <2>2, <2>3 DEF LdInv
  <1>7. CASE Unpin
    <2>p. /\ pins' \in [MapNames -> Nat]
          /\ \A k \in DOMAIN maps : pins'[maps[k]] = IF k = i THEN 0 ELSE pins[maps[k]]
      BY <1>7, <1>t, PinUpdate DEF Unpin, InLoop
    <2>1. LdTypeOK' /\ InLoop' /\ HookIsMine' /\ PassedArePinned'
      BY <1>7, <1>t, <2>p
      DEF Unpin, Goto, rest, LdTypeOK, InLoop, HookIsMine, PassedArePinned
    <2>2. OneFaultInv' /\ FreshFollowPins'
      BY <1>7, <1>t, <1>f, <2>p
      DEF Unpin, Goto, rest, LdTypeOK, InLoop, OneFaultInv, AgreeFrom, FreshFollowPins
    <2>3. Undisturbed'
      <3>s. ld_pc = "unpin" /\ i > 0 /\ UNCHANGED faults
        BY <1>7, <1>t DEF Unpin, InLoop
      <3>u. faults = 0 => \A a \in DOMAIN maps :
                           pins[maps[a]] = IF a < i THEN 0 ELSE pins[maps[i]]
        BY <1>f, <3>s DEF Undisturbed
      <3>n. faults = 0 => pins[maps[i]] # 0
        BY <1>f, <3>s DEF Undisturbed
      <3>1. CASE i < Len(maps)
        <4>1. ld_pc' = "unpin" /\ i' = i + 1
          BY <1>7, <3>1 DEF Unpin, Goto
        <4>2. i + 1 \in DOMAIN maps /\ i \in DOMAIN maps
          BY <1>i, <3>s, <3>1
        <4>3. pins'[maps[i + 1]] = pins[maps[i + 1]]
          BY <1>i, <2>p, <4>2
        <4>4. faults = 0 => pins[maps[i + 1]] = pins[maps[i]]
          BY <1>i, <3>u, <4>2
        <4>5. faults = 0 => \A a \in DOMAIN maps :
                pins'[maps[a]] = IF a < i + 1 THEN 0 ELSE pins'[maps[i + 1]]
          BY <1>i, <2>p, <3>u, <4>3, <4>4
        <4>6. QED
          BY <3>s, <3>n, <4>1, <4>3, <4>4, <4>5 DEF Undisturbed
      <3>2. CASE i = Len(maps)
        <4>1. ld_pc' = "pin" /\ i' = 1
          BY <1>7, <3>2 DEF Unpin, Goto
        <4>2. faults = 0 => \A a \in DOMAIN maps : pins'[maps[a]] = 0
          BY <1>i, <2>p, <3>u, <3>2
        <4>3. QED
          BY <3>s, <4>1, <4>2 DEF Undisturbed
      <3>3. i < Len(maps) \/ i = Len(maps)
        BY ONLY <1>i
      <3>4. QED BY <3>1, <3>2, <3>3
    <2> QED BY <2>1, <2>2, <2>3 DEF LdInv
  <1>8. CASE UnpinFails
    <2>1. LdTypeOK' /\ InLoop' /\ HookIsMine' /\ PassedArePinned'
      BY <1>8, <1>t
      DEF UnpinFails, End, rest, LdTypeOK, InLoop, HookIsMine, PassedArePinned
    <2>2. OneFaultInv' /\ Undisturbed' /\ FreshFollowPins'
      BY <1>8, <1>t, <1>f
      DEF UnpinFails, End, rest, LdTypeOK, OneFaultInv, AgreeFrom, Undisturbed,
          FreshFollowPins
    <2> QED BY <2>1, <2>2 DEF LdInv
  <1>9. CASE Pin
    <2>p. /\ pins' \in [MapNames -> Nat]
          /\ \A k \in DOMAIN maps : pins'[maps[k]] = IF k = i THEN obj ELSE pins[maps[k]]
      BY <1>9, <1>t, PinUpdate DEF Pin, InLoop, LdTypeOK
    <2>s. /\ ld_pc = "pin" /\ fresh = {} /\ obj' = obj /\ obj > 0 /\ i \in 1 .. Len(maps)
          /\ UNCHANGED <<attached, native, handle, fresh, faults, cfg>>
      <3>1. ld_pc = "pin" /\ obj' = obj /\ obj > 0 /\ i > 0
        BY <1>9, <1>t DEF Pin, Goto, End, InLoop
      <3>2. fresh = {}
        BY <1>f, <3>1 DEF FreshFollowPins
      <3>3. UNCHANGED <<attached, native, handle, fresh, faults, cfg>>
        BY <1>9 DEF Pin, Goto, End, rest
      <3>4. QED
        BY <1>i, <3>1, <3>2, <3>3
    <2>1. CASE i < Len(maps) /\ ld_pc' = "pin" /\ i' = i + 1
      <3>1. LdTypeOK' /\ InLoop' /\ HookIsMine'
        BY <1>t, <2>p, <2>s, <2>1 DEF LdTypeOK, InLoop, HookIsMine
      <3>2. PassedArePinned'
        BY <1>t, <1>i, <2>p, <2>s, <2>1 DEF PassedArePinned
      <3>3. OneFaultInv'
        BY <1>f, <1>i, <2>p, <2>s, <2>1 DEF OneFaultInv, AgreeFrom
      <3>4. Undisturbed'
        BY <1>f, <1>i, <2>p, <2>s, <2>1 DEF Undisturbed
      <3>5. FreshFollowPins'
        BY <2>s DEF FreshFollowPins
      <3> QED BY <3>1, <3>2, <3>3, <3>4, <3>5 DEF LdInv
    <2>2. CASE i = Len(maps) /\ ld_pc' = "idle" /\ i' = i
      <3>1. LdTypeOK' /\ InLoop' /\ HookIsMine' /\ PassedArePinned'
        BY <1>t, <2>p, <2>s, <2>2 DEF LdTypeOK, InLoop, HookIsMine, PassedArePinned
      <3>2. \A k \in DOMAIN maps : pins'[maps[k]] = obj
        BY <1>t, <2>p, <2>s, <2>2 DEF PassedArePinned
      <3>3. OneFaultInv' /\ Undisturbed' /\ FreshFollowPins'
        BY <1>t, <2>s, <2>2, <3>2
        DEF OneFaultInv, AgreeFrom, Undisturbed, FreshFollowPins, HookIsMine, LdTypeOK
      <3> QED BY <3>1, <3>3 DEF LdInv
    <2> QED
      <3>1. \/ i < Len(maps) /\ Goto("pin", i + 1)
            \/ i = Len(maps) /\ End("EXIT_OK") /\ UNCHANGED i
        BY <1>9, SMTT(30) DEF Pin
      <3>2. QED BY <2>1, <2>2, <3>1 DEF Goto, End
  <1>10. CASE PinExists
    <2>1. LdTypeOK' /\ InLoop' /\ HookIsMine' /\ PassedArePinned'
      BY <1>10, <1>t
      DEF PinExists, Goto, rest, LdTypeOK, InLoop, HookIsMine, PassedArePinned
    <2>2. OneFaultInv' /\ Undisturbed' /\ FreshFollowPins'
      BY <1>10, <1>t, <1>f
      DEF PinExists, Goto, rest, LdTypeOK, InLoop, OneFaultInv, AgreeFrom, Undisturbed,
          FreshFollowPins
    <2> QED BY <2>1, <2>2 DEF LdInv
  <1>11. CASE Rollback
    <2>s. /\ ld_pc = "rollback" /\ fresh = {} /\ obj' = obj /\ obj > 0
          /\ UNCHANGED <<attached, native, handle, fresh, faults, cfg>>
      BY <1>11, <1>t, <1>f DEF Rollback, Goto, End, rest, InLoop, FreshFollowPins
    <2>1. CASE /\ i > 0 /\ pins' = [pins EXCEPT ![maps[i]] = 0]
               /\ ld_pc' = "rollback" /\ i' = i - 1
      <3>p. /\ pins' \in [MapNames -> Nat]
            /\ \A k \in DOMAIN maps : pins'[maps[k]] = IF k = i THEN 0 ELSE pins[maps[k]]
        BY <2>1, <1>t, PinUpdate
      <3>1. LdTypeOK' /\ InLoop' /\ HookIsMine' /\ PassedArePinned'
        BY <1>t, <2>s, <2>1, <3>p DEF LdTypeOK, InLoop, HookIsMine, PassedArePinned
      <3>2. OneFaultInv' /\ Undisturbed' /\ FreshFollowPins'
        BY <1>t, <1>f, <2>s, <2>1, <3>p
        DEF LdTypeOK, OneFaultInv, AgreeFrom, Undisturbed, FreshFollowPins
      <3> QED BY <3>1, <3>2 DEF LdInv
    <2>2. CASE i = 0 /\ ld_pc' = "idle" /\ UNCHANGED <<pins, i>>
      <3>1. LdTypeOK' /\ InLoop' /\ HookIsMine' /\ PassedArePinned'
        BY <1>t, <2>s, <2>2 DEF LdTypeOK, InLoop, HookIsMine, PassedArePinned
      <3>2. OneFaultInv' /\ Undisturbed' /\ FreshFollowPins'
        BY <1>t, <1>f, <2>s, <2>2
        DEF LdTypeOK, OneFaultInv, AgreeFrom, Undisturbed, FreshFollowPins
      <3> QED BY <3>1, <3>2 DEF LdInv
    <2> QED
      <3>1. \/ i > 0 /\ pins' = [pins EXCEPT ![maps[i]] = 0] /\ Goto("rollback", i - 1)
            \/ i = 0 /\ End("EXIT_FAIL_BPF") /\ UNCHANGED <<pins, i>>
        BY <1>11 DEF Rollback
      <3>2. QED BY <2>1, <2>2, <3>1 DEF Goto, End
  <1>12. CASE KernelFails
    <2>1. LdTypeOK' /\ InLoop' /\ HookIsMine' /\ PassedArePinned'
      BY <1>12, <1>t
      DEF KernelFails, Goto, End, rest, LdTypeOK, InLoop, HookIsMine, PassedArePinned
    <2>2. OneFaultInv' /\ Undisturbed' /\ FreshFollowPins'
      BY <1>12, <1>t, <1>f
      DEF KernelFails, Goto, End, rest, LdTypeOK, InLoop, OneFaultInv, AgreeFrom,
          Undisturbed, FreshFollowPins
    <2> QED BY <2>1, <2>2 DEF LdInv
  <1>13. CASE Kill
    <2>1. LdTypeOK' /\ InLoop' /\ HookIsMine' /\ PassedArePinned'
      BY <1>13, <1>t DEF Kill, End, rest, LdTypeOK, InLoop, HookIsMine, PassedArePinned
    <2>2. OneFaultInv' /\ Undisturbed' /\ FreshFollowPins'
      BY <1>13, <1>t, <1>f
      DEF Kill, End, rest, LdTypeOK, InLoop, OneFaultInv, AgreeFrom, Undisturbed,
          FreshFollowPins
    <2> QED BY <2>1, <2>2 DEF LdInv
  <1>14. CASE \E u \in Users : Open(u)
    <2>1. LdTypeOK' /\ InLoop' /\ HookIsMine' /\ PassedArePinned'
      <3>1. \A u \in Users : Opens[u] \in MapNames
        BY LoaderAssumption
      <3>2. QED
        BY <1>14, <1>t, <3>1 DEF Open, run, LdTypeOK, InLoop, HookIsMine, PassedArePinned
    <2>2. OneFaultInv' /\ Undisturbed' /\ FreshFollowPins'
      BY <1>14, <1>t, <1>f
      DEF Open, run, LdTypeOK, OneFaultInv, AgreeFrom, Undisturbed, FreshFollowPins
    <2> QED BY <2>1, <2>2 DEF LdInv
  <1>15. CASE \E u \in Users : Close(u)
    <2>1. LdTypeOK' /\ InLoop' /\ HookIsMine' /\ PassedArePinned'
      BY <1>15, <1>t DEF Close, run, LdTypeOK, InLoop, HookIsMine, PassedArePinned
    <2>2. OneFaultInv' /\ Undisturbed' /\ FreshFollowPins'
      BY <1>15, <1>t, <1>f
      DEF Close, run, LdTypeOK, OneFaultInv, AgreeFrom, Undisturbed, FreshFollowPins
    <2> QED BY <2>1, <2>2 DEF LdInv
  <1>16. CASE UNCHANGED ldVars
    BY <1>16, <1>t, <1>f
    DEF ldVars, run, rest, LdInv, LdTypeOK, InLoop, HookIsMine, PassedArePinned,
        AgreeFrom, OneFaultInv, Undisturbed, FreshFollowPins
  <1>17. QED
    BY <1>1, <1>2, <1>3, <1>4, <1>5, <1>6, <1>7, <1>8, <1>9, <1>10, <1>11, <1>12,
       <1>13, <1>14, <1>15, <1>16
    DEF LdNext

\* The hook and the pins are as the invariant says in every reachable state.
THEOREM LoaderInvariant == LdSpec => []LdInv
  <1>1. LdInit => LdInv
    BY LdInvInit
  <1>2. LdInv /\ [LdNext]_ldVars => LdInv'
    BY LdInvStep
  <1>3. QED
    BY <1>1, <1>2, PTL DEF LdSpec

-----------------------------------------------------------------------------
(* The properties of the runs.                                             *)

\* pin_maps_in_bpf_object and xdp_link_attach together: between undisturbed runs
\* the attached program is the one whose maps are pinned, and a program that was
\* started since the last run has one of its maps open.
THEOREM PinsAlwaysServeUsers == LdSpec => []PinsServeUsers
  <1>1. LdInv => PinsServeUsers
    <2> SUFFICES ASSUME LdInv PROVE PinsServeUsers
      OBVIOUS
    <2>1. LdTypeOK /\ HookIsMine /\ Undisturbed /\ FreshFollowPins
      BY DEF LdInv
    <2>2. ASSUME ld_pc = "idle", faults = 0, OnHook # {}
          PROVE  Pinned = OnHook /\ \A n \in MapNames : pins[n] \in OnHook
      <3>1. PICK m \in Modes : attached[m] # 0 /\ attached[m] \in OnHook
        BY <2>2 DEF OnHook
      <3>2. \A n \in MapNames : pins[n] = attached[m]
        BY <2>1, <2>2, <3>1, NamesFacts DEF Undisturbed
      <3>3. OnHook = {attached[m]}
        BY <2>1, <3>1 DEF OnHook, Modes, HookIsMine
      <3>4. Pinned = {attached[m]}
        <4>1. \E n \in MapNames : TRUE
          BY MapsFacts, NamesFacts
        <4>2. QED
          BY <3>2, <4>1 DEF Pinned
      <3>5. QED
        BY <3>1, <3>2, <3>3, <3>4
    <2>3. PinsMatchHook
      BY <2>2 DEF PinsMatchHook
    <2>4. FreshUsersAreServed
      BY <2>1, <2>2, LoaderAssumption DEF FreshUsersAreServed, FreshFollowPins, LdTypeOK
    <2>5. QED
      BY <2>3, <2>4 DEF PinsServeUsers
  <1>2. QED
    BY LoaderInvariant, <1>1, PTL

\* The rollback of bpf_object__pin_maps: after one kill or one refusal, wherever
\* it struck, the pins are never those of two objects.
THEOREM OneFaultNeverMixes == LdSpec => []OneFaultMixesNothing
  <1>1. LdInv => OneFaultMixesNothing
    BY MapsFacts, NamesFacts DEF LdInv, LdTypeOK, OneFaultInv, AgreeFrom, OneFaultMixesNothing
  <1>2. QED
    BY LoaderInvariant, <1>1, PTL

\* EXIT_OK is told the truth about: whatever went wrong in earlier runs, a run
\* that reports it has its program alone on the hook and all of its maps pinned.
THEOREM SuccessAlwaysComplete == LdSpec => SuccessIsComplete
  <1>1. LdInv /\ [LdNext]_ldVars =>
          [ld_pc # "idle" /\ ld_pc' = "idle" /\ exit' = "EXIT_OK"
             => OnHook' = {obj} /\ Pinned' = {obj}]_ldVars
    <2> SUFFICES ASSUME LdInv, LdNext,
                        ld_pc # "idle", ld_pc' = "idle", exit' = "EXIT_OK"
                 PROVE  OnHook' = {obj} /\ Pinned' = {obj}
      OBVIOUS
    <2>1. LdTypeOK /\ InLoop /\ HookIsMine /\ PassedArePinned
      BY DEF LdInv
    <2>2. Pin
      BY DEF LdNext, Unload, Load, Attach, Swap, AttachRefused, Access, Unpin,
             UnpinFails, PinExists, Rollback, KernelFails, Kill, Open, Close, Goto,
             End, run
    <2>3. /\ ld_pc = "pin" /\ i = Len(maps) /\ i > 0 /\ UNCHANGED attached
          /\ pins' = [pins EXCEPT ![maps[i]] = obj]
      BY <2>1, <2>2 DEF Pin, Goto, InLoop
    <2>4. \A k \in DOMAIN maps :
            pins'[maps[k]] = IF k = i THEN obj ELSE pins[maps[k]]
      BY <2>1, <2>3, PinUpdate DEF LdTypeOK
    <2>5. \A k \in DOMAIN maps : pins'[maps[k]] = obj
      BY <2>1, <2>3, <2>4, MapsFacts DEF PassedArePinned
    <2>6. Pinned' = {obj}
      BY <2>5, MapsFacts, NamesFacts DEF Pinned
    <2>7. OnHook' = {obj}
      BY <2>1, <2>3 DEF OnHook, Modes, HookIsMine, InLoop
    <2>8. QED
      BY <2>6, <2>7
  <1>2. QED
    BY LoaderInvariant, <1>1, PTL DEF LdSpec, SuccessIsComplete
=============================================================================
