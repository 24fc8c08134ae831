------------------------------ MODULE Programs ------------------------------
(***************************************************************************)
(* How the programs of src/main start: parse_cmdline_args takes the        *)
(* options one by one, main asks for --dev, and then start_policy,         *)
(* xdp_stats and update_list open a pinned map and compare it with what    *)
(* they expect (open_bpf_map_file, check_map_fd_info).  start_policy does  *)
(* the last two again for every block and unblock, with the same global    *)
(* info.  A struct bpf_map_info is abstracted to the map it describes.     *)
(***************************************************************************)
EXTENDS Integers, Sequences, FiniteSets

CONSTANT MaxArgs \* bound: options on the command line

VARIABLES
  prog,     \* the program
  parsed,   \* history: the options parsed
  main_cfg, \* struct config: flags, device, and what to do
  main_pc,  \* where main is
  info,     \* the map that info describes; "zero" before the first success
  map_fd,   \* what open_bpf_map_file returned: the map behind it, or "40"
  mapname,  \* the map that main opens
  main_exit \* the exit code

mainVars == <<prog, parsed, main_cfg, main_pc, info, map_fd, mapname, main_exit>>

Started == {"xdp_loader", "start_policy", "xdp_stats", "update_list"}

\* The map that a program opens when it starts; update_list asks for it.
OpensFirst == [start_policy |-> "perf_map", xdp_stats |-> "xdp_stats_map",
               update_list |-> "asked", xdp_loader |-> "none"]

\* What the kernel says of the maps: sizes of key and value, and entries (perf_map
\* gives none, and has as many as there are CPUs).
XDP_ACTION_MAX == 5
Shape == [perf_map |-> <<4, 4, 2>>, black_list |-> <<4, 4, 10000>>,
          white_list |-> <<4, 4, 10000>>, xdp_stats_map |-> <<4, 16, XDP_ACTION_MAX>>,
          zero |-> <<0, 0, 0>>]

\* What the programs expect; 0 is not compared.
map_expect == [start_policy |-> <<4, 4, 0>>, xdp_stats |-> <<4, 16, XDP_ACTION_MAX>>,
               update_list |-> <<4, 4, 10000>>]

\* Options of the getopt string, --dev with a good, a long and an unknown name.
Options == {"dev", "devLong", "devUnknown", "A", "S", "N", "F", "U", "M", "q", "c", "z",
            "h"}

ModeFlags == {"SKB", "DRV", "HW"}

MainInit ==
  /\ prog \in Started
  /\ parsed = <<>>
  /\ main_cfg = [flags |-> IF prog = "xdp_loader" THEN {"NOEXIST", "DRV"} ELSE {},
            dev |-> FALSE, unload |-> FALSE, reuse |-> FALSE, bind |-> {}, verbose |-> TRUE]
  /\ main_pc = "parse" /\ info = "zero" /\ map_fd = "none"
  /\ mapname = OpensFirst[prog] /\ main_exit = "none"

-----------------------------------------------------------------------------

Exit(code) == main_pc' = "exit" /\ main_exit' = code
Continue(label) == main_pc' = label /\ UNCHANGED main_exit

WithMode(mode) == [main_cfg EXCEPT !.flags = (@ \ ModeFlags) \cup mode]

\* What one option does to struct config.
ApplyOption(o) ==
  CASE o = "dev" -> [main_cfg EXCEPT !.dev = TRUE]
    [] o = "A" -> WithMode({})
    [] o = "S" -> [WithMode({"SKB"}) EXCEPT !.bind = (@ \cap {"ZEROCOPY"}) \cup {"COPY"}]
    [] o = "N" -> WithMode({"DRV"})
    [] o = "F" -> [main_cfg EXCEPT !.flags = @ \ {"NOEXIST"}]
    [] o = "U" -> [main_cfg EXCEPT !.unload = TRUE]
    [] o = "M" -> [main_cfg EXCEPT !.reuse = TRUE]
    [] o = "q" -> [main_cfg EXCEPT !.verbose = FALSE]
    [] o = "c" -> [main_cfg EXCEPT !.bind = (@ \cap {"ZEROCOPY"}) \cup {"COPY"}]
    [] o = "z" -> [main_cfg EXCEPT !.bind = (@ \cap {"COPY"}) \cup {"ZEROCOPY"}]
    [] OTHER -> main_cfg

\* One turn of the loop; a bad device, -h and an unknown option end the program.
ParseOption(o) ==
  /\ main_pc = "parse" /\ Len(parsed) < MaxArgs
  /\ parsed' = Append(parsed, o)
  /\ main_cfg' = ApplyOption(o)
  /\ IF o \in {"devLong", "devUnknown", "h"} THEN Exit("EXIT_FAIL_OPTION")
     ELSE Continue("parse")
  /\ UNCHANGED <<prog, info, map_fd, mapname>>

\* A long option is looked up in a table without an end mark: past its end the
\* search meets whatever lies there.
ReadPastTable ==
  /\ main_pc = "parse" /\ Len(parsed) < MaxArgs
  /\ \/ Exit("crash")
     \/ Exit("EXIT_FAIL_OPTION")
  /\ UNCHANGED <<prog, parsed, main_cfg, info, map_fd, mapname>>

\* --dev is required; the loader then goes its own way (see Loader).
EndOptions ==
  /\ main_pc = "parse"
  /\ IF ~ main_cfg.dev THEN Exit("EXIT_FAIL_OPTION")
     ELSE Continue(CASE prog = "update_list" -> "ask"
                     [] prog = "xdp_loader" -> IF main_cfg.unload THEN "detach" ELSE "load"
                     [] OTHER -> "open")
  /\ UNCHANGED <<prog, parsed, main_cfg, info, map_fd, mapname>>

\* update_list reads the name of the list from its input.
AskName ==
  /\ main_pc = "ask"
  /\ \E name \in {"white_list", "black_list", "other"} :
       /\ mapname' = name
       /\ IF name = "other" THEN Exit("-1") ELSE Continue("open")
  /\ UNCHANGED <<prog, parsed, main_cfg, info, map_fd>>

\* open_bpf_map_file: there may be no such pin; if the map is opened and its
\* description fails, the exit code EXIT_FAIL_BPF is returned as a descriptor.
Opened(name) ==
  \/ /\ map_fd' = "none"
     /\ UNCHANGED info
     /\ IF main_pc = "open" THEN Exit("EXIT_FAIL_BPF") ELSE Continue("work")
  \/ /\ map_fd' = "40"
     /\ UNCHANGED info
     /\ Continue(IF main_pc = "open" THEN "check" ELSE "recheck")
  \/ /\ map_fd' = name
     /\ info' = name
     /\ Continue(IF main_pc = "open" THEN "check" ELSE "recheck")

OpenMap ==
  /\ main_pc = "open"
  /\ Opened(mapname)
  /\ UNCHANGED <<prog, parsed, main_cfg, mapname>>

check_map_fd_info_ZeroPasses(exp) ==
  \A k \in 1 .. 3 : exp[k] # 0 /\ Shape[info][k] # 0 => exp[k] = Shape[info][k]
check_map_fd_info(exp) == \A k \in 1 .. 3 : exp[k] # 0 => exp[k] = Shape[info][k]

CheckMap ==
  /\ main_pc = "check"
  /\ IF check_map_fd_info(map_expect[prog]) THEN Continue("start") ELSE Exit("EXIT_FAIL")
  /\ UNCHANGED <<prog, parsed, main_cfg, info, map_fd, mapname>>

\* What main does next: the rings, the readings or the file.
BeginWork ==
  /\ main_pc = "start"
  /\ Continue("work")
  /\ UNCHANGED <<prog, parsed, main_cfg, info, map_fd, mapname>>

\* policy_change_black_list, again and again.
ReopenMap ==
  /\ main_pc = "work" /\ prog = "start_policy"
  /\ Opened("black_list")
  /\ UNCHANGED <<prog, parsed, main_cfg, mapname>>

RecheckMap ==
  /\ main_pc = "recheck"
  /\ Continue(IF check_map_fd_info(map_expect[prog]) THEN "change" ELSE "work")
  /\ UNCHANGED <<prog, parsed, main_cfg, info, map_fd, mapname>>

\* The map is written, through the descriptor.
ChangeMap ==
  /\ main_pc = "change"
  /\ Continue("work")
  /\ UNCHANGED <<prog, parsed, main_cfg, info, map_fd, mapname>>

MainNext ==
  \/ \E o \in Options : ParseOption(o)
  \/ ReadPastTable \/ EndOptions \/ AskName \/ OpenMap \/ CheckMap \/ BeginWork
  \/ ReopenMap \/ RecheckMap \/ ChangeMap

MainSpec == MainInit /\ [][MainNext]_mainVars

-----------------------------------------------------------------------------
(* Properties.                                                             *)

ModeOf == [A |-> {}, S |-> {"SKB"}, N |-> {"DRV"}]
ModeArgs == {k \in DOMAIN parsed : parsed[k] \in DOMAIN ModeOf}

\* Of the options -A, -S and -N the last one counts, without any the loader's
\* native mode does, and no two modes are ever set together; these are the modes
\* that Loader starts its runs with.
LastModeWins ==
  main_pc \in {"load", "detach"} =>
    main_cfg.flags \cap ModeFlags =
      IF ModeArgs = {} THEN {"DRV"}
      ELSE ModeOf[parsed[CHOOSE k \in ModeArgs : \A j \in ModeArgs : j <= k]]

\* When a program begins its work, the descriptor it has is that of the map it
\* asked for, although open_bpf_map_file can return an exit code for one: info is
\* still zero then, and check_map_fd_info refuses it.
StartsOnItsMap == main_pc = "start" => map_fd = mapname

\* A program starts in the mode and on the map that its command line asks for.
StartsAsAsked == LastModeWins /\ StartsOnItsMap
=============================================================================
