------------------------------- MODULE MC_Tools -------------------------------
(* Instances for TLC of the programs of src/main beside the daemon's loop,   *)
(* and of the perf ring between them.  They share no state here: each        *)
(* behaviour is one of one component, named by which, while the others stay  *)
(* as they are.                                                              *)
EXTENDS Detector, Loader, PerfRing, PerfSetup, Programs, TextFiles, Stats

VARIABLE which

toolsVars ==
  <<which, dtVars, ldVars, ringVars, setupVars, mainVars, fileVars, statsVars>>

\* Sources 1 and 2 send to the protected addresses 8 and 9.
TwoPolicies == <<[ip |-> 9, threshold |-> 1], [ip |-> 8, threshold |-> 1]>>

\* The maps of the XDP program, and the ones that two of the programs open.
TheMaps == <<"xdp_stats_map", "perf_map", "white_list", "black_list">>
TheUsers == [u \in {"start_policy", "xdp_stats"} |->
               IF u = "start_policy" THEN "perf_map" ELSE "xdp_stats_map"]

\* Uninitialised words other than 0 are tried with windows for one destination:
\* what they do to other windows is a run of its own.
OneDestination == \A j, k \in DOMAIN packets_queue : packets_queue[j].dst = packets_queue[k].dst
Cleared == [w \in Words |-> 0]

Components == {"detector", "loader", "ring", "setup", "main", "file", "stats"}

ToolsInit ==
  /\ which \in Components
  /\ IF which = "detector" THEN DtInit /\ (psi = Cleared \/ OneDestination)
     ELSE packets_queue = <<>> /\ psi = Cleared /\ DtInit
  /\ IF which = "loader" THEN LdInit ELSE native = TRUE /\ LdInit
  /\ RingInit
  /\ IF which = "setup" THEN SetupInit ELSE api = "poller" /\ online = {0} /\ SetupInit
  /\ IF which = "main" THEN MainInit ELSE prog = "xdp_stats" /\ MainInit
  /\ IF which = "file" THEN FileInit ELSE text = <<>> /\ file_pc = "list" /\ FileInit
  /\ StatsInit

\* The component's variables change only in its own behaviours.
Keep(c, v) == IF which = c THEN TRUE ELSE UNCHANGED v

ToolsNext ==
  /\ \/ which = "detector" /\ DtNext
     \/ which = "loader" /\ LdNext
     \/ which = "ring" /\ RingNext
     \/ which = "setup" /\ SetupNext
     \/ which = "main" /\ MainNext
     \/ which = "file" /\ FileNext
     \/ which = "stats" /\ StatsNext
  /\ Keep("detector", dtVars) /\ Keep("loader", ldVars) /\ Keep("ring", ringVars)
  /\ Keep("setup", setupVars) /\ Keep("main", mainVars) /\ Keep("file", fileVars)
  /\ Keep("stats", statsVars)
  /\ UNCHANGED which

ToolsSpec == ToolsInit /\ [][ToolsNext]_toolsVars
=============================================================================
