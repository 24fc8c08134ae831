------------------------------ MODULE MC_Loader ------------------------------
(* An instance of Loader for TLC, with the maps of the XDP program.         *)
EXTENDS Loader

TheMaps == <<"xdp_stats_map", "perf_map", "white_list", "black_list">>
TheUsers == [u \in {"start_policy", "xdp_stats"} |->
               IF u = "start_policy" THEN "perf_map" ELSE "xdp_stats_map"]
=============================================================================
