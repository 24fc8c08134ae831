------------------------------- MODULE Loader -------------------------------
(***************************************************************************)
(* xdp_loader and what its runs leave behind: the program on the           *)
(* interface's hook, in generic (skb) or native (drv) mode, and the maps   *)
(* pinned under /sys/fs/bpf/<ifname>, by which start_policy and xdp_stats  *)
(* find the program's maps when they start.                                *)
(*                                                                         *)
(* Each run of the loader creates a new object (a program and its maps),   *)
(* named here by the number of the run; 0 is none.  The loader attaches    *)
(* the program, unpins the maps of an earlier object, and pins its own.    *)
(* It may be killed before any of its system calls.                        *)
(***************************************************************************)
EXTENDS Integers, Sequences

CONSTANTS
  maps,      \* the names of an object's maps, in the order libbpf keeps them
  map_name,  \* the one whose pin the loader looks for
  Opens,     \* program that uses a map -> name of the map it opens
  MaxLoads,  \* bound: objects loaded
  MaxFaults  \* bound: kills of the loader and failures of the kernel

MapNames == {maps[k] : k \in DOMAIN maps}
Users == DOMAIN Opens

ASSUME LoaderAssumption ==
  /\ maps \in Seq(STRING) /\ maps # <<>>
  /\ \A j, k \in DOMAIN maps : maps[j] = maps[k] => j = k
  /\ map_name \in MapNames
  /\ \A u \in Users : Opens[u] \in MapNames
  /\ MaxLoads \in Nat /\ MaxFaults \in Nat

VARIABLES
  native,   \* whether the interface's driver supports XDP
  attached, \* mode -> the object on the hook
  pins,     \* name -> the object whose map is pinned under it
  ld_pc,       \* where the loader is; "idle" between two runs
  cfg,      \* the mode and --force of this run
  obj,      \* the object of this run, and the number of objects loaded so far
  i,        \* the map that the pin or unpin loop is at
  exit,     \* how the last run ended
  handle,   \* program -> the object whose map it has open
  fresh,    \* history: the programs that no run of the loader has overlapped
  faults    \* history: kills and kernel failures so far

run == <<ld_pc, cfg, obj, i, exit>>
rest == <<native, handle, fresh>>
ldVars == <<attached, pins, run, rest, faults>>

Modes == {"skb", "drv"}
Objects == 0 .. MaxLoads

LdInit ==
  /\ native \in BOOLEAN
  /\ attached = [m \in Modes |-> 0]
  /\ pins = [n \in MapNames |-> 0]
  /\ ld_pc = "idle" /\ cfg = [mode |-> "drv", force |-> FALSE]
  /\ obj = 0 /\ i = 1 /\ exit = "none"
  /\ handle = [u \in Users |-> 0] /\ fresh = {}
  /\ faults = 0

-----------------------------------------------------------------------------
(* The kernel's side of bpf_set_link_xdp_fd: one mode at a time, and none  *)
(* of native mode without a driver for it.                                 *)

\* The hook that a mode means; with no mode flag the kernel takes the best.
Hook(mode) == IF mode = "auto" THEN IF native THEN "drv" ELSE "skb" ELSE mode
Other(m) == IF m = "skb" THEN "drv" ELSE "skb"

Supported(mode) == Hook(mode) = "drv" => native

\* The error of attaching, where the kernel has no failure of its own.
LinkError(mode, force) ==
  IF ~ Supported(mode) THEN "EOPNOTSUPP"
  ELSE IF attached[Other(Hook(mode))] # 0 THEN "EEXIST"
  ELSE IF ~ force /\ attached[Hook(mode)] # 0 THEN "EBUSY"
  ELSE "none"

-----------------------------------------------------------------------------
(* Runs of the loader.                                                     *)

End(code) ==
  /\ ld_pc' = "idle"
  /\ exit' = code
  /\ UNCHANGED <<cfg, obj>>

Goto(label, k) ==
  /\ ld_pc' = label
  /\ i' = k
  /\ UNCHANGED <<cfg, obj, exit>>

\* A run begins: the object is loaded into the kernel.
Load(mode, force) ==
  /\ ld_pc = "idle"
  /\ obj < MaxLoads
  /\ obj' = obj + 1
  /\ cfg' = [mode |-> mode, force |-> force]
  /\ ld_pc' = "attach"
  /\ fresh' = {}
  /\ UNCHANGED <<native, attached, pins, i, exit, handle, faults>>

\* xdp_link_attach puts the program on the hook.
Attach ==
  /\ ld_pc = "attach"
  /\ LinkError(cfg.mode, cfg.force) = "none"
  /\ attached' = [attached EXCEPT ![Hook(cfg.mode)] = obj]
  /\ Goto("access", i)
  /\ UNCHANGED <<pins, rest, faults>>

\* The other mode is in use and --force was given: xdp_link_attach detaches it
\* and tries again.
Swap ==
  /\ ld_pc = "attach"
  /\ LinkError(cfg.mode, cfg.force) = "EEXIST"
  /\ cfg.force
  /\ attached' = [attached EXCEPT ![IF cfg.mode = "skb" THEN "drv" ELSE "skb"] = 0]
  /\ UNCHANGED <<pins, run, rest, faults>>

\* Any other error ends the run.
AttachRefused ==
  /\ ld_pc = "attach"
  /\ LinkError(cfg.mode, cfg.force) # "none"
  /\ ~ (LinkError(cfg.mode, cfg.force) = "EEXIST" /\ cfg.force)
  /\ End("EXIT_FAIL_XDP")
  /\ UNCHANGED <<attached, pins, i, rest, faults>>

Access_NoUnpin ==
  /\ ld_pc = "access"
  /\ Goto("pin", 1)
  /\ UNCHANGED <<attached, pins, rest, faults>>

\* pin_maps_in_bpf_object takes one pin for the sign that all of them exist.
Access ==
  /\ ld_pc = "access"
  /\ Goto(IF pins[map_name] # 0 THEN "unpin" ELSE "pin", 1)
  /\ UNCHANGED <<attached, pins, rest, faults>>

\* bpf_object__unpin_maps removes the pins one by one.
Unpin ==
  /\ ld_pc = "unpin"
  /\ pins[maps[i]] # 0
  /\ pins' = [pins EXCEPT ![maps[i]] = 0]
  /\ IF i < Len(maps) THEN Goto("unpin", i + 1) ELSE Goto("pin", 1)
  /\ UNCHANGED <<attached, rest, faults>>

\* It gives up at the first that is not there.
UnpinFails ==
  /\ ld_pc = "unpin"
  /\ pins[maps[i]] = 0
  /\ End("EXIT_FAIL_BPF")
  /\ UNCHANGED <<attached, pins, i, rest, faults>>

Pin_LastSkipped ==
  /\ ld_pc = "pin"
  /\ pins[maps[i]] = 0
  /\ pins' = [pins EXCEPT ![maps[i]] = obj]
  /\ \/ i + 1 < Len(maps) /\ Goto("pin", i + 1)
     \/ i + 1 >= Len(maps) /\ End("EXIT_OK") /\ UNCHANGED i
  /\ UNCHANGED <<attached, rest, faults>>

\* bpf_object__pin_maps pins them one by one; the last ends the run.
Pin ==
  /\ ld_pc = "pin"
  /\ pins[maps[i]] = 0
  /\ pins' = [pins EXCEPT ![maps[i]] = obj]
  /\ \/ i < Len(maps) /\ Goto("pin", i + 1)
     \/ i = Len(maps) /\ End("EXIT_OK") /\ UNCHANGED i
  /\ UNCHANGED <<attached, rest, faults>>

\* A name that is taken: the maps pinned so far are unpinned again.
PinExists ==
  /\ ld_pc = "pin"
  /\ pins[maps[i]] # 0
  /\ Goto("rollback", i - 1)
  /\ UNCHANGED <<attached, pins, rest, faults>>

Rollback_Leaves ==
  /\ ld_pc = "rollback"
  /\ End("EXIT_FAIL_BPF")
  /\ UNCHANGED <<attached, pins, i, rest, faults>>

Rollback ==
  /\ ld_pc = "rollback"
  /\ \/ /\ i > 0
        /\ pins' = [pins EXCEPT ![maps[i]] = 0]
        /\ Goto("rollback", i - 1)
     \/ /\ i = 0
        /\ End("EXIT_FAIL_BPF")
        /\ UNCHANGED <<pins, i>>
  /\ UNCHANGED <<attached, rest, faults>>

\* --unload: nothing to do without a program, otherwise the hook of the mode
\* that was given is emptied.  The pins stay.
Unload(mode) ==
  /\ ld_pc = "idle"
  /\ fresh' = {}
  /\ \/ /\ \A m \in Modes : attached[m] = 0
        /\ exit' = "EXIT_OK"
        /\ UNCHANGED attached
     \/ /\ \E m \in Modes : attached[m] # 0
        /\ Supported(mode)
        /\ attached' = [attached EXCEPT ![Hook(mode)] = 0]
        /\ exit' = "EXIT_OK"
     \/ /\ \E m \in Modes : attached[m] # 0
        /\ ~ Supported(mode)
        /\ exit' = "EXIT_FAIL_XDP"
        /\ UNCHANGED attached
  /\ UNCHANGED <<native, pins, ld_pc, cfg, obj, i, handle, faults>>

\* The kernel refuses: the driver has no resources for native mode, or bpffs
\* cannot take another pin.
KernelFails ==
  /\ faults < MaxFaults
  /\ faults' = faults + 1
  /\ \/ ld_pc = "attach" /\ End("EXIT_FAIL_XDP") /\ UNCHANGED i
     \/ ld_pc = "pin" /\ Goto("rollback", i - 1)
  /\ UNCHANGED <<attached, pins, rest>>

\* The loader is killed; what it did to the hook and to bpffs stays.
Kill ==
  /\ faults < MaxFaults
  /\ faults' = faults + 1
  /\ ld_pc # "idle"
  /\ End("killed")
  /\ UNCHANGED <<attached, pins, i, rest>>

-----------------------------------------------------------------------------
(* start_policy and xdp_stats open a map by its pin, once, and keep it.    *)

Open(u) ==
  /\ handle[u] = 0
  /\ pins[Opens[u]] # 0
  /\ handle' = [handle EXCEPT ![u] = pins[Opens[u]]]
  /\ fresh' = IF ld_pc = "idle" THEN fresh \cup {u} ELSE fresh
  /\ UNCHANGED <<native, attached, pins, run, faults>>

Close(u) ==
  /\ handle[u] # 0
  /\ handle' = [handle EXCEPT ![u] = 0]
  /\ fresh' = fresh \ {u}
  /\ UNCHANGED <<native, attached, pins, run, faults>>

LdNext ==
  \/ \E mode \in Modes \cup {"auto"} :
       Unload(mode) \/ \E force \in BOOLEAN : Load(mode, force)
  \/ Attach \/ Swap \/ AttachRefused
  \/ Access \/ Unpin \/ UnpinFails \/ Pin \/ PinExists \/ Rollback
  \/ KernelFails \/ Kill
  \/ \E u \in Users : Open(u) \/ Close(u)

LdSpec == LdInit /\ [][LdNext]_ldVars

-----------------------------------------------------------------------------
(* Properties.                                                             *)

OnHook == {attached[m] : m \in Modes} \ {0}
Pinned == {pins[n] : n \in MapNames}

\* Between two runs of a loader that nothing has disturbed, an attached program
\* is the one whose maps are pinned, all of them, whatever was loaded, replaced
\* and unloaded before (pin_maps_in_bpf_object, xdp_loader.c:90-109).
PinsMatchHook ==
  ld_pc = "idle" /\ faults = 0 /\ OnHook # {} => Pinned = OnHook

\* A run that ends with EXIT_OK has put its program on the hook, alone, and
\* pinned all of its maps, whatever earlier runs were killed or refused
\* (xdp_loader.c:152-158).
SuccessIsComplete ==
  [][ld_pc # "idle" /\ ld_pc' = "idle" /\ exit' = "EXIT_OK"
       => OnHook' = {obj} /\ Pinned' = {obj}]_ldVars

\* One kill or refusal, at any point, never leaves the pins of two objects side
\* by side for start_policy and update_list to open (the rollback of
\* bpf_object__pin_maps, libbpf.c:4457).
OneFaultMixesNothing ==
  ld_pc = "idle" /\ faults <= 1 =>
    \A n1, n2 \in MapNames : pins[n1] # 0 /\ pins[n2] # 0 => pins[n1] = pins[n2]

\* A program that was started between two runs and has seen none since reads
\* the map of the program on the hook (open_bpf_map_file, start_policy.c:505).
FreshUsersAreServed ==
  faults = 0 /\ OnHook # {} => \A u \in fresh : handle[u] \in OnHook

\* Both together: the pins lead the programs that start to the program that runs.
PinsServeUsers == PinsMatchHook /\ FreshUsersAreServed

\* What an earlier run left never makes the pinning fail ("Existing/previous
\* XDP prog might not have cleaned up", xdp_loader.c:90).
LeftoversAreCleaned ==
  /\ ld_pc = "unpin" => pins[maps[i]] # 0
  /\ ld_pc = "pin" => pins[maps[i]] = 0
=============================================================================
