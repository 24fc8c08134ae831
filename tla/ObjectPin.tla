------------------------------ MODULE ObjectPin -----------------------------
(***************************************************************************)
(* bpf_object__pin and its parts: the maps and programs of a loaded object *)
(* get names in the BPF file system, one by one; when one cannot be pinned *)
(* those before it are unpinned again, which may fail as well.  Programs   *)
(* may have instances, pinned in a directory of their own.  Other          *)
(* processes pin there too.                                                *)
(***************************************************************************)
EXTENDS Integers, Sequences, FiniteSets

CONSTANTS
  PinMaps,    \* the number of maps
  Instances,  \* program -> its number of instances
  AutoPinned, \* the maps that have a pin_path of their own and were pinned by the load
  PinDirs,    \* directories to pin in
  MaxPinCalls, MaxPinFaults \* bounds: calls, and failures and files of others

\* (The loops over no map, or over no program, do nothing: objects that have some.)
ASSUME ObjectPinAssumption ==
  /\ PinMaps \in Nat \ {0} /\ Instances \in Seq(Nat \ {0}) /\ Instances # <<>>
  /\ AutoPinned \subseteq 1 .. PinMaps /\ MaxPinCalls \in Nat /\ MaxPinFaults \in Nat

VARIABLES
  op_map,    \* map -> [dir, pinned]: the directory of its pin_path, or "none"
  op_files,  \* the files: <<directory, "map" or "prog", number, instance, owner>>
  op,        \* the call: its place, its steps so far and what it is for
  op_ret,    \* what it returned
  op_before, \* history: the files and pinned maps when the call began
  op_stuck,  \* history: the files of this call that could not be unlinked
  op_calls, op_faults

opVars == <<op_map, op_files, op, op_ret, op_before, op_stuck, op_calls, op_faults>>

Autodir == "auto"
Progs == DOMAIN Instances
OpIdle == [pc |-> "idle", call |-> "none", dir |-> "none", i |-> 1, k |-> 0]
MapFile(dir, m, owner) == <<dir, "map", m, 0, owner>>
ProgFile(dir, p, k, owner) == <<dir, "prog", p, k, owner>>
Taken(file) == \E f \in op_files : <<f[1], f[2], f[3], f[4]>> = <<file[1], file[2], file[3], file[4]>>
Without(file) == {f \in op_files : <<f[1], f[2], f[3], f[4]>> # <<file[1], file[2], file[3], file[4]>>}

OpInit ==
  /\ op_map = [m \in 1 .. PinMaps |-> IF m \in AutoPinned THEN [dir |-> Autodir, pinned |-> TRUE]
                                      ELSE [dir |-> "none", pinned |-> FALSE]]
  /\ op_files = {MapFile(Autodir, m, "own") : m \in AutoPinned}
  /\ op = OpIdle /\ op_ret = "none"
  /\ op_before = [files |-> op_files, map |-> op_map] /\ op_stuck = {}
  /\ op_calls = 0 /\ op_faults = 0

OpFails == op_faults < MaxPinFaults /\ op_faults' = op_faults + 1
OpSucceeds == UNCHANGED op_faults
OpAt(pc, i, k) == op' = [op EXCEPT !.pc = pc, !.i = i, !.k = k]
OpReturn(ret) == op' = [op EXCEPT !.pc = "idle"] /\ op_ret' = ret

\* Another process pins something of its own.
OtherFile(file) ==
  /\ ~ Taken(file) /\ OpFails
  /\ op_files' = op_files \cup {file}
  /\ op_before' = [op_before EXCEPT !.files = @ \cup {file}]
  /\ UNCHANGED <<op_map, op, op_ret, op_stuck, op_calls>>

\* check_path and unlink: whatever is at the path is removed, ...
Unlinked(file) ==
  /\ Taken(file) /\ OpSucceeds
  /\ op_files' = Without(file) /\ UNCHANGED op_stuck
\* ... unless one of them fails.
NotUnlinked(file) ==
  /\ IF Taken(file) THEN OpFails ELSE OpSucceeds
  /\ op_stuck' = op_stuck \cup {file} /\ UNCHANGED op_files

\* bpf_object__pin pins the maps and then the programs; bpf_object__pin_maps with
\* no path pins the maps that have one.
BeginPin(call, dir) ==
  /\ op.pc = "idle" /\ op_calls < MaxPinCalls
  /\ call \in {"pin", "pin_programs", "unpin_programs"} => dir # "none"
  /\ op_calls' = op_calls + 1
  /\ op' = [OpIdle EXCEPT !.pc = CASE call \in {"pin", "pin_maps"} -> "map"
                                    [] call = "pin_programs" -> "prog"
                                    [] call = "unpin_maps" -> "unmap"
                                    [] OTHER -> "unprog",
                          !.call = call, !.dir = dir]
  /\ op_ret' = "none"
  /\ op_before' = [files |-> op_files, map |-> op_map] /\ op_stuck' = {}
  /\ UNCHANGED <<op_map, op_files, op_faults>>

-----------------------------------------------------------------------------
(* Maps.                                                                   *)

NextMapToPin(m) ==
  IF m < PinMaps THEN OpAt("map", m + 1, 0) /\ UNCHANGED op_ret
  ELSE IF op.call = "pin" THEN OpAt("prog", 1, 0) /\ UNCHANGED op_ret
  ELSE OpReturn("0")

\* bpf_map__pin: a map has one path for good, even if pinning it there failed; one
\* that is pinned there already is left alone.
PinOneMap ==
  /\ op.pc = "map"
  /\ LET m == op.i
         dir == IF op_map[m].dir # "none" THEN op_map[m].dir ELSE op.dir
         file == MapFile(dir, m, "own")
     IN \/ /\ op.dir = "none" /\ op_map[m].dir = "none"
           /\ OpSucceeds /\ NextMapToPin(m) /\ UNCHANGED <<op_map, op_files>>
        \/ /\ op.dir # "none" /\ op_map[m].dir \notin {"none", op.dir}
           /\ OpSucceeds /\ OpAt("unpin", m - 1, 0) /\ UNCHANGED <<op_ret, op_map, op_files>>
        \/ /\ dir # "none" /\ op.dir \in {"none", dir} /\ op_map[m].pinned
           /\ OpSucceeds /\ NextMapToPin(m) /\ UNCHANGED <<op_map, op_files>>
        \/ /\ dir # "none" /\ op.dir \in {"none", dir} /\ ~ op_map[m].pinned
           /\ \/ /\ ~ Taken(file) /\ OpSucceeds
                 /\ op_files' = op_files \cup {file}
                 /\ op_map' = [op_map EXCEPT ![m] = [dir |-> dir, pinned |-> TRUE]]
                 /\ NextMapToPin(m)
              \/ /\ IF Taken(file) THEN OpSucceeds ELSE OpFails
                 /\ op_map' = [op_map EXCEPT ![m].dir = dir]
                 /\ OpAt("unpin", m - 1, 0) /\ UNCHANGED <<op_ret, op_files>>
              \/ /\ op_map[m].dir = "none" /\ OpFails \* strdup
                 /\ OpAt("unpin", m - 1, 0) /\ UNCHANGED <<op_ret, op_map, op_files>>
  /\ UNCHANGED <<op_before, op_stuck, op_calls>>

\* bpf_map__unpin: the mark goes with the file.
UnpinMap(m, file) == Unlinked(file) /\ op_map' = [op_map EXCEPT ![m].pinned = FALSE]
MapStaysPinned(file) == NotUnlinked(file) /\ UNCHANGED op_map

\* err_unpin_maps: the maps before the one that failed, last first, whether they
\* could be unpinned or not.
RollBackMap ==
  /\ op.pc = "unpin"
  /\ IF op.i = 0
     THEN OpReturn("error") /\ UNCHANGED <<op_map, op_files, op_stuck, op_faults>>
     ELSE /\ LET file == MapFile(op_map[op.i].dir, op.i, "own") IN
             \/ op_map[op.i].dir = "none" /\ UNCHANGED <<op_map, op_files, op_stuck, op_faults>>
             \/ op_map[op.i].dir # "none" /\ UnpinMap(op.i, file)
             \/ op_map[op.i].dir # "none" /\ MapStaysPinned(file)
          /\ OpAt("unpin", op.i - 1, 0) /\ UNCHANGED op_ret
  /\ UNCHANGED <<op_before, op_calls>>

\* bpf_object__unpin_maps, which stops at the first error; bpf_object__pin calls it
\* when the programs could not be pinned.
UnpinOneMap ==
  /\ op.pc = "unmap"
  /\ LET m == op.i
         dir == IF op_map[m].dir # "none" THEN op_map[m].dir ELSE op.dir
         file == MapFile(dir, m, "own")
         next == IF m < PinMaps THEN OpAt("unmap", m + 1, 0) /\ UNCHANGED op_ret
                 ELSE OpReturn(IF op.call = "pin" THEN "error" ELSE "0")
     IN \/ /\ dir = "none"
           /\ next /\ UNCHANGED <<op_map, op_files, op_stuck, op_faults>>
        \/ /\ dir # "none" /\ op.dir \notin {"none", dir}
           /\ OpReturn("error") /\ UNCHANGED <<op_map, op_files, op_stuck, op_faults>>
        \/ /\ dir # "none" /\ op.dir \in {"none", dir}
           /\ \/ UnpinMap(m, file) /\ next
              \/ MapStaysPinned(file) /\ OpReturn("error")
  /\ UNCHANGED <<op_before, op_calls>>

-----------------------------------------------------------------------------
(* Programs.                                                               *)

\* bpf_program__pin: one file, or a directory with one for each instance.
PinInstance ==
  /\ op.pc = "prog"
  /\ LET p == op.i
         file == ProgFile(op.dir, p, op.k, "own")
     IN \/ /\ ~ Taken(file) /\ OpSucceeds
           /\ op_files' = op_files \cup {file}
           /\ IF op.k + 1 < Instances[p] THEN OpAt("prog", p, op.k + 1) /\ UNCHANGED op_ret
              ELSE IF p < Len(Instances) THEN OpAt("prog", p + 1, 0) /\ UNCHANGED op_ret
              ELSE OpReturn("0")
        \/ /\ IF Taken(file) THEN OpSucceeds ELSE OpFails
           /\ OpAt("unpin_inst", p, op.k)
           /\ UNCHANGED <<op_ret, op_files>>
  /\ UNCHANGED <<op_map, op_before, op_stuck, op_calls>>

ProgramBefore_None == 0
\* bpf_program__prev: 0 before the first.
ProgramBefore == op.i - 1

\* err_unpin of bpf_program__pin: the instances before the one that failed, last
\* first, whether they could be unpinned or not; then err_unpin_programs.
RollBackInstance ==
  /\ op.pc = "unpin_inst"
  /\ IF op.k = 0
     THEN OpAt("unpin_prog", ProgramBefore, 0) /\ UNCHANGED <<op_files, op_stuck, op_faults>>
     ELSE LET file == ProgFile(op.dir, op.i, op.k - 1, "own") IN
          (Unlinked(file) \/ NotUnlinked(file)) /\ OpAt("unpin_inst", op.i, op.k - 1)
  /\ UNCHANGED <<op_map, op_ret, op_before, op_calls>>

\* err_unpin_programs: the programs before, each by bpf_program__unpin, which gives
\* up its own program at the first error.  bpf_object__pin goes on to the maps.
RollBackProgram ==
  /\ op.pc = "unpin_prog"
  /\ IF op.i = 0
     THEN /\ IF op.call = "pin" THEN OpAt("unmap", 1, 0) /\ UNCHANGED op_ret ELSE OpReturn("error")
          /\ UNCHANGED <<op_files, op_stuck, op_faults>>
     ELSE LET file == ProgFile(op.dir, op.i, op.k, "own") IN
          /\ \/ /\ Unlinked(file)
                /\ IF op.k + 1 < Instances[op.i] THEN OpAt("unpin_prog", op.i, op.k + 1)
                   ELSE OpAt("unpin_prog", ProgramBefore, 0)
             \/ NotUnlinked(file) /\ OpAt("unpin_prog", ProgramBefore, 0)
          /\ UNCHANGED op_ret
  /\ UNCHANGED <<op_map, op_before, op_calls>>

\* bpf_object__unpin_programs, which stops at the first error; one more may come of
\* the directory of a program with instances.
UnpinInstance ==
  /\ op.pc = "unprog"
  /\ LET p == op.i
         file == ProgFile(op.dir, p, op.k, "own")
     IN \/ /\ Unlinked(file)
           /\ IF op.k + 1 < Instances[p] THEN OpAt("unprog", p, op.k + 1) /\ UNCHANGED op_ret
              ELSE IF p < Len(Instances) THEN OpAt("unprog", p + 1, 0) /\ UNCHANGED op_ret
              ELSE OpReturn("0")
        \/ NotUnlinked(file) /\ OpReturn("error")
        \/ /\ Instances[p] > 1 /\ op.k + 1 = Instances[p] /\ Taken(file) /\ OpFails \* rmdir
           /\ op_files' = Without(file) /\ UNCHANGED op_stuck /\ OpReturn("error")
  /\ UNCHANGED <<op_map, op_before, op_calls>>

PinCalls == {"pin", "pin_maps", "pin_programs"}

OpNext ==
  \/ \E c \in PinCalls \cup {"unpin_maps", "unpin_programs"}, d \in PinDirs \cup {"none"} : BeginPin(c, d)
  \/ PinOneMap \/ RollBackMap \/ UnpinOneMap \/ PinInstance \/ RollBackInstance
  \/ RollBackProgram \/ UnpinInstance
  \/ \E d \in PinDirs : \/ \E m \in 1 .. PinMaps : OtherFile(MapFile(d, m, "other"))
                        \/ \E p \in Progs : OtherFile(ProgFile(d, p, Instances[p] - 1, "other"))

OpSpec == OpInit /\ [][OpNext]_opVars

-----------------------------------------------------------------------------
(* Properties.                                                             *)

\* A file that a failed call leaves: it could not be unlinked, or bpf_object__unpin_maps or
\* bpf_program__unpin had stopped before it, at one that could not.
NotUndone(f) ==
  \E g \in op_stuck :
    /\ g[1] = f[1] /\ g[2] = f[2]
    /\ \/ f = g
       \/ f[2] = "map" /\ op.call = "pin" /\ g[3] < f[3]
       \/ f[2] = "prog" /\ g[3] = f[3] /\ g[4] < f[4]

\* A call that pins and fails in the middle leaves no new file behind but what it could not unlink,
\* and what the loop stopped by that did not come to.  Nor does it remove any file, except the pins of
\* maps that were pinned before the call: what it did not pin itself it unpins all the same.
FailedPinLeavesNothing ==
  op.pc = "idle" /\ op.call \in PinCalls /\ op_ret = "error" =>
    /\ \A f \in op_files \ op_before.files : NotUndone(f)
    /\ \A f \in op_before.files \ op_files :
         f[2] = "map" /\ op_before.map[f[3]] = [dir |-> f[1], pinned |-> TRUE]

\* Pinning never removes what another process pinned, also where its name is taken.
OthersStayPinned ==
  op.call \in PinCalls => \A f \in op_before.files : f[5] = "other" => f \in op_files

\* map->pinned is true to the file system: a map that counts as pinned, and will
\* not be pinned again, has its file.
PinnedIsThere == \A m \in 1 .. PinMaps : op_map[m].pinned => MapFile(op_map[m].dir, m, "own") \in op_files

\* The calls that pin and unpin keep the object and the file system in step, and undo what they
\* began.
PinsAreKept == FailedPinLeavesNothing /\ OthersStayPinned /\ PinnedIsThere
=============================================================================
