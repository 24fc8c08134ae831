----------------------------- MODULE ObjectLoad -----------------------------
(***************************************************************************)
(* bpf_object__load: an open object's maps are created, or taken over from *)
(* where they are pinned, its instructions are given the maps' descriptors *)
(* and the functions of .text, and its programs go to the kernel.  Any     *)
(* step may fail, and another process may pin a map at the same time.      *)
(***************************************************************************)
EXTENDS Integers, Sequences, FiniteSets

CONSTANTS
  ObjMaps,      \* the maps: [internal, pin], whether one has data and a pin_path
  ObjPrograms,  \* sets of programs: sequences of sections with instructions
  MaxLoadFaults \* bound: failures

\* An instruction is [op, arg]: "ld" of the map number arg, "call" of the function
\* at arg in .text, or "exit".
Insns == [op : {"ld", "call", "exit"}, arg : Nat]

\* What the compiler emits: .text comes first, a load names a map, and a call a
\* function that is in .text, if there is one.
AsCompiled(progs) ==
  /\ progs \in Seq([sec : STRING, insns : Seq(Insns)]) /\ progs # <<>>
  /\ \A p \in DOMAIN progs :
       /\ progs[p].sec = ".text" => p = 1
       /\ \A k \in DOMAIN progs[p].insns :
            LET insn == progs[p].insns[k]
            IN /\ insn.op = "ld" => insn.arg \in DOMAIN ObjMaps
               /\ insn.op = "call" /\ progs[1].sec = ".text" => insn.arg < Len(progs[1].insns)

\* Only a definition in .maps asks to be pinned; the maps of .data, .rodata and .bss
\* have none.
ASSUME ObjectLoadAssumption ==
  /\ ObjMaps \in Seq([internal : {"none", "data", "bss", "rodata"}, pin : BOOLEAN])
  /\ \A m \in DOMAIN ObjMaps : ObjMaps[m].pin => ObjMaps[m].internal = "none"
  /\ \A progs \in ObjPrograms : AsCompiled(progs)
  /\ MaxLoadFaults \in Nat

VARIABLES
  ol_progs, \* the programs of this object
  ol,       \* where it is: a label and an index
  ol_loaded, \* obj->loaded
  ol_ret,   \* what bpf_object__load returned
  ol_map,   \* map -> [fd, id, pinned, reused, filled, frozen]
  ol_insns, \* program -> its instructions with their immediate values
  ol_pins,  \* map -> id of the map pinned at its path, 0 for none
  ol_open,  \* the open descriptors: <<kind, number>>
  ol_kernel, \* program -> the instructions that the kernel accepted
  ol_before, \* history: the pins of others
  ol_faults

olVars == <<ol_progs, ol, ol_loaded, ol_ret, ol_map, ol_insns, ol_pins, ol_open, ol_kernel,
            ol_before, ol_faults>>
olRest == <<ol_progs, ol_loaded, ol_before>>

MapCount == Len(ObjMaps)
ProgCount == Len(ol_progs)
NewMap == [fd |-> FALSE, id |-> 0, pinned |-> FALSE, reused |-> FALSE, filled |-> FALSE, frozen |-> FALSE]

\* The compiler gives a call the distance from the start of .text, less one.
Compiled(i) == [op |-> i.op, arg |-> i.arg, imm |-> IF i.op = "call" THEN i.arg - 1 ELSE 0]

\* A map that others pinned before has id 100 + its number if it fits the
\* definition of ours and 200 + its number if it does not.
OlInit ==
  /\ ol_progs \in ObjPrograms
  /\ ol = [pc |-> "opened", i |-> 1] /\ ol_loaded = FALSE /\ ol_ret = "none"
  /\ ol_map = [m \in 1 .. MapCount |-> NewMap]
  /\ ol_insns = [p \in 1 .. Len(ol_progs) |-> [k \in DOMAIN ol_progs[p].insns |-> Compiled(ol_progs[p].insns[k])]]
  /\ \E found \in [{m \in 1 .. MapCount : ObjMaps[m].pin} -> {0, 100, 200}] :
       ol_pins = [m \in 1 .. MapCount |->
                    IF m \in DOMAIN found /\ found[m] # 0 THEN found[m] + m ELSE 0]
  /\ ol_open = {} /\ ol_kernel = [p \in 1 .. Len(ol_progs) |-> <<>>]
  /\ ol_before = ol_pins /\ ol_faults = 0

OlFails == ol_faults < MaxLoadFaults /\ ol_faults' = ol_faults + 1
OlSucceeds == UNCHANGED ol_faults
OlGoto(pc, i) == ol' = [pc |-> pc, i |-> i]

\* Another process pins a map of its own where there is none.
OtherPins(m) ==
  /\ ObjMaps[m].pin /\ ol_pins[m] = 0 /\ ol.pc \in {"reuse", "create", "fill", "pin"}
  /\ ol_pins' = [ol_pins EXCEPT ![m] = 100 + m]
  /\ ol_before' = [ol_before EXCEPT ![m] = 100 + m]
  /\ UNCHANGED <<ol_progs, ol, ol_loaded, ol_ret, ol_map, ol_insns, ol_open, ol_kernel, ol_faults>>

-----------------------------------------------------------------------------
(* Maps.                                                                   *)

NextMap(i) == IF i < MapCount THEN OlGoto("reuse", i + 1) ELSE OlGoto("relocate", 1)

\* "object should not be loaded twice", not even after a failure.
bpf_object__load ==
  /\ ol.pc \in {"opened", "done", "unloaded"}
  /\ IF ol_loaded
     THEN ol_ret' = "EINVAL" /\ UNCHANGED <<ol, ol_loaded>>
     ELSE ol_loaded' = TRUE /\ NextMap(0) /\ UNCHANGED ol_ret
  /\ UNCHANGED <<ol_progs, ol_map, ol_insns, ol_pins, ol_open, ol_kernel, ol_before, ol_faults>>

\* The pinned map has the same definition as ours.
map_is_reuse_compat(id) == id <= 200

\* bpf_map__reuse_fd duplicates the descriptor that bpf_obj_get gave.
bpf_map__reuse_fd(i, id) ==
  /\ ol_open' = ol_open \cup {<<"pin", i>>, <<"map", i>>}
  /\ ol_map' = [ol_map EXCEPT ![i] = [@ EXCEPT !.fd = TRUE, !.id = id, !.pinned = TRUE, !.reused = TRUE]]

\* bpf_object__reuse_map: the map pinned at pin_path, if it is compatible.  The
\* descriptor from bpf_obj_get is closed only on an error; a failed dup3 forgets the
\* one it was to replace.
ReuseMap ==
  /\ ol.pc = "reuse"
  /\ LET i == ol.i
         id == ol_pins[i]
     IN IF ~ ObjMaps[i].pin \/ id = 0
        THEN OlSucceeds /\ OlGoto("create", i) /\ UNCHANGED <<ol_map, ol_open>>
        ELSE \/ /\ OlFails \/ (~ map_is_reuse_compat(id) /\ OlSucceeds)
                /\ OlGoto("fail", 1) /\ UNCHANGED <<ol_map, ol_open>>
             \/ /\ map_is_reuse_compat(id) /\ OlFails
                /\ ol_open' = ol_open \cup {<<"lost", i>>}
                /\ OlGoto("fail", 1) /\ UNCHANGED ol_map
             \/ /\ map_is_reuse_compat(id) /\ OlSucceeds
                /\ bpf_map__reuse_fd(i, id)
                /\ NextMap(i)
  /\ UNCHANGED <<olRest, ol_ret, ol_insns, ol_pins, ol_kernel>>

\* err_out of bpf_object__create_maps: what was made so far is closed.
CloseMaps(ms) ==
  /\ ol_map' = [m \in 1 .. MapCount |-> IF m \in ms THEN [ol_map[m] EXCEPT !.fd = FALSE] ELSE ol_map[m]]
  /\ ol_open' = ol_open \ {<<"map", m>> : m \in ms}

\* Created with BTF if there is some, and without it when the kernel refuses.
CreateMap ==
  /\ ol.pc = "create"
  /\ LET i == ol.i
     IN \/ /\ OlSucceeds
           /\ ol_map' = [ol_map EXCEPT ![i] = [@ EXCEPT !.fd = TRUE, !.id = i]]
           /\ ol_open' = ol_open \cup {<<"map", i>>}
           /\ OlGoto("fill", i)
        \/ OlFails /\ CloseMaps(1 .. i - 1) /\ OlGoto("fail", 1)
  /\ UNCHANGED <<olRest, ol_ret, ol_insns, ol_pins, ol_kernel>>

\* bpf_object__populate_internal_map; the kernel zeroes .bss itself, and .rodata is
\* frozen, if the kernel can.
FillMap ==
  /\ ol.pc = "fill"
  /\ LET i == ol.i
     IN \/ /\ OlSucceeds /\ OlGoto("pin", i)
           /\ ol_map' = IF ObjMaps[i].internal \in {"none", "bss"} THEN ol_map
                        ELSE [ol_map EXCEPT ![i] = [@ EXCEPT !.filled = TRUE, !.frozen = (ObjMaps[i].internal = "rodata")]]
           /\ UNCHANGED ol_open
        \/ /\ ObjMaps[i].internal = "rodata" /\ OlFails /\ OlGoto("pin", i)
           /\ ol_map' = [ol_map EXCEPT ![i].filled = TRUE] /\ UNCHANGED ol_open
        \/ /\ ObjMaps[i].internal \in {"data", "rodata"} /\ OlFails
           /\ CloseMaps(1 .. i) /\ OlGoto("fail", 1)
  /\ UNCHANGED <<olRest, ol_ret, ol_insns, ol_pins, ol_kernel>>

\* bpf_map__pin, which fails if something is there by now.
PinMap ==
  /\ ol.pc = "pin"
  /\ LET i == ol.i
     IN IF ~ ObjMaps[i].pin
        THEN OlSucceeds /\ NextMap(i) /\ UNCHANGED <<ol_map, ol_pins>>
        ELSE \/ /\ ol_pins[i] = 0 /\ OlSucceeds
                /\ ol_pins' = [ol_pins EXCEPT ![i] = i]
                /\ ol_map' = [ol_map EXCEPT ![i].pinned = TRUE]
                /\ NextMap(i)
             \/ /\ IF ol_pins[i] = 0 THEN OlFails ELSE OlSucceeds
                /\ OlGoto("fail", 1) /\ UNCHANGED <<ol_map, ol_pins>>
  /\ UNCHANGED <<olRest, ol_ret, ol_insns, ol_open, ol_kernel>>

-----------------------------------------------------------------------------
(* Programs.                                                               *)

Text == {p \in 1 .. ProgCount : ol_progs[p].sec = ".text"}
HasCall(p) == \E k \in DOMAIN ol_progs[p].insns : ol_progs[p].insns[k].op = "call"
has_pseudo_calls == \E p \in 1 .. ProgCount : HasCall(p)

\* A load gets the map's descriptor (here, the map it stands for).
WithMaps(insns) ==
  [k \in DOMAIN insns |-> IF insns[k].op = "ld" THEN [insns[k] EXCEPT !.imm = ol_map[insns[k].arg].id]
                          ELSE insns[k]]

\* insn->imm += prog->main_prog_cnt - relo->insn_idx, where insn_idx counts from 0.
CallTarget(insn, k, main) == insn.imm + main - (k - 1)

\* bpf_program__relocate.  The first call appends .text as it is now; .text comes
\* first, so its own loads are done.
Relocated(p) ==
  LET own == WithMaps(ol_insns[p])
      main == Len(own)
  IN IF HasCall(p)
     THEN [k \in DOMAIN own |-> IF own[k].op = "call" THEN [own[k] EXCEPT !.imm = CallTarget(own[k], k, main)]
                                ELSE own[k]]
          \o ol_insns[CHOOSE t \in Text : TRUE]
     ELSE own

\* bpf_object__relocate_core before the first (module CoreReloc).  A call in .text
\* and a call without .text are refused.
RelocateProgram ==
  /\ ol.pc = "relocate"
  /\ \/ /\ OlSucceeds
        /\ ~ (HasCall(ol.i) /\ (ol.i \in Text \/ Text = {}))
        /\ ol_insns' = [ol_insns EXCEPT ![ol.i] = Relocated(ol.i)]
        /\ IF ol.i < ProgCount THEN OlGoto("relocate", ol.i + 1) ELSE OlGoto("progs", 1)
     \/ /\ IF HasCall(ol.i) /\ (ol.i \in Text \/ Text = {}) THEN OlSucceeds ELSE OlFails
        /\ OlGoto("fail", 1)
        /\ UNCHANGED ol_insns
  /\ UNCHANGED <<olRest, ol_ret, ol_map, ol_pins, ol_open, ol_kernel>>

NextProgram(p) == IF p < ProgCount THEN OlGoto("progs", p + 1) ELSE OlGoto("done", 1)

\* bpf_program__load, which frees the instructions in any case; .text is skipped if
\* it is called.  A verifier's log that does not fit is tried again with more room;
\* a refused program is tried as a kprobe, only to name the error.
LoadProgram ==
  /\ ol.pc = "progs"
  /\ LET p == ol.i
     IN \/ /\ p \in Text /\ has_pseudo_calls
           /\ OlSucceeds /\ NextProgram(p) /\ UNCHANGED <<ol_insns, ol_kernel, ol_open>>
        \/ /\ ~ (p \in Text /\ has_pseudo_calls)
           /\ OlSucceeds /\ NextProgram(p)
           /\ ol_kernel' = [ol_kernel EXCEPT ![p] = ol_insns[p]]
           /\ ol_open' = ol_open \cup {<<"prog", p>>}
           /\ ol_insns' = [ol_insns EXCEPT ![p] = <<>>]
        \/ /\ ~ (p \in Text /\ has_pseudo_calls)
           /\ OlFails /\ OlGoto("fail", 1)
           /\ ol_insns' = [ol_insns EXCEPT ![p] = <<>>]
           /\ UNCHANGED <<ol_kernel, ol_open>>
  /\ ol_ret' = IF ol'.pc = "done" THEN "0" ELSE ol_ret
  /\ UNCHANGED <<olRest, ol_map, ol_pins>>

-----------------------------------------------------------------------------
(* The way out.                                                            *)

\* bpf_object__unload.
Unloaded == ol_open \ ({<<"map", m>> : m \in 1 .. MapCount} \cup {<<"prog", p>> : p \in 1 .. ProgCount})
MapsClosed == [m \in 1 .. MapCount |-> [ol_map[m] EXCEPT !.fd = FALSE]]

ToUnpin_All(m) == ol_map[m].pinned

\* "unpin any maps that were auto-pinned during load"
ToUnpin(m) == ol_map[m].pinned /\ ~ ol_map[m].reused

LoadFails ==
  /\ ol.pc = "fail"
  /\ ol_pins' = [m \in 1 .. MapCount |-> IF ToUnpin(m) THEN 0 ELSE ol_pins[m]]
  /\ ol_map' = [m \in 1 .. MapCount |-> IF ToUnpin(m) THEN [MapsClosed[m] EXCEPT !.pinned = FALSE] ELSE MapsClosed[m]]
  /\ ol_open' = Unloaded
  /\ ol_ret' = "error"
  /\ OlGoto("unloaded", 1)
  /\ UNCHANGED <<olRest, ol_insns, ol_kernel, ol_faults>>

bpf_object__unload ==
  /\ ol.pc = "done"
  /\ ol_open' = Unloaded
  /\ ol_map' = MapsClosed
  /\ OlGoto("unloaded", 1)
  /\ UNCHANGED <<olRest, ol_ret, ol_insns, ol_pins, ol_kernel, ol_faults>>

OlNext ==
  \/ bpf_object__load \/ ReuseMap \/ CreateMap \/ FillMap \/ PinMap \/ RelocateProgram
  \/ LoadProgram \/ LoadFails \/ bpf_object__unload
  \/ \E m \in 1 .. MapCount : OtherPins(m)

OlSpec == OlInit /\ [][OlNext]_olVars

-----------------------------------------------------------------------------
(* Properties.                                                             *)

\* The code that an instruction of a loaded program reaches, as the source meant it:
\* a load refers to the map it names, with its data in it, and a call goes to the first instruction of
\* the function it names in the copy of .text behind the program.
Resolved(p, code) ==
  LET own == Len(ol_progs[p].insns)
  IN \A k \in DOMAIN code :
       /\ code[k].op = "ld" =>
            /\ code[k].imm = ol_map[code[k].arg].id /\ code[k].imm # 0
            /\ ObjMaps[code[k].arg].internal \in {"data", "rodata"} => ol_map[code[k].arg].filled
       /\ code[k].op = "call" =>
            LET target == (k - 1) + code[k].imm + 1
                text == ol_progs[CHOOSE t \in Text : TRUE].insns
            IN /\ target + 1 \in DOMAIN code
               /\ target = own + code[k].arg
               /\ code[target + 1].arg = text[code[k].arg + 1].arg

\* Every program that the kernel accepts has all its references resolved, also
\* those of the functions it calls.
LoadedIsResolved ==
  \A p \in 1 .. ProgCount : ol_kernel[p] # <<>> => Resolved(p, ol_kernel[p])

\* After a load that fails at whatever step, the pins are those that others made:
\* the maps that this load pinned are unpinned, the ones it took over are not.
FailedLoadLeavesPins == ol_ret = "error" => ol_pins = ol_before

\* After a load that fails, or bpf_object__unload, no map or program of the object
\* is open.  What stays open is one descriptor for every map taken over from a pin
\* (bpf_object__reuse_map never closes it), or the one that a failed dup3 forgets.
UnloadClosesAll ==
  ol.pc = "unloaded" =>
    \A d \in ol_open : \/ d[1] = "pin" /\ ol_map[d[2]].reused
                       \/ d[1] = "lost" /\ ~ ol_map[d[2]].reused

\* While programs are loaded their maps are those of the pins: two processes that
\* load the same object at the same time do not end up with programs that count in
\* a map that nobody can find, one of them fails instead.
PinnedMapsAreUsed ==
  ol.pc = "done" => \A m \in 1 .. MapCount : ObjMaps[m].pin => ol_pins[m] = ol_map[m].id

\* bpf_object__load leaves either programs that can run or the system as it was.
LoadsWholeOrNot == LoadedIsResolved /\ FailedLoadLeavesPins /\ UnloadClosesAll /\ PinnedMapsAreUsed
=============================================================================
