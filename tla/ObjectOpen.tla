----------------------------- MODULE ObjectOpen -----------------------------
(***************************************************************************)
(* __bpf_object__open: from an object file to a struct bpf_object whose    *)
(* maps and relocations are known and nothing of which is in the kernel    *)
(* yet.  How a map's definition is read is in module MapDefs.              *)
(*                                                                         *)
(* A file is a list of sections; the one program, in section "xdp", has    *)
(* one relocation.  Any allocation and any call of libelf may fail.        *)
(***************************************************************************)
EXTENDS Integers, Sequences, Functions, FiniteSets

CONSTANTS
  SectionLists, \* the sections of a file, in its order
  Relocations,  \* what the program's relocation may refer to
  MaxOpenFaults \* bound: failures

\* No section is twice in a file; an instruction is a call, a load of 64 bits or another.
ASSUME ObjectOpenAssumption ==
  /\ \A list \in SectionLists : list \in Seq(STRING) /\ IsInjective(list)
  /\ \A relo \in Relocations : relo.insn \in {"call", "ld64", "other"}
  /\ MaxOpenFaults \in Nat

VARIABLES
  oo_file, \* its sections, the relocation, and whether the BTF is sound
  oo,      \* where it is: a label and the index of the section
  oo_caps, \* obj->caps, as probed
  oo_shndx, \* obj->efile: name of a section -> its index
  oo_progs, \* obj->programs: the index of the section of each
  oo_maps,  \* obj->maps: the kind, section and offset of each
  oo_relo,  \* the program's reloc_desc
  oo_held,  \* what is allocated or open (under the name of a section: its copy)
  oo_faults

ooVars == <<oo_file, oo, oo_caps, oo_shndx, oo_progs, oo_maps, oo_relo, oo_held, oo_faults>>

\* The index of a section, and of the section of a symbol that is not defined.
SectionIndex(file, s) ==
  IF s \in Range(file.sections) THEN CHOOSE n \in DOMAIN file.sections : file.sections[n] = s ELSE 0

\* bpf_object__new sets the indices to -1, except that of .text.
NoSection == [s \in {"maps", ".maps", ".data", ".rodata", ".bss", ".text"} |->
                IF s = ".text" THEN 0 ELSE -1]

OoStart ==
  /\ oo = [pc |-> "new", i |-> 1]
  /\ oo_caps = {} /\ oo_shndx = NoSection /\ oo_progs = <<>> /\ oo_maps = <<>>
  /\ oo_relo = [type |-> "none", map |-> 0]
  /\ oo_held = {} /\ oo_faults = 0

OoInit ==
  /\ oo_file \in [sections : SectionLists, relo : Relocations, sound : BOOLEAN]
  /\ oo_file.relo.sec \in Range(oo_file.sections) \cup {"UNDEF"}
  /\ ".BTF" \notin Range(oo_file.sections) => oo_file.sound
  /\ OoStart

OoGoto(pc) == oo' = [oo EXCEPT !.pc = pc]
OoFails == oo_faults < MaxOpenFaults /\ oo_faults' = oo_faults + 1
OoSucceeds == UNCHANGED oo_faults
OoHolds(what) == oo_held' = oo_held \cup what
OoHas(s) == oo_shndx[s] >= 0
InFile(s) == s \in Range(oo_file.sections)

-----------------------------------------------------------------------------
(* The file itself.                                                        *)

bpf_object__new ==
  /\ oo.pc = "new"
  /\ \/ OoSucceeds /\ OoHolds({"obj"}) /\ OoGoto("elf_init")
     \/ OoFails /\ OoGoto("failed") /\ UNCHANGED oo_held
  /\ UNCHANGED <<oo_file, oo_caps, oo_shndx, oo_progs, oo_maps, oo_relo>>

\* bpf_object__elf_finish does nothing if there is no Elf.
ElfFinished == IF "elf" \in oo_held THEN oo_held \ {"elf", "fd", "reloc"} ELSE oo_held

\* open, elf_begin, and the check of the header.
bpf_object__elf_init ==
  /\ oo.pc = "elf_init"
  /\ \/ OoSucceeds /\ OoHolds({"fd", "elf"}) /\ OoGoto("endian")
     \/ OoFails /\ UNCHANGED oo_held /\ OoGoto("close")
     \/ OoFails /\ OoHolds({"fd"}) /\ OoGoto("close")
  /\ UNCHANGED <<oo_file, oo_caps, oo_shndx, oo_progs, oo_maps, oo_relo>>

bpf_object__check_endianness ==
  /\ oo.pc = "endian"
  /\ \/ OoSucceeds /\ OoGoto("caps")
     \/ OoFails /\ OoGoto("close")
  /\ UNCHANGED <<oo_file, oo_caps, oo_shndx, oo_progs, oo_maps, oo_relo, oo_held>>

\* A probe that fails only means that the kernel cannot do it.
bpf_object__probe_caps ==
  /\ oo.pc = "caps"
  /\ oo_caps' \in {{"name", "btf_func", "btf_datasec"} \cup g : g \in {{}, {"global_data"}}}
                  \cup {{"name"}, {"name", "global_data"}}
  /\ OoGoto("collect")
  /\ UNCHANGED <<oo_file, oo_shndx, oo_progs, oo_maps, oo_relo, oo_held, oo_faults>>

\* A program is known by the index of its section.
bpf_object__add_program == Append(oo_progs, oo.i)

\* bpf_object__elf_collect, section by section.
ThisSection == oo_file.sections[oo.i]
CollectSection ==
  /\ oo.pc = "collect" /\ oo.i <= Len(oo_file.sections)
  /\ \/ /\ OoSucceeds
        /\ oo' = [oo EXCEPT !.i = @ + 1]
        /\ oo_shndx' = IF ThisSection \in DOMAIN oo_shndx THEN [oo_shndx EXCEPT ![ThisSection] = oo.i] ELSE oo_shndx
        /\ oo_progs' = IF ThisSection \in {".text", "xdp"} THEN bpf_object__add_program ELSE oo_progs
        /\ OoHolds(CASE ThisSection = ".relxdp" -> {"reloc"}
                   [] ThisSection \in {".text", "xdp"} -> {"programs", ThisSection}
                   [] OTHER -> {})
     \/ OoFails /\ OoGoto("close") /\ UNCHANGED <<oo_shndx, oo_progs, oo_held>>
  /\ UNCHANGED <<oo_file, oo_caps, oo_maps, oo_relo>>

EndCollect ==
  /\ oo.pc = "collect" /\ oo.i = Len(oo_file.sections) + 1
  /\ OoGoto("btf")
  /\ UNCHANGED <<oo_file, oo_caps, oo_shndx, oo_progs, oo_maps, oo_relo, oo_held, oo_faults>>

-----------------------------------------------------------------------------
(* BTF and maps.                                                           *)

bpf_object__is_btf_mandatory == OoHas(".maps")

\* BTF that is missing or broken is an error only for a file with BTF maps; a
\* broken .BTF.ext is ignored.
bpf_object__init_btf ==
  /\ oo.pc = "btf"
  /\ \/ /\ InFile(".BTF") /\ oo_file.sound
        /\ OoGoto("maps")
        /\ \/ OoSucceeds /\ OoHolds({"btf"} \cup (IF InFile(".BTF.ext") THEN {"btf_ext"} ELSE {}))
           \/ OoFails /\ InFile(".BTF.ext") /\ OoHolds({"btf"})
     \/ /\ IF InFile(".BTF") /\ oo_file.sound THEN OoFails ELSE OoSucceeds
        /\ OoGoto(IF bpf_object__is_btf_mandatory THEN "close" ELSE "maps")
        /\ UNCHANGED oo_held
  /\ UNCHANGED <<oo_file, oo_caps, oo_shndx, oo_progs, oo_maps, oo_relo>>

MapAt(type, sec, off) == [type |-> type, sec_idx |-> oo_shndx[sec], sec_offset |-> off]

\* The maps that a section holds; two symbols point into "maps", two variables
\* are in ".maps".
MapsIn(s) ==
  CASE ~ OoHas(s) -> {}
    [] OoHas(s) /\ s \in {"maps", ".maps"} -> {MapAt("UNSPEC", s, 0), MapAt("UNSPEC", s, 20)}
    [] OTHER -> IF "global_data" \in oo_caps THEN {MapAt(s, s, 0)} ELSE {}
MapsFound == UNION {MapsIn(s) : s \in {"maps", ".maps", ".data", ".rodata", ".bss"}}

compare_bpf_map(a, b) ==
  IF a.sec_idx # b.sec_idx THEN a.sec_idx < b.sec_idx ELSE a.sec_offset < b.sec_offset

\* qsort: as many maps are before one as come before it.
Sorted(maps) ==
  [n \in 1 .. Cardinality(maps) |->
     CHOOSE m \in maps : Cardinality({k \in maps : compare_bpf_map(k, m)}) = n - 1]

\* bpf_object__init_maps: the maps of both kinds, those for global data, and the
\* sort at the end.  What was allocated before a failure is in obj->maps.
bpf_object__init_maps ==
  /\ oo.pc = "maps"
  /\ \/ /\ OoSucceeds
        /\ oo_maps' = Sorted(MapsFound)
        /\ OoGoto("load_btf")
     \/ /\ OoFails
        /\ UNCHANGED oo_maps
        /\ OoGoto("close")
  /\ OoHolds({"maps"} \cup {s \in {".data", ".rodata"} : OoHas(s) /\ "global_data" \in oo_caps})
  /\ UNCHANGED <<oo_file, oo_caps, oo_shndx, oo_progs, oo_relo>>

\* bpf_object__sanitize_and_load_btf: without BTF_KIND_FUNC there is no use for
\* .BTF.ext, and what the kernel refuses is dropped together with .BTF.ext.
sanitize_and_load_btf ==
  /\ oo.pc = "load_btf"
  /\ \/ /\ OoSucceeds
        /\ oo_held' = IF "btf" \in oo_held /\ "btf_func" \notin oo_caps THEN oo_held \ {"btf_ext"} ELSE oo_held
        /\ OoGoto("names")
     \/ /\ "btf" \in oo_held /\ OoFails
        /\ oo_held' = oo_held \ {"btf", "btf_ext"}
        /\ OoGoto(IF bpf_object__is_btf_mandatory THEN "close" ELSE "names")
  /\ UNCHANGED <<oo_file, oo_caps, oo_shndx, oo_progs, oo_maps, oo_relo>>

bpf_object__init_prog_names ==
  /\ oo.pc = "names"
  /\ \/ OoSucceeds /\ OoGoto("relocs")
     \/ OoFails /\ OoGoto("close")
  /\ UNCHANGED <<oo_file, oo_caps, oo_shndx, oo_progs, oo_maps, oo_relo, oo_held>>

-----------------------------------------------------------------------------
(* Relocations.                                                            *)

shdr_idx == SectionIndex(oo_file, oo_file.relo.sec)
IsData == \E s \in {".data", ".rodata", ".bss"} : oo_shndx[s] = shdr_idx
IsMaps == \E s \in {"maps", ".maps"} : oo_shndx[s] = shdr_idx
relo_in_known_section == shdr_idx = oo_shndx[".text"] \/ IsMaps \/ IsData

map_type == IF IsData THEN CHOOSE s \in {".data", ".rodata", ".bss"} : oo_shndx[s] = shdr_idx ELSE "UNSPEC"

MatchingMap_ByOffset(m) ==
  m.type = map_type /\ (map_type # "UNSPEC" \/ m.sec_offset = oo_file.relo.off)

\* The map that a symbol stands for.
MatchingMap(m) ==
  /\ m.type = map_type
  /\ map_type # "UNSPEC" \/ (m.sec_idx = shdr_idx /\ m.sec_offset = oo_file.relo.off)

map_idx == CHOOSE n \in DOMAIN oo_maps :
             MatchingMap(oo_maps[n]) /\ \A k \in 1 .. n - 1 : ~ MatchingMap(oo_maps[k])

\* bpf_program__collect_reloc for the one relocation: reloc_desc is malloc'ed, and
\* an entry that nothing is assigned to keeps what is there.
collect_reloc ==
  LET relo == oo_file.relo
      error == [type |-> "error", map |-> 0]
  IN CASE ~ relo_in_known_section -> error
       [] relo_in_known_section /\ relo.insn = "call" -> [type |-> "CALL", map |-> 0]
       [] relo_in_known_section /\ relo.insn = "other" -> error
       [] relo_in_known_section /\ relo.insn = "ld64" /\ (IsMaps \/ IsData) ->
            IF \/ IsData /\ (relo.bind = "GLOBAL" \/ "global_data" \notin oo_caps)
               \/ ~ \E n \in DOMAIN oo_maps : MatchingMap(oo_maps[n])
            THEN error
            ELSE [type |-> IF IsData THEN "DATA" ELSE "LD64", map |-> map_idx]
       [] OTHER -> [type |-> "unset", map |-> 0]

bpf_object__collect_reloc ==
  /\ oo.pc = "relocs"
  /\ \/ /\ OoSucceeds
        /\ OoHolds({"reloc_desc"})
        /\ oo_relo' = collect_reloc
        /\ OoGoto(IF collect_reloc.type = "error" THEN "close" ELSE "finish")
     \/ OoFails /\ OoGoto("close") /\ UNCHANGED <<oo_relo, oo_held>>
  /\ UNCHANGED <<oo_file, oo_caps, oo_shndx, oo_progs, oo_maps>>

-----------------------------------------------------------------------------
(* The end.                                                                *)

\* The types of the programs are guessed from their sections; a program of type
\* tracing needs the kernel's BTF.
FinishOpen ==
  /\ oo.pc = "finish"
  /\ oo_held' = ElfFinished
  /\ \/ OoSucceeds /\ OoGoto("opened")
     \/ OoFails /\ OoGoto("close")
  /\ UNCHANGED <<oo_file, oo_caps, oo_shndx, oo_progs, oo_maps, oo_relo>>

\* What bpf_program__exit frees, for all programs: their relocations and their copies
\* of their sections.
bpf_program__exit == {"reloc_desc"} \cup {oo_file.sections[n] : n \in Range(oo_progs)}

\* What bpf_object__close leaves.
ClosedOf ==
  ElfFinished \ ({"obj", "btf", "btf_ext", "maps", ".data", ".rodata", "programs"} \cup bpf_program__exit)

\* On an error, and when the user is done with the object.
bpf_object__close ==
  /\ oo.pc \in {"close", "opened"}
  /\ oo_held' = ClosedOf
  /\ OoGoto(IF oo.pc = "close" THEN "failed" ELSE "closed")
  /\ UNCHANGED <<oo_file, oo_caps, oo_shndx, oo_progs, oo_maps, oo_relo, oo_faults>>

OoNext ==
  \/ bpf_object__new \/ bpf_object__elf_init \/ bpf_object__check_endianness
  \/ bpf_object__probe_caps \/ CollectSection \/ EndCollect \/ bpf_object__init_btf
  \/ bpf_object__init_maps \/ sanitize_and_load_btf \/ bpf_object__init_prog_names
  \/ bpf_object__collect_reloc \/ FinishOpen \/ bpf_object__close

OoSpec == OoInit /\ [][OoNext]_ooVars

-----------------------------------------------------------------------------
(* Properties.                                                             *)

\* Nothing of an object stays allocated or open, whether opening it failed at some
\* step or it was closed.  The one exception is a file that libelf does not begin
\* to read: bpf_object__elf_finish sees no Elf and leaves the descriptor open.
OpenLeavesNothing ==
  oo.pc \in {"failed", "closed"} => oo_held = {} \/ (oo_held = {"fd"} /\ oo_shndx = NoSection)

\* A relocation against a map, once an object is open, names the map that its
\* symbol stands for, although the maps come from sections of both kinds, whose
\* offsets overlap, and were sorted since they were found.
RelocsPointHome ==
  oo.pc = "opened" /\ oo_relo.type \in {"LD64", "DATA"} =>
    LET m == oo_maps[oo_relo.map]
    IN /\ oo_file.sections[m.sec_idx] = oo_file.relo.sec
       /\ oo_relo.type = "LD64" => m.sec_offset = oo_file.relo.off

\* The only relocation that an open object can carry without a description is the
\* load of an address in .text, or of an undefined symbol when there is no .text
\* (whose index is then 0, that of undefined symbols): every other one that libbpf
\* cannot handle is refused.
RelocsAreDescribed ==
  oo.pc = "opened" /\ oo_relo.type = "unset" =>
    oo_file.relo.sec = ".text" \/ (oo_file.relo.sec = "UNDEF" /\ ~ InFile(".text"))

\* "btf_ext can't exist without btf": what reads .BTF.ext may rely on it.
ExtNeedsBtf == "btf_ext" \in oo_held => "btf" \in oo_held

\* __bpf_object__open leaves either an object whose parts fit together or nothing at all.
OpensWholeOrNot == OpenLeavesNothing /\ RelocsPointHome /\ RelocsAreDescribed /\ ExtNeedsBtf
=============================================================================
