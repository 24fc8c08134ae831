------------------------------- MODULE MC_Libbpf ------------------------------
(* Instances for TLC of the parts of libbpf.  They share no state here: each *)
(* behaviour is one of one part, named by which, while the others stay as    *)
(* they are.                                                                 *)
EXTENDS Hashmap, Netlink, MapDefs, ObjectOpen, ObjectLoad, ProgLoad, ObjectPin, XskRing,
        XskSocket, BtfRead, BtfExt, BtfStrings, BtfDedup, BtfDump, CoreReloc, Links, ProgInfo

VARIABLE which

libVars ==
  <<which, hashVars, nlVars, mdVars, ooVars, olVars, plVars, opVars, xrVars, xsVars, btVars,
    beVars, bsVars, ddVars, bdVars, crVars, lkVars, piVars>>

-----------------------------------------------------------------------------
(* Inputs.                                                                 *)

\* Two keys that share a bucket at first and not after the table has grown.
TwoKeys == [a |-> 0, b |-> 1]

TwoInterfaces == <<2, 3>>

Field(name, values) == {[name |-> name, value |-> v] : v \in values}
SomeFields ==
  Field("type", {1, 0}) \cup Field("key_size", {0, 4, -1}) \cup Field("key", {4, 8})
    \cup Field("value", {4}) \cup Field("value_size", {4, 8}) \cup Field("pinning", {0, 1, 2})
    \cup Field("other", {0}) \cup Field("max_entries", {1})

\* Files with sections in the order of LLVM, some of which are always there, and one
\* with another order.
SectionOrder ==
  <<".text", "xdp", ".relxdp", "maps", ".maps", "license", "version", ".data", ".rodata", ".bss",
    ".BTF", ".BTF.ext", ".symtab">>
FileWith(optional) ==
  SelectSeq(SectionOrder, LAMBDA s : s \in {"xdp", ".relxdp", "license", ".symtab"} \cup optional)
SomeSectionLists ==
  {FileWith(optional) : optional \in SUBSET {".text", "maps", ".maps", ".data", ".BTF", ".BTF.ext"}}
    \cup {<<".maps", ".bss", ".relxdp", "xdp", "maps", ".BTF", ".text">>}

\* A relocation by the section and place of its symbol, its binding and the instruction.
Relo(sec, off, bind, insn) == [sec |-> sec, off |-> off, bind |-> bind, insn |-> insn]
SomeRelocations ==
  {Relo("maps", 20, "GLOBAL", "ld64"), Relo(".maps", 0, "GLOBAL", "ld64"),
   Relo(".data", 0, "LOCAL", "ld64"), Relo(".data", 0, "GLOBAL", "ld64"),
   Relo(".text", 0, "LOCAL", "call"), Relo(".text", 0, "LOCAL", "ld64"),
   Relo("UNDEF", 0, "GLOBAL", "ld64"), Relo("UNDEF", 0, "GLOBAL", "call"),
   Relo("license", 0, "GLOBAL", "ld64"), Relo("maps", 0, "GLOBAL", "other")}

\* Functions in .text, and programs that call them and use maps.
Insn(code, arg) == [op |-> code, arg |-> arg]
TextSec == [sec |-> ".text", insns |-> <<Insn("exit", 7), Insn("ld", 2), Insn("exit", 8)>>]
Xdp == [sec |-> "xdp", insns |-> <<Insn("ld", 1), Insn("call", 0), Insn("call", 1), Insn("exit", 0)>>]
Tc == [sec |-> "tc", insns |-> <<Insn("exit", 1), Insn("ld", 1), Insn("exit", 0)>>]
SomePrograms == {<<TextSec, Xdp, Tc>>, <<TextSec, Tc>>, <<Xdp>>}
ThreeMaps == <<[internal |-> "none", pin |-> TRUE], [internal |-> "rodata", pin |-> FALSE],
               [internal |-> "none", pin |-> TRUE]>>

TwoAndOne == <<2, 1>>

\* Type sections to read: all of up to two of these descriptors, and three with an int first.
Desc(kind, name, type, n, vlen) ==
  [kind |-> kind, name |-> name, type |-> type, n |-> n, vlen |-> vlen]
SomeDescs ==
  {Desc("int", "a", 0, 4, 0), Desc("typedef", "b", 1, 0, 0), Desc("const", "", 3, 0, 0),
   Desc("array", "", 1, 3, 0), Desc("array", "", 2, 0, 0), Desc("array", "", 3, 9, 0),
   Desc("ptr", "", 0, 0, 0), Desc("struct", "a", 0, 5, 1), Desc("fwd", "f", 0, 0, 0), Desc("other", "", 0, 0, 0)}
SomeSections ==
  {s \in UNION {[1 .. n -> SomeDescs] : n \in 1 .. 3} : Len(s) = 3 => s[1].kind = "int"}

\* Parts of .BTF.ext: info sections, and a length that is right or off by some.
Info(sec, offs) == [sec |-> sec, offs |-> offs]
InfoLists ==
  {<<>>, <<Info("main", <<0, 2>>)>>, <<Info(".text", <<0, 1>>)>>,
   <<Info("main", <<0, 1>>), Info(".text", <<0>>)>>,
   <<Info(".text", <<0>>), Info("main", <<0>>)>>, <<Info("main", <<>>), Info(".text", <<0>>)>>,
   <<Info("other", <<0, 1>>), Info("main", <<0>>), Info(".text", <<0, 1>>)>>}
InfoLen(secs, r) == FoldLeft(LAMBDA n, s : n + 2 + r * Len(s.offs), 1, secs)
SomeParts ==
  {[len |-> InfoLen(secs, r) + d, rec_size |-> r, secs |-> secs] :
     secs \in InfoLists, r \in {1, 2}, d \in {-1, 0, 1}}
  \cup {[len |-> 0, rec_size |-> r, secs |-> secs] : secs \in InfoLists, r \in {1, 2}}

SomeStrings == {<<0>> \o s : s \in UNION {[1 .. n -> 0 .. 2] : n \in 0 .. 3}}

-----------------------------------------------------------------------------
(* Compilation units to deduplicate: each knows some of the structs S, A   *)
(* and B in full and others by a forward declaration.                      *)

Ty(kind, name, extra, names, refs) ==
  [kind |-> kind, name |-> name, extra |-> extra, names |-> names, refs |-> refs]
IntT(name) == Ty("int", name, "4", <<>>, <<>>)
Ptr(r) == Ty("ptr", "", "", <<>>, <<r>>)
Fwd(name) == Ty("fwd", name, "struct", <<>>, <<>>)
Struct(name, names, refs) == Ty("struct", name, "", names, refs)

ShiftRef(r, n) == IF r = 0 THEN 0 ELSE r + n
Join(a, b) ==
  a \o [k \in DOMAIN b |->
          [b[k] EXCEPT !.refs = [j \in DOMAIN @ |-> ShiftRef(@[j], Len(a))]]]

Cu1 == <<IntT("int"), Fwd("B"), Struct("S", <<"a", "b">>, <<4, 5>>), Ptr(6), Ptr(2),
         Struct("A", <<"a", "self", "parent">>, <<1, 4, 7>>), Ptr(3)>>
Cu2 == <<IntT("int"), Fwd("A"), Struct("S", <<"a", "b">>, <<5, 4>>), Ptr(6), Ptr(2),
         Struct("B", <<"b", "self", "parent">>, <<1, 4, 7>>), Ptr(3)>>
Cu3 == <<IntT("long"), Struct("A", <<"a", "self", "parent">>, <<1, 3, 5>>), Ptr(2),
         Struct("S", <<"a", "b">>, <<3, 7>>), Ptr(4), Fwd("B"), Ptr(6)>>
Enums == <<Ty("enum", "E", "4", <<>>, <<>>), Ty("enum", "E", "4", <<"X">>, <<>>),
           Ty("typedef", "e", "", <<>>, <<1>>), Ty("const", "", "", <<>>, <<3>>),
           Ty("array", "", "2", <<>>, <<4, 6>>), IntT("int")>>
Funcs == <<IntT("int"), Ty("func_proto", "", "", <<"x">>, <<0, 1>>), Ty("func", "f", "", <<>>, <<2>>),
           Ty("var", "v", "", <<>>, <<1>>), Ty("datasec", ".data", "", <<"v">>, <<4>>),
           Ty("enum", "E", "4", <<"Y">>, <<>>)>>
Loop == <<Ty("typedef", "t", "", <<>>, <<2>>), Ptr(1)>>
Fwds == <<Fwd("A"), Ptr(1), Ty("typedef", "pa", "", <<>>, <<2>>), Fwd("A")>>

SomeBtfs ==
  {Join(a, b) : a \in {Cu1, Cu2, Cu3}, b \in {Cu1, Cu2, Cu3, Fwds}}
  \cup {Join(a, b) : a \in {Enums, Funcs}, b \in {Enums, Funcs}}
  \cup {Join(Fwds, Cu1), Loop, Join(Join(Cu1, Cu2), Cu3), Join(Join(Cu2, Cu3), Cu1),
        Join(Join(Cu1, Cu1), Cu2), Join(Join(Cu3, Cu2), Cu1)}

-----------------------------------------------------------------------------
(* Type sections to dump as C: structs in cycles of pointers, anonymous    *)
(* ones, names used twice, and functions.                                  *)

DTy(kind, name, names, refs) == [kind |-> kind, name |-> name, names |-> names, refs |-> refs]
DInt == DTy("int", "int", <<>>, <<>>)
DPtr(r) == DTy("ptr", "", <<>>, <<r>>)
DStruct(name, refs) == DTy("struct", name, <<>>, refs)

ListBtf == <<DTy("typedef", "t", <<>>, <<2>>), DStruct("S", <<3, 5, 7>>), DPtr(1), DStruct("B", <<2, 6>>),
             DPtr(4), DTy("enum", "E", <<"X">>, <<>>), DPtr(6), DStruct("T", <<7>>)>>
AnonBtf == <<DStruct("A", <<2>>), DInt, DStruct("", <<1, 5>>), DPtr(3),
             DTy("enum", "", <<"X">>, <<>>), DStruct("B", <<4, 5>>), DStruct("A", <<2, 4>>),
             DTy("typedef", "X", <<>>, <<7>>), DTy("array", "", <<>>, <<8>>), DStruct("C", <<9>>)>>
CallBtf == <<DInt, DStruct("A", <<3, 6>>), DPtr(4), DTy("func_proto", "", <<"x">>, <<5, 7>>),
             DPtr(2), DTy("typedef", "cb", <<>>, <<3>>), DPtr(8), DStruct("B", <<2, 10>>),
             DTy("fwd", "C", <<>>, <<>>), DPtr(9), DTy("typedef", "__builtin_va_list", <<>>, <<7>>),
             DTy("typedef", "va", <<>>, <<11>>)>>
NamesBtf == <<DStruct("A", <<>>), DStruct("A___2", <<>>), DStruct("A", <<>>), DStruct("Lon", <<>>),
              DStruct("Lon", <<>>), DStruct("Lon", <<>>)>>
SomeDumps == {ListBtf, AnonBtf, CallBtf, NamesBtf}

-----------------------------------------------------------------------------
(* Objects to relocate: a local struct s, and kernels that have it with    *)
(* its fields moved, in two flavours, in two that differ, or not at all.   *)

CTy(kind, name, size, type, members) ==
  [kind |-> kind, name |-> name, size |-> size, signed |-> IF name = "int" THEN 1 ELSE 0,
   nelems |-> IF kind = "array" THEN 2 ELSE 0, type |-> type, members |-> members]
Mb(name, type, off, bits) == [name |-> name, type |-> type, off |-> off, bits |-> bits]
CInt == CTy("int", "int", 4, 0, <<>>)
CStruct(name, size, members) == CTy("struct", name, size, 0, members)

LocalBtf ==
  <<CInt, CStruct("s", 28, <<Mb("a", 1, 0, 0), Mb("", 3, 32, 0), Mb("arr", 4, 64, 0),
                             Mb("flags", 1, 128, 3), Mb("e", 5, 160, 0), Mb("x", 1, 192, 0),
                             Mb("none", 7, 224, 0)>>),
    CStruct("", 4, <<Mb("b", 1, 0, 0)>>), CTy("array", "", 0, 1, <<>>),
    CTy("enum", "E", 4, 0, <<>>), CTy("typedef", "s", 0, 2, <<>>), CStruct("", 0, <<>>)>>
MovedBtf ==
  <<CInt, CStruct("s", 32, <<Mb("", 3, 64, 0), Mb("e", 5, 0, 0), Mb("flags", 1, 157, 5),
                             Mb("", 6, 192, 0), Mb("none", 8, 256, 0)>>),
    CStruct("", 8, <<Mb("y", 1, 0, 0), Mb("", 4, 32, 0)>>), CStruct("", 4, <<Mb("b", 1, 0, 0)>>),
    CTy("enum", "E", 4, 0, <<>>), CStruct("", 8, <<Mb("arr", 7, 0, 0), Mb("a", 1, 64, 0)>>),
    CTy("array", "", 0, 1, <<>>), CStruct("", 0, <<>>)>>
FlavoursBtf ==
  <<CInt, CStruct("s", 8, <<Mb("a", 1, 0, 0), Mb("b", 1, 32, 0)>>),
    CStruct("s", 8, <<Mb("a", 1, 0, 0), Mb("x", 1, 32, 0)>>)>>
DifferBtf ==
  <<CInt, CStruct("s", 8, <<Mb("a", 1, 0, 0), Mb("b", 1, 32, 0)>>),
    CStruct("s", 12, <<Mb("a", 1, 32, 0), Mb("b", 1, 0, 0), Mb("x", 1, 64, 0)>>)>>
OddBtf ==
  <<CInt, CStruct("s", 16, <<Mb("", 3, 0, 0), Mb("flags", 1, 60, 8), Mb("x", 1, 32, 0)>>),
    CStruct("", 8, <<Mb("b", 4, 0, 0)>>), CTy("ptr", "", 0, 1, <<>>), CTy("func", "f", 0, 1, <<>>)>>
NamesakeBtf == <<CInt, CTy("func", "s", 0, 1, <<>>), CStruct("s", 4, <<Mb("a", 1, 0, 0)>>)>>

Rl(type, path, kind, imm) ==
  [type |-> type, path |-> path, kind |-> kind, imm |-> imm, alu |-> TRUE, prog |-> TRUE]
Common ==
  {Rl(2, <<0, 0>>, "byte_offset", 0), Rl(2, <<0, 1, 0>>, "byte_offset", 4),
   Rl(2, <<0, 1, 0>>, "exists", 1), Rl(2, <<0, 5>>, "exists", 1),
   Rl(2, <<0, 5>>, "byte_offset", 24), Rl(2, <<0, 2, 1>>, "byte_offset", 12),
   Rl(2, <<0, 2, 1>>, "byte_size", 4)}
Rare ==
  {Rl(2, <<0, 0>>, "byte_offset", 1), Rl(6, <<1>>, "byte_offset", 28), Rl(2, <<0, 4>>, "signed", 1),
   Rl(2, <<0, 9>>, "byte_offset", 0), Rl(3, <<0, 0>>, "byte_size", 4), Rl(2, <<0, 2>>, "signed", 1),
   [Rl(2, <<0, 0>>, "byte_offset", 0) EXCEPT !.alu = FALSE],
   [Rl(2, <<0, 0>>, "byte_offset", 0) EXCEPT !.prog = FALSE],
   Rl(2, <<0, 6>>, "byte_size", 0), Rl(2, <<0, 6>>, "byte_offset", 28), Rl(2, <<0, 2, 1>>, "lshift", 4), Rl(2, <<0, 0, 0>>, "byte_offset", 0)}
ReadFlags == [k \in 1 .. 4 |-> Rl(2, <<0, 3>>, ReadKinds[k], IF k = 4 THEN 61 ELSE 0)]
RelocationLists ==
  UNION {[1 .. n -> Common] : n \in 1 .. 3} \cup {<<r>> : r \in Rare} \cup {ReadFlags}
    \cup {<<r>> \o ReadFlags : r \in Common}
SomeObjects ==
  {[local |-> LocalBtf, targ |-> t, relos |-> r, little |-> TRUE] :
     t \in {MovedBtf, FlavoursBtf, DifferBtf, OddBtf, NamesakeBtf}, r \in RelocationLists}
  \cup {[local |-> LocalBtf, targ |-> t, relos |-> ReadFlags, little |-> FALSE] : t \in {MovedBtf, OddBtf}}

-----------------------------------------------------------------------------
(* Programs to attach, and programs with line records: in order, with two  *)
(* and three functions, with an address twice, with a function that has no *)
(* records, with a record behind its function, and without jited ones.     *)

LoadedAndNot == [a |-> TRUE, b |-> FALSE]

Arr(recs, size) == [recs |-> recs, size |-> size]
Jited(ksyms, lens, lines, jited) ==
  [jited_ksyms |-> Arr(ksyms, 1), jited_func_lens |-> Arr(lens, 1), line_info |-> Arr(lines, 2),
   jited_line_info |-> Arr(jited, 2)]
TwoFuncs == Jited(<<9, 4>>, <<4, 3>>, <<0, 2, 5, 6>>, <<9, 11, 4, 5>>)
SomeInfo ==
  {TwoFuncs, Jited(<<4>>, <<4>>, <<0, 1, 3>>, <<4, 6, 7>>), Jited(<<4>>, <<4>>, <<0, 2>>, <<4, 4>>),
   Jited(<<4, 9>>, <<3, 2>>, <<0, 2>>, <<4, 6>>), Jited(<<4, 9>>, <<2, 2>>, <<0, 2, 4>>, <<4, 6, 9>>),
   Jited(<<>>, <<>>, <<0, 3>>, <<>>), Jited(<<4>>, <<4>>, <<>>, <<>>),
   Jited(<<4, 7, 9>>, <<2, 2, 2>>, <<0, 2, 4>>, <<4, 7, 9>>)}
ArrayOrder == <<"jited_ksyms", "jited_func_lens", "line_info", "jited_line_info">>

-----------------------------------------------------------------------------
(* One part at a time.                                                     *)

PartNames == {"hashmap", "netlink", "mapdefs", "open", "load", "progload", "pin", "xskring",
              "xsksocket", "read", "ext", "strings", "dedup", "dump", "core", "links", "proginfo"}

\* The BTF sections come and go only with relocations against "maps".
OnlyBtf == Range(oo_file.sections) \cap {".BTF", ".BTF.ext"} = {".BTF"}

\* A part that is not chosen has one state.
LibInit ==
  /\ which \in PartNames
  /\ HashInit /\ NlInit /\ OpInit /\ XrInit /\ LkInit
  /\ IF which = "mapdefs" THEN MdInit
     ELSE md_kind = "btf" /\ md_strict = TRUE /\ md_syms = <<>> /\ md_data = <<>> /\ md_fields = <<>>
          /\ MdStart
  /\ IF which = "open" THEN OoInit /\ (oo_file.relo.sec = "maps" \/ OnlyBtf)
     ELSE oo_file = [sections |-> FileWith({}), relo |-> Relo("UNDEF", 0, "GLOBAL", "call"), sound |-> TRUE]
          /\ OoStart
  /\ IF which = "load" THEN OlInit
     ELSE ol_progs = <<Xdp>> /\ ol_pins = [m \in 1 .. 3 |-> 0] /\ OlInit
  /\ IF which = "progload" THEN PlInit
     ELSE /\ pl_case = [accepts |-> TRUE, as_kprobe |-> FALSE, older |-> {}, log |-> 0,
                        max_log |-> LogSize, log_level |-> 0, too_big |-> FALSE]
          /\ pl = "done" /\ pl_attr = [cut |-> {}, log |-> FALSE]
          /\ pl_log = [size |-> 0, text |-> FALSE] /\ pl_size = LogSize
          /\ pl_errno = "0" /\ pl_signals = 0 /\ pl_ret = "0" /\ pl_faults = 0
  /\ IF which = "xsksocket" THEN XsInit ELSE xs_link = 0 /\ xs_noexist = TRUE /\ XsInit
  /\ IF which = "read" THEN BtInit
     ELSE LET ints == <<Desc("int", "a", 0, 4, 0)>> IN
          bt_data = [types |-> ints, str_off |-> TypesLen(ints), str_len |-> 2,
                     size |-> TypesLen(ints) + 2, sound |-> TRUE] /\ BtStart
  /\ IF which = "ext" THEN BeInit
     ELSE be_ext = [p \in Range(Parts) |-> [len |-> 0, rec_size |-> 1, secs |-> <<>>]] /\ BeStart
  /\ IF which = "strings" THEN BsInit
     ELSE bs_strs = <<0>> /\ bs_refs = [r \in Referrers |-> 0] /\ BsStart
  /\ IF which = "dedup" THEN DdInit
     ELSE dd_in = Loop /\ dd_resolve = FALSE /\ dd_collide = FALSE /\ DdStart
  /\ IF which = "dump" THEN BdInit ELSE bd_types = ListBtf /\ BdInit
  /\ IF which = "core" THEN CrInit
     ELSE /\ cr_obj = [local |-> LocalBtf, targ |-> MovedBtf, relos |-> ReadFlags, little |-> TRUE]
          /\ cr_relaxed = FALSE /\ CrStart
  /\ IF which = "proginfo" THEN PiInit ELSE pi_prog = TwoFuncs /\ pi_want = Arrays /\ pi_known = Arrays /\ PiInit

Keep(c, v) == IF which = c THEN TRUE ELSE UNCHANGED v

LibNext ==
  /\ \/ which = "hashmap" /\ HashNext
     \/ which = "netlink" /\ NlNext
     \/ which = "mapdefs" /\ MdNext
     \/ which = "open" /\ OoNext
     \/ which = "load" /\ OlNext
     \/ which = "progload" /\ PlNext
     \/ which = "pin" /\ OpNext
     \/ which = "xskring" /\ XrNext
     \/ which = "xsksocket" /\ XsNext
     \/ which = "read" /\ BtNext
     \/ which = "ext" /\ BeNext
     \/ which = "strings" /\ BsNext
     \/ which = "dedup" /\ DdNext
     \/ which = "dump" /\ BdNext
     \/ which = "core" /\ CrNext
     \/ which = "links" /\ LkNext
     \/ which = "proginfo" /\ PiNext
  /\ Keep("hashmap", hashVars) /\ Keep("netlink", nlVars) /\ Keep("mapdefs", mdVars)
  /\ Keep("open", ooVars) /\ Keep("load", olVars) /\ Keep("progload", plVars)
  /\ Keep("pin", opVars) /\ Keep("xskring", xrVars) /\ Keep("xsksocket", xsVars)
  /\ Keep("read", btVars) /\ Keep("ext", beVars) /\ Keep("strings", bsVars)
  /\ Keep("dedup", ddVars) /\ Keep("dump", bdVars) /\ Keep("core", crVars)
  /\ Keep("links", lkVars) /\ Keep("proginfo", piVars)
  /\ UNCHANGED which

\* load_program is one call of one thread: once begun it goes on.
LibSpec == LibInit /\ [][LibNext]_libVars /\ WF_libVars(which = "progload" /\ LibNext)
=============================================================================
