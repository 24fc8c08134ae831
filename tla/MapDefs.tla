------------------------------- MODULE MapDefs ------------------------------
(***************************************************************************)
(* How libbpf reads the maps of an object file: the "maps" section, where  *)
(* symbols point at struct bpf_map_def (the maps of the anti-dos programs  *)
(* are written so), and the ".maps" section, where the fields of a map are *)
(* encoded in BTF.                                                         *)
(*                                                                         *)
(* Bytes are counted in cells; the first cell of a definition, the type of *)
(* the map, is never 0.                                                    *)
(***************************************************************************)
EXTENDS Integers, Sequences, SequencesExt, FiniteSets, Sums

CONSTANTS
  DefSize,    \* sizeof(struct bpf_map_def)
  MaxDefSize, \* bound: cells of a symbol in the file
  MaxSymbols, \* bound: symbols in the "maps" section
  MapFields,  \* the fields of a BTF map that are tried, each with its values
  MaxFields   \* bound: fields of a BTF map

\* A field has a name and a value, or BadValue if it is not encoded as it should
\* be (as a pointer to an array, or to a type whose size can be told).
BadValue == -1
FieldNames ==
  {"type", "max_entries", "map_flags", "key_size", "key", "value_size", "value", "pinning", "other"}

ASSUME MapDefsAssumption ==
  /\ DefSize \in Nat \ {0} /\ MaxDefSize \in Nat /\ MaxSymbols \in Nat /\ MaxFields \in Nat
  /\ MapFields \subseteq [name : FieldNames, value : Nat \cup {BadValue}]

VARIABLES
  md_kind,   \* "legacy" or "btf"
  md_strict, \* ~ relaxed_maps
  md_syms,   \* the symbols: sizes in the file, in the order of their places
  md_data,   \* the cells of the section
  md_fields, \* the fields of the BTF map in the order of its structure
  md_i,      \* the symbol or field that is next
  md_maps,   \* obj->maps as far as they are read
  md_ret     \* "running", or what the function returned

mdVars == <<md_kind, md_strict, md_syms, md_data, md_fields, md_i, md_maps, md_ret>>
mdInput == <<md_kind, md_strict, md_syms, md_data, md_fields>>

-----------------------------------------------------------------------------
(* The files.                                                              *)

FieldLists ==
  {f \in BoundedSeq(MapFields, MaxFields) :
     \A j, k \in DOMAIN f : f[j].name = f[k].name => j = k}

Offset(sizes, n) == Sums(sizes)[n - 1]
Sizes == UNION {[1 .. n -> 1 .. MaxDefSize] : n \in 0 .. MaxSymbols}
\* The contents that a section with these symbols can have.
Contents(sizes) ==
  {d \in [1 .. Offset(sizes, Len(sizes) + 1) -> {0, 1}] :
     \A n \in DOMAIN sizes : d[Offset(sizes, n) + 1] = 1}

MdStart == md_i = 1 /\ md_maps = <<>> /\ md_ret = "running"

MdInit ==
  /\ md_strict \in BOOLEAN
  /\ \/ /\ md_kind = "legacy" /\ md_fields = <<>>
        /\ md_syms \in Sizes /\ md_data \in Contents(md_syms)
     \/ /\ md_kind = "btf" /\ md_syms = <<>> /\ md_data = <<>>
        /\ md_fields \in FieldLists
  /\ MdStart

-----------------------------------------------------------------------------
(* bpf_object__init_user_maps.                                             *)

nr_maps == Len(md_syms)
d_size == Len(md_data)
map_def_sz == d_size \div nr_maps

\* "unable to determine map definition size"
SizeUnknown == d_size = 0 \/ ~ \E sz \in 1 .. d_size : d_size = sz * nr_maps

CountMaps ==
  /\ md_kind = "legacy" /\ md_ret = "running" /\ md_i = 1
  /\ SizeUnknown
  /\ md_ret' = "EINVAL"
  /\ UNCHANGED <<mdInput, md_i, md_maps>>

\* The cells from off on as a structure of DefSize cells: what the file does not
\* have is zero.
CopyDef_WholeDef(off) ==
  [c \in 1 .. DefSize |-> IF off + c <= d_size THEN md_data[off + c] ELSE 0]
CopyDef(off) == [c \in 1 .. DefSize |-> IF c <= map_def_sz THEN md_data[off + c] ELSE 0]

\* One symbol.  What this structure does not have must be zero, in strict mode.
InitUserMap ==
  /\ md_kind = "legacy" /\ md_ret = "running" /\ md_i <= nr_maps
  /\ ~ SizeUnknown
  /\ LET off == Offset(md_syms, md_i)
         excess == {md_data[off + c] : c \in DefSize + 1 .. map_def_sz}
     IN IF off + map_def_sz > d_size
        THEN md_ret' = "EINVAL" /\ UNCHANGED <<md_i, md_maps>>
        ELSE IF md_strict /\ 1 \in excess
        THEN md_ret' = "EINVAL" /\ UNCHANGED <<md_i, md_maps>>
        ELSE /\ md_maps' = Append(md_maps, CopyDef(off))
             /\ md_i' = md_i + 1
             /\ md_ret' = IF md_i = nr_maps THEN "0" ELSE "running"
  /\ UNCHANGED mdInput

-----------------------------------------------------------------------------
(* bpf_object__init_user_btf_map.                                          *)

NoDef == [type |-> 0, max_entries |-> 0, map_flags |-> 0, key_size |-> 0, value_size |-> 0,
          pin_path |-> FALSE, error |-> "0"]
Refused(error) == [NoDef EXCEPT !.error = error]
BtfDef == IF md_maps = <<>> THEN NoDef ELSE md_maps[1]

\* key_size and value_size come as numbers, key and value as types; two of them
\* must agree, but 0 is no size yet.
SetSize(def, of, size) ==
  IF def[of] # 0 /\ def[of] # size THEN Refused("EINVAL") ELSE [def EXCEPT ![of] = size]

\* The definition after a field, or the error it makes.
ApplyField(def, f) ==
  CASE f.value = BadValue /\ f.name # "other" -> Refused("EINVAL")
    [] f.value # BadValue /\ f.name \in {"type", "max_entries", "map_flags"} ->
         [def EXCEPT ![f.name] = f.value]
    [] f.value # BadValue /\ f.name \in {"key_size", "key"} -> SetSize(def, "key_size", f.value)
    [] f.value # BadValue /\ f.name \in {"value_size", "value"} -> SetSize(def, "value_size", f.value)
    [] f.value # BadValue /\ f.name = "pinning" ->
         IF f.value \notin {0, 1} THEN Refused("EINVAL")
         ELSE IF f.value = 1 THEN [def EXCEPT !.pin_path = TRUE] ELSE def
    [] OTHER -> IF md_strict THEN Refused("ENOTSUP") ELSE def

InitBtfField ==
  /\ md_kind = "btf" /\ md_ret = "running" /\ md_i <= Len(md_fields)
  /\ LET def == ApplyField(BtfDef, md_fields[md_i])
     IN IF def.error # "0"
        THEN md_ret' = def.error /\ UNCHANGED <<md_i, md_maps>>
        ELSE md_maps' = <<def>> /\ md_i' = md_i + 1 /\ UNCHANGED md_ret
  /\ UNCHANGED mdInput

\* "map type isn't specified"
EndBtfMap ==
  /\ md_kind = "btf" /\ md_ret = "running" /\ md_i = Len(md_fields) + 1
  /\ md_ret' = IF BtfDef.type = 0 THEN "EINVAL" ELSE "0"
  /\ UNCHANGED <<mdInput, md_i, md_maps>>

MdNext == CountMaps \/ InitUserMap \/ InitBtfField \/ EndBtfMap
MdSpec == MdInit /\ [][MdNext]_mdVars

-----------------------------------------------------------------------------
(* Properties.                                                             *)

\* A map of the "maps" section is read from its own symbol, with zeros for the
\* fields that the file's older structure lacks, and never from its neighbour's
\* cells: libbpf does not look at the sizes of the symbols but divides the section
\* by their number.  (Only a file that mixes sizes, some smaller than this
\* structure, can be misread.)
LegacyDefsAreOwn ==
  md_kind = "legacy" /\ md_ret = "0"
  /\ (Cardinality(Range(md_syms)) = 1 \/ \A n \in DOMAIN md_syms : md_syms[n] >= DefSize)
  => md_maps = [n \in DOMAIN md_syms |->
       [c \in 1 .. DefSize |-> IF c <= md_syms[n] THEN md_data[Offset(md_syms, n) + c] ELSE 0]]

\* "Array of maps is not supported": in strict mode a symbol that holds a second
\* definition is refused wherever it stands among the others, although its size is
\* not looked at (again with definitions that are not smaller than this structure).
ArraysAreRefused ==
  md_kind = "legacy" /\ md_ret = "0" /\ md_strict
  /\ (\A n \in DOMAIN md_syms : md_syms[n] >= DefSize) =>
    \A n \in DOMAIN md_syms : md_syms[n] >= 2 * DefSize =>
      md_data[Offset(md_syms, n) + DefSize + 1] = 0

\* What a BTF map's fields add up to, as a set.
ValuesOf(names) == {md_fields[k].value : k \in {j \in DOMAIN md_fields : md_fields[j].name \in names}}
KeySizes == ValuesOf({"key_size", "key"})
ValueSizes == ValuesOf({"value_size", "value"})
ProperFields ==
  /\ \A k \in DOMAIN md_fields : md_fields[k].name # "other" => md_fields[k].value # BadValue
  /\ ValuesOf({"type"}) \notin {{}, {0}}
  /\ Cardinality(KeySizes) <= 1 /\ Cardinality(ValueSizes) <= 1
  /\ ValuesOf({"pinning"}) \subseteq {0, 1}
  /\ md_strict => ValuesOf({"other"}) = {}

\* The order of the fields makes no difference: a BTF map is accepted if and only
\* if its fields are proper, and then has their sizes.  (A size of 0 next to
\* another size is accepted or not, depending on which is first.)
FieldOrderDoesNotMatter ==
  md_kind = "btf" /\ md_ret # "running" =>
    \/ 0 \in KeySizes /\ KeySizes # {0}
    \/ 0 \in ValueSizes /\ ValueSizes # {0}
    \/ /\ (md_ret = "0") = ProperFields
       /\ md_ret = "0" => /\ KeySizes \subseteq {BtfDef.key_size}
                          /\ ValueSizes \subseteq {BtfDef.value_size}
                          /\ BtfDef.pin_path = (1 \in ValuesOf({"pinning"}))

\* Of the definitions that bpf_object__init_user_maps and bpf_object__init_user_btf_maps accept,
\* the maps have what the file says, however symbols and fields are laid out.
DefinitionsAreRead == LegacyDefsAreOwn /\ ArraysAreRefused /\ FieldOrderDoesNotMatter
=============================================================================
