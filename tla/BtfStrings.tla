----------------------------- MODULE BtfStrings -----------------------------
(***************************************************************************)
(* btf_dedup_strings: the string section of .BTF is reduced to one copy of *)
(* each string that is referred to, and the offsets by which the types and *)
(* .BTF.ext refer to strings are rewritten.  A string is a number, which   *)
(* is its place in the order of strcmp and its length; 0 is the empty one. *)
(***************************************************************************)
EXTENDS Integers, Sequences, FiniteSets, SequencesExt, Functions, Sums

CONSTANTS
  StrSections, \* string sections: sequences of strings, the first empty
  StrOffsets   \* offsets that references may have

\* btf_parse_str_sec refuses a section whose first string is not the empty one.
ASSUME BtfStringsAssumption ==
  \A strs \in StrSections : strs \in Seq(Nat) /\ strs # <<>> /\ strs[1] = 0

\* Who refers to strings: types and line_info records, and the func_info and field_reloc parts
\* of .BTF.ext, which name the section and the field they are about.
Referrers == {"type", "line_info", "func_info", "field_reloc"}

VARIABLES
  bs_in,       \* history: the section and the references before
  bs_strs,     \* the section
  bs_refs,     \* referrer -> offset
  bs_ptrs,     \* the index of strings: [at, str, used, new_off]
  bs_i, bs_grp, bs_grp_used, \* the loop over groups of equal strings
  bs_tmp,      \* tmp_strs
  bs_pc, bs_ret

bsVars == <<bs_in, bs_strs, bs_refs, bs_ptrs, bs_i, bs_grp, bs_grp_used, bs_tmp, bs_pc, bs_ret>>

Bytes(str) == str + 1 \* with the terminator
AllBytes(strs) == [k \in DOMAIN strs |-> Bytes(strs[k])]
SizeOf(strs) == Total(AllBytes(strs))
StartOf(strs, k) == Sums(AllBytes(strs))[k - 1]

\* What is read at an offset: a string from its byte `at' on, or nothing of the section.
ReadAt(strs, off) ==
  LET in == {k \in DOMAIN strs : StartOf(strs, k) <= off /\ off < StartOf(strs, k) + Bytes(strs[k])}
  IN IF in = {} THEN <<-1, 0>>
     ELSE LET k == CHOOSE j \in in : TRUE IN <<strs[k], off - StartOf(strs, k)>>

BsStart ==
  /\ bs_in = [strs |-> bs_strs, refs |-> bs_refs]
  /\ bs_ptrs = <<>> /\ bs_tmp = <<>> /\ bs_i = 0 /\ bs_grp = 0 /\ bs_grp_used = FALSE
  /\ bs_pc = "index" /\ bs_ret = "none"

BsInit ==
  /\ bs_strs \in StrSections
  /\ bs_refs \in [Referrers -> {off \in StrOffsets : off < SizeOf(bs_strs)}]
  /\ BsStart

\* btf_for_each_str_off: the references that are visited.
btf_for_each_str_off == {"type", "line_info"}

\* The references that the search by offset does not find: they point into a string.
NotFound(ptrs) ==
  \E r \in btf_for_each_str_off : bs_refs[r] # 0 /\ ~ \E k \in DOMAIN ptrs : ptrs[k].at = bs_refs[r]

\* The index of all strings, btf_str_mark_as_used over all references, and the sort by content,
\* which leaves equal strings in any order.
BuildIndex ==
  /\ bs_pc = "index"
  /\ LET ptrs == [k \in DOMAIN bs_strs |->
                    [at |-> StartOf(bs_strs, k), str |-> bs_strs[k], new_off |-> 0,
                     used |-> k = 1 \/ \E r \in btf_for_each_str_off : bs_refs[r] = StartOf(bs_strs, k)]]
     IN IF NotFound(ptrs)
        THEN bs_ret' = "EINVAL" /\ bs_pc' = "done" /\ UNCHANGED <<bs_ptrs, bs_i, bs_grp, bs_grp_used>>
        ELSE \E order \in Bijection(DOMAIN ptrs, DOMAIN ptrs) :
               /\ \A j, k \in DOMAIN ptrs : j < k => ptrs[order[j]].str <= ptrs[order[k]].str
               /\ bs_ptrs' = [k \in DOMAIN ptrs |-> ptrs[order[k]]]
               /\ bs_i' = 2 /\ bs_grp' = 1 /\ bs_grp_used' = ptrs[order[1]].used
               /\ bs_pc' = "groups" /\ UNCHANGED bs_ret
  /\ UNCHANGED <<bs_in, bs_strs, bs_refs, bs_tmp>>

\* The string at i is one more of its group.
SameGroup_FirstUsed ==
  /\ bs_pc = "groups" /\ bs_i <= Len(bs_ptrs) /\ bs_ptrs[bs_i].str = bs_ptrs[bs_grp].str
  /\ bs_i' = bs_i + 1
  /\ UNCHANGED <<bs_in, bs_strs, bs_refs, bs_ptrs, bs_grp, bs_grp_used, bs_tmp, bs_pc, bs_ret>>
SameGroup ==
  /\ bs_pc = "groups" /\ bs_i <= Len(bs_ptrs) /\ bs_ptrs[bs_i].str = bs_ptrs[bs_grp].str
  /\ bs_grp_used' = (bs_grp_used \/ bs_ptrs[bs_i].used)
  /\ bs_i' = bs_i + 1
  /\ UNCHANGED <<bs_in, bs_strs, bs_refs, bs_ptrs, bs_grp, bs_tmp, bs_pc, bs_ret>>

\* The group ends, at another string or past the last one: if any of it is used, one copy goes
\* to the new section and all get its offset.
NextGroup ==
  /\ bs_pc = "groups"
  /\ bs_i <= Len(bs_ptrs) => bs_ptrs[bs_i].str # bs_ptrs[bs_grp].str
  /\ IF bs_grp_used
     THEN /\ bs_ptrs' = [k \in DOMAIN bs_ptrs |->
                           IF k \in bs_grp .. bs_i - 1 THEN [bs_ptrs[k] EXCEPT !.new_off = SizeOf(bs_tmp)]
                           ELSE bs_ptrs[k]]
          /\ bs_tmp' = Append(bs_tmp, bs_ptrs[bs_grp].str)
     ELSE UNCHANGED <<bs_ptrs, bs_tmp>>
  /\ IF bs_i <= Len(bs_ptrs)
     THEN bs_grp' = bs_i /\ bs_grp_used' = bs_ptrs[bs_i].used /\ bs_i' = bs_i + 1 /\ UNCHANGED bs_pc
     ELSE bs_pc' = "remap" /\ UNCHANGED <<bs_grp, bs_grp_used, bs_i>>
  /\ UNCHANGED <<bs_in, bs_strs, bs_refs, bs_ret>>

\* btf_str_remap_offset; offset 0 stays.
btf_str_remap_offset(off) ==
  IF off = 0 THEN 0 ELSE bs_ptrs[CHOOSE k \in DOMAIN bs_ptrs : bs_ptrs[k].at = off].new_off

\* The new section replaces the old one and the references that are visited are rewritten.
RemapOffsets ==
  /\ bs_pc = "remap"
  /\ bs_strs' = bs_tmp
  /\ bs_refs' = [r \in Referrers |->
                   IF r \in btf_for_each_str_off THEN btf_str_remap_offset(bs_refs[r]) ELSE bs_refs[r]]
  /\ bs_pc' = "done" /\ bs_ret' = "0"
  /\ UNCHANGED <<bs_in, bs_ptrs, bs_i, bs_grp, bs_grp_used, bs_tmp>>

BsNext == BuildIndex \/ SameGroup \/ NextGroup \/ RemapOffsets

BsSpec == BsInit /\ [][BsNext]_bsVars

----------------------------------------------------------------------------
ReadsTheSame(r) == ReadAt(bs_strs, bs_refs[r]) = ReadAt(bs_in.strs, bs_in.refs[r])

\* After a successful pass a type name and a line_info record read the string they read before,
\* whichever of several equal copies they referred to.
NamesAreKept == bs_ret = "0" => ReadsTheSame("type") /\ ReadsTheSame("line_info")

\* The new section has each string once, and none but the empty one that nothing refers to:
\* "Dedup string and filter out those that are not referenced".
StringsOnce ==
  bs_ret = "0" =>
    /\ Cardinality(Range(bs_strs)) = Len(bs_strs)
    /\ \A k \in DOMAIN bs_strs :
         bs_strs[k] = 0 \/ \E r \in btf_for_each_str_off : bs_refs[r] = StartOf(bs_strs, k)

\* "If optional struct btf_ext representing '.BTF.ext' ELF section is provided, all the strings
\* referenced from .BTF.ext section are honored and updated": every part of .BTF.ext reads the
\* strings it read before.
ExtIsHonored == bs_ret = "0" => \A r \in Referrers : ReadsTheSame(r)

\* btf_dedup_strings makes the section smaller and changes no name of a type or of a line.
StringsAreDeduplicated == NamesAreKept /\ StringsOnce
=============================================================================
