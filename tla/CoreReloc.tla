----------------------------- MODULE CoreReloc ------------------------------
(***************************************************************************)
(* CO-RE: the field accesses of a program are moved to where the running   *)
(* kernel has the fields.  Each relocation names a local type, a path into *)
(* it and what the instruction wants to know of the field (its offset, its *)
(* size, whether it exists ...).  The candidates of a local type are the   *)
(* target types of its name (flavours aside); they are kept from one       *)
(* relocation to the next and pruned as relocations match.                 *)
(*                                                                         *)
(* A type is [kind, name, size, signed, nelems, type, members], a member   *)
(* [name, type, off, bits] (bits > 0 for a bit-field, name "" when         *)
(* anonymous); name is the essential part of the name, in front of ___.    *)
(* Numbers are u32 in the code.                                            *)
(***************************************************************************)
EXTENDS Integers, Sequences, FiniteSets, SequencesExt

CONSTANTS
  CoreObjects,   \* [local, targ, relos, little]: the two BTFs, the relocations, and whether the
                 \* build is little-endian
  SpecMaxLen,    \* BPF_CORE_SPEC_MAX_LEN
  MaxCoreFaults

\* A relocation is [type, path, kind, imm, alu, prog]: imm what the instruction holds, alu whether
\* it is one with an immediate, prog whether its section is a program's.

VARIABLES
  cr_obj,
  cr_relaxed, \* relaxed_core_relocs
  cr_cache,   \* cand_cache: local type -> its candidates, NoCands before the first relocation
  cr_imm,     \* the instructions' immediates
  cr_i,       \* the relocation that is next
  cr_pc, cr_ret, cr_faults

crVars == <<cr_obj, cr_relaxed, cr_cache, cr_imm, cr_i, cr_pc, cr_ret, cr_faults>>

NoCands == <<0>>
Missing == -1  \* (__u32)-1

CrStart ==
  /\ cr_cache = [id \in DOMAIN cr_obj.local |-> NoCands]
  /\ cr_imm = [k \in DOMAIN cr_obj.relos |-> cr_obj.relos[k].imm]
  /\ cr_i = 1 /\ cr_pc = "start" /\ cr_ret = "none" /\ cr_faults = 0

CrInit ==
  /\ cr_obj \in CoreObjects /\ cr_relaxed \in BOOLEAN
  /\ CrStart

----------------------------------------------------------------------------
(* Types and specs: a spec is [accs, raw_len, off, types]; an accessor     *)
(* [type, idx, name], name "" for an array element.                        *)

CoreComposites == {"struct", "union"}
RECURSIVE skip_mods_and_typedefs(_, _), CoreSize(_, _)
skip_mods_and_typedefs(types, id) ==
  IF types[id].kind \in {"const", "typedef"} THEN skip_mods_and_typedefs(types, types[id].type) ELSE id
\* btf__resolve_size, below 0 for what has no size.
CoreSize(types, id) ==
  LET t == types[id]
  IN CASE t.kind \in {"int", "enum", "struct", "union"} -> t.size
       [] t.kind = "ptr" -> 8
       [] t.kind = "array" -> t.nelems * CoreSize(types, t.type)
       [] t.kind \in {"const", "typedef"} -> CoreSize(types, t.type)
       [] OTHER -> -22

Acc(type, idx, name) == [type |-> type, idx |-> idx, name |-> name]
BadSpec == [accs |-> <<>>, raw_len |-> 0, off |-> 0]

RECURSIVE ParseFrom(_, _, _, _)
ParseFrom(types, id, path, spec) ==
  LET s == skip_mods_and_typedefs(types, id)
      t == types[s]
      idx == Head(path)
  IN CASE path = <<>> -> spec
       [] path # <<>> /\ t.kind \in CoreComposites /\ idx < Len(t.members) ->
          LET m == t.members[idx + 1]
          IN ParseFrom(types, m.type, Tail(path),
                       [spec EXCEPT !.off = @ + m.off,
                                    !.accs = IF m.name = "" THEN @ ELSE Append(@, Acc(s, idx, m.name))])
       [] path # <<>> /\ t.kind = "array" /\ idx < t.nelems ->
          LET e == skip_mods_and_typedefs(types, t.type)
          IN ParseFrom(types, e, Tail(path),
                       [spec EXCEPT !.off = @ + idx * CoreSize(types, e) * 8, !.accs = Append(@, Acc(e, idx, ""))])
       [] OTHER -> BadSpec
\* The first element of the path indexes the type itself.
bpf_core_spec_parse(types, type_id, path) ==
  LET id == skip_mods_and_typedefs(types, type_id)
  IN IF Len(path) > SpecMaxLen \/ CoreSize(types, id) < 0 THEN BadSpec
     ELSE ParseFrom(types, id, Tail(path),
                    [accs |-> <<Acc(id, Head(path), "")>>, raw_len |-> Len(path),
                     off |-> Head(path) * CoreSize(types, id) * 8])

----------------------------------------------------------------------------
(* Matching a spec with a target type. *)

bpf_core_find_cands(obj, id) ==
  SelectSeq([k \in DOMAIN obj.targ |-> k], LAMBDA k : obj.targ[k].name = obj.local[id].name)

RECURSIVE bpf_core_fields_are_compat(_, _, _, _)
bpf_core_fields_are_compat(local, local_id, targ, targ_id) ==
  LET l == local[skip_mods_and_typedefs(local, local_id)]
      t == targ[skip_mods_and_typedefs(targ, targ_id)]
  IN CASE l.kind \in CoreComposites /\ t.kind \in CoreComposites -> TRUE
       [] OTHER -> /\ l.kind = t.kind
                   /\ CASE l.kind \in {"ptr", "int"} -> TRUE
                        [] l.kind \in {"fwd", "enum"} -> l.name = "" \/ t.name = "" \/ l.name = t.name
                        [] l.kind = "array" -> bpf_core_fields_are_compat(local, l.type, targ, t.type)
                        [] OTHER -> FALSE

\* [found, spec, next]: found is 1, 0 or an error, next the type of the member that was found.
\* A member that was looked into and does not have the field is taken back out of the spec; one
\* whose field has another type is not.
Match(found, spec, next) == [found |-> found, spec |-> spec, next |-> next]
E2BIG == -7

Undone(spec, m) == [spec EXCEPT !.raw_len = @ - 1, !.off = @ - m.off]

RECURSIVE bpf_core_match_member(_, _, _, _), MatchFrom(_, _, _, _, _)
MatchFrom(acc, local_type, id, i, spec) ==
  LET targ == cr_obj.targ
      m == targ[id].members[i]
      now == [spec EXCEPT !.off = @ + m.off, !.raw_len = @ + 1]
      inner == bpf_core_match_member(acc, local_type, m.type, now)
  IN CASE i > Len(targ[id].members) -> Match(0, spec, 0)
       [] i <= Len(targ[id].members) /\ spec.raw_len = SpecMaxLen -> Match(E2BIG, spec, 0)
       [] OTHER ->
          CASE m.name = "" -> IF inner.found # 0 THEN inner
                              ELSE MatchFrom(acc, local_type, id, i + 1, Undone(inner.spec, m))
            [] m.name = acc.name ->
               IF bpf_core_fields_are_compat(cr_obj.local, local_type, targ, m.type)
               THEN Match(1, [now EXCEPT !.accs = Append(@, Acc(id, i - 1, m.name))], m.type)
               ELSE Match(0, now, m.type)
            [] OTHER -> MatchFrom(acc, local_type, id, i + 1, Undone(now, m))
bpf_core_match_member(acc, local_type, targ_id, spec) ==
  LET id == skip_mods_and_typedefs(cr_obj.targ, targ_id)
  IN IF cr_obj.targ[id].kind \notin CoreComposites THEN Match(0, spec, 0)
     ELSE MatchFrom(acc, local_type, id, 1, spec)

\* The accessors of the local spec one after the other; the first indexes the candidate itself.
RECURSIVE MatchAccs(_, _, _, _)
MatchAccs(accs, k, targ_id, spec) ==
  LET targ == cr_obj.targ
      id == skip_mods_and_typedefs(targ, targ_id)
      t == targ[id]
      acc == accs[k]
      member == bpf_core_match_member(acc, cr_obj.local[acc.type].members[acc.idx + 1].type, id, spec)
      e == IF k = 1 THEN id ELSE skip_mods_and_typedefs(targ, t.type)
  IN CASE k > Len(accs) -> Match(1, spec, 0)
       [] k <= Len(accs) /\ acc.name # "" ->
          IF member.found <= 0 THEN member ELSE MatchAccs(accs, k + 1, member.next, member.spec)
       [] OTHER ->
          CASE k > 1 /\ (t.kind # "array" \/ acc.idx >= t.nelems) -> Match(0, spec, 0)
            [] spec.raw_len = SpecMaxLen -> Match(E2BIG, spec, 0)
            [] CoreSize(targ, e) < 0 -> Match(CoreSize(targ, e), spec, 0)
            [] OTHER -> MatchAccs(accs, k + 1, e,
                                  [accs |-> Append(spec.accs, Acc(e, acc.idx, "")), raw_len |-> spec.raw_len + 1,
                                   off |-> spec.off + acc.idx * CoreSize(targ, e) * 8])
bpf_core_spec_match(spec, targ_id) == MatchAccs(spec.accs, 1, targ_id, BadSpec)

----------------------------------------------------------------------------
(* What the instruction is told: [val, validate, ok]. *)

Value(val, validate) == [val |-> val, validate |-> validate, ok |-> TRUE]
NoValue == [val |-> 0, validate |-> TRUE, ok |-> FALSE]

\* The aligned word of byte_sz bytes that has a bit.
Aligned(bit_off, byte_sz) == (bit_off \div (8 * byte_sz)) * byte_sz

\* The smallest aligned load that has all of a bit-field, below 0 when there is none.
RECURSIVE Window(_, _, _)
Window(bit_off, bit_sz, byte_sz) ==
  IF bit_off + bit_sz - Aligned(bit_off, byte_sz) * 8 <= byte_sz * 8 THEN byte_sz
  ELSE IF byte_sz >= 8 THEN -1 ELSE Window(bit_off, bit_sz, byte_sz * 2)

\* garbage is what is read as the encoding of a type that has none.
bpf_core_calc_field_relo(types, kind, spec, garbage) ==
  LET acc == spec.accs[Len(spec.accs)]
      m == types[acc.type].members[acc.idx + 1]
      mt == types[skip_mods_and_typedefs(types, m.type)]
      bitfield == m.bits > 0
      byte_sz == IF bitfield THEN Window(spec.off, m.bits, mt.size) ELSE CoreSize(types, m.type)
      byte_off == IF bitfield THEN Aligned(spec.off, byte_sz) ELSE spec.off \div 8
      bit_sz == IF bitfield THEN m.bits ELSE byte_sz * 8
      before == spec.off - byte_off * 8
  IN CASE acc.name = "" /\ kind = "byte_offset" -> Value(spec.off \div 8, TRUE)
       [] acc.name = "" /\ kind = "byte_size" /\ CoreSize(types, acc.type) >= 0 -> Value(CoreSize(types, acc.type), TRUE)
       [] acc.name # "" /\ byte_sz >= 0 ->
          CASE kind = "byte_offset" -> Value(byte_off, ~ bitfield)
            [] kind = "byte_size" -> Value(byte_sz, ~ bitfield)
            [] kind = "signed" ->
               Value(CASE mt.kind = "enum" -> 1 [] mt.kind = "int" -> mt.signed [] OTHER -> garbage, TRUE)
            [] kind = "lshift" ->
               Value(IF cr_obj.little THEN 64 - (before + bit_sz) ELSE (8 - byte_sz) * 8 + before, ~ bitfield)
            [] kind = "rshift" -> Value(64 - bit_sz, TRUE)
            [] OTHER -> NoValue
       [] OTHER -> NoValue

\* bpf_core_reloc_insn: [ok, imm].
Patch(ok, imm) == [ok |-> ok, imm |-> imm]
bpf_core_reloc_insn(relo, imm, local_spec, found, targ_spec, garbage) ==
  LET old == bpf_core_calc_field_relo(cr_obj.local, relo.kind, local_spec, garbage)
      new == bpf_core_calc_field_relo(cr_obj.targ, relo.kind, targ_spec, garbage)
  IN CASE ~ relo.alu -> Patch(FALSE, imm)
       [] relo.alu /\ relo.kind = "exists" -> Patch(imm = 1, IF found THEN 1 ELSE 0)
       [] relo.alu /\ relo.kind # "exists" /\ ~ found -> Patch(TRUE, Missing)
       [] OTHER -> Patch(old.ok /\ new.ok /\ (old.validate => imm = old.val), new.val)

----------------------------------------------------------------------------
(* The relocations of an object. *)

CrReturn(ret) == cr_pc' = "done" /\ cr_ret' = ret /\ UNCHANGED cr_i

\* bpf_core_find_kernel_btf (the first of its locations that can be loaded) or the BTF of the
\* caller's file, then the cache.
CoreStart ==
  /\ cr_pc = "start"
  /\ \/ cr_pc' = "relo" /\ UNCHANGED <<cr_i, cr_ret, cr_faults>>
     \/ cr_faults < MaxCoreFaults /\ cr_faults' = cr_faults + 1 /\ (CrReturn("ESRCH") \/ CrReturn("ENOMEM"))
  /\ UNCHANGED <<cr_obj, cr_relaxed, cr_cache, cr_imm>>

Cands(relo) ==
  IF cr_cache[relo.type] = NoCands THEN bpf_core_find_cands(cr_obj, relo.type) ELSE cr_cache[relo.type]

Pruned_Never(cands, matched, spec) == cands
\* The candidates that matched stay; when none did the list is left alone.
Pruned(cands, matched, spec) ==
  IF matched = <<>> THEN cands ELSE [k \in DOMAIN matched |-> spec[matched[k]].spec.accs[1].type]

\* bpf_core_reloc_field; -E2BIG, for a spec that grows too long, is not told from -EINVAL.  An
\* ENOMEM is one of the search or of the cache's entry.
bpf_core_reloc_field(relo, garbage) ==
  LET local == bpf_core_spec_parse(cr_obj.local, relo.type, relo.path)
      cands == Cands(relo)
      match == [k \in DOMAIN cands |-> bpf_core_spec_match(local, cands[k])]
      errors == {k \in DOMAIN cands : match[k].found < 0}
      matched == SelectSeq([k \in DOMAIN cands |-> k], LAMBDA k : match[k].found = 1)
      targ == IF matched = <<>> THEN BadSpec ELSE match[matched[1]].spec
      ambiguous == \E k \in DOMAIN matched : match[matched[k]].spec.off # targ.off
      patch == bpf_core_reloc_insn(relo, cr_imm[cr_i], local, matched # <<>>, targ, garbage)
  IN CASE local = BadSpec \/ cr_obj.local[relo.type].name = "" -> CrReturn("EINVAL") /\ UNCHANGED <<cr_cache, cr_imm>>
       [] local # BadSpec /\ cr_obj.local[relo.type].name # "" /\ (errors # {} \/ ambiguous) ->
          CrReturn("EINVAL") /\ UNCHANGED <<cr_cache, cr_imm>>
       [] OTHER ->
          /\ cr_cache' = [cr_cache EXCEPT ![relo.type] = Pruned(cands, matched, match)]
          /\ IF matched = <<>> /\ ~ cr_relaxed /\ relo.kind # "exists" THEN CrReturn("ESRCH") /\ UNCHANGED cr_imm
             ELSE IF ~ patch.ok THEN CrReturn("EINVAL") /\ UNCHANGED cr_imm
             ELSE cr_imm' = [cr_imm EXCEPT ![cr_i] = patch.imm] /\ cr_i' = cr_i + 1 /\ UNCHANGED <<cr_pc, cr_ret>>

RelocField ==
  /\ cr_pc = "relo" /\ cr_i <= Len(cr_obj.relos)
  /\ LET relo == cr_obj.relos[cr_i]
     IN \/ ~ relo.prog /\ CrReturn("EINVAL") /\ UNCHANGED <<cr_cache, cr_imm, cr_faults>>
        \/ relo.prog /\ UNCHANGED cr_faults /\ \E garbage \in {0, 1} : bpf_core_reloc_field(relo, garbage)
        \/ /\ relo.prog /\ cr_cache[relo.type] = NoCands /\ cr_faults < MaxCoreFaults
           /\ cr_faults' = cr_faults + 1 /\ CrReturn("ENOMEM") /\ UNCHANGED <<cr_cache, cr_imm>>
  /\ UNCHANGED <<cr_obj, cr_relaxed>>

RelocEnd ==
  /\ cr_pc = "relo" /\ cr_i > Len(cr_obj.relos) /\ CrReturn("0")
  /\ UNCHANGED <<cr_obj, cr_relaxed, cr_cache, cr_imm, cr_faults>>

CrNext == CoreStart \/ RelocField \/ RelocEnd

CrSpec == CrInit /\ [][CrNext]_crVars

----------------------------------------------------------------------------
(* A reference: where a type has the field of a path of names.  *)

RECURSIVE Offsets(_, _, _), Places(_, _, _, _)
\* The members called name, those of anonymous members included: <<offset, member>>.
Offsets(types, id, name) ==
  LET t == types[skip_mods_and_typedefs(types, id)]
      ms == IF t.kind \in CoreComposites THEN ToSet(t.members) ELSE {}
  IN {<<m.off, m>> : m \in {m \in ms : m.name = name}} \cup
     UNION {{<<m.off + o[1], o[2]>> : o \in Offsets(types, m.type, name)} : m \in {m \in ms : m.name = ""}}
\* Where the rest of a path leads, as [at, bits], bits 0 for what is no bit-field.
Places(types, id, accs, bits) ==
  LET t == types[skip_mods_and_typedefs(types, id)]
      acc == Head(accs)
      later(off, places) == {[p EXCEPT !.at = @ + off] : p \in places}
  IN IF accs = <<>> THEN {[at |-> 0, bits |-> bits]}
     ELSE IF acc.name # ""
     THEN UNION {later(o[1], Places(types, o[2].type, Tail(accs), o[2].bits)) : o \in Offsets(types, id, acc.name)}
     ELSE IF t.kind # "array" \/ acc.idx >= t.nelems THEN {}
     ELSE later(acc.idx * CoreSize(types, t.type) * 8, Places(types, t.type, Tail(accs), 0))
LocalAccs(relo) == bpf_core_spec_parse(cr_obj.local, relo.type, relo.path).accs
FieldsIn(c, relo) ==
  LET accs == LocalAccs(relo)
  IN {[p EXCEPT !.at = @ + Head(accs).idx * CoreSize(cr_obj.targ, c) * 8] : p \in Places(cr_obj.targ, c, Tail(accs), 0)}

IsPatched(k) == k < cr_i
SameName(type) == {c \in DOMAIN cr_obj.targ : cr_obj.targ[c].name = cr_obj.local[type].name}

\* One type of the kernel explains all that was relocated for one type of the program: the
\* offsets that were patched in are those of its fields (of a bit-field, of a word that has it).
OneTargetFits ==
  \A type \in {cr_obj.relos[k].type : k \in DOMAIN cr_obj.relos} :
    LET offsets == {k \in DOMAIN cr_obj.relos :
                     /\ IsPatched(k) /\ cr_imm[k] # Missing
                     /\ cr_obj.relos[k].type = type /\ cr_obj.relos[k].kind = "byte_offset"}
    IN offsets # {} => \E c \in SameName(type) : \A k \in offsets : \E f \in FieldsIn(c, cr_obj.relos[k]) :
         IF f.bits = 0 THEN cr_imm[k] * 8 = f.at ELSE f.at - cr_imm[k] * 8 \in 0 .. 63

\* A bit-field that is read as its four relocations say (load, shift left, shift right) gives
\* exactly its bits: bit j of the result is bit j of the field, and behind its bits there are 0s.
\* Big-endian, bits are counted from the highest, of the word and of the field.
ReadKinds == <<"byte_offset", "byte_size", "lshift", "rshift">>
ReadsField(off, sz, l, r, f) ==
  \A j \in 0 .. 63 :
    LET i == j + r - l \* the bit of the loaded word
        Counted(bit, bits) == IF cr_obj.little THEN bit ELSE bits - 1 - bit
    IN IF j < f.bits
       THEN /\ j + r < 64 /\ i \in 0 .. sz * 8 - 1
            /\ off * 8 + Counted(i, sz * 8) = f.at + Counted(j, f.bits)
       ELSE j + r >= 64
FieldBitsAreRead ==
  \A k \in DOMAIN cr_obj.relos :
    LET relo == cr_obj.relos[k]
    IN /\ IsPatched(k + 3) /\ cr_imm[k] # Missing
       /\ \A i \in 1 .. 4 : cr_obj.relos[k + i - 1] = [relo EXCEPT !.kind = ReadKinds[i], !.imm = cr_obj.relos[k + i - 1].imm]
       /\ \A c \in SameName(relo.type) : \A f \in FieldsIn(c, relo) : f.bits > 0
       => \E c \in SameName(relo.type) : \E f \in FieldsIn(c, relo) :
            ReadsField(cr_imm[k], cr_imm[k + 1], cr_imm[k + 2], cr_imm[k + 3], f)

\* A program that asks whether a field exists before it reads it is told the same by both
\* relocations, in whatever order they and others come.
ExistsAgrees ==
  \A j, k \in DOMAIN cr_obj.relos :
    LET asks == cr_obj.relos[j] reads == cr_obj.relos[k]
    IN IsPatched(j) /\ IsPatched(k) /\ asks.kind = "exists" /\ reads.kind # "exists"
       /\ asks.type = reads.type /\ asks.path = reads.path => (cr_imm[j] = 1 <=> cr_imm[k] # Missing)

\* A program that bpf_core_reloc_fields has patched reads the fields that its source names.
FieldsAreFound == OneTargetFits /\ FieldBitsAreRead /\ ExistsAgrees
=============================================================================
