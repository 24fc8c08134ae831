------------------------------ MODULE BtfDedup ------------------------------
(***************************************************************************)
(* btf__dedup: the type descriptors of several compilation units are       *)
(* reduced to one descriptor per type.  A type is numbered by its place;   *)
(* 0 is void.  The algorithm fills map, from each type to the type that    *)
(* represents it, in three passes (primitive types, structs, references),  *)
(* then removes what is not its own representative and renumbers the rest. *)
(*                                                                         *)
(* A descriptor is [kind, name, extra, names, refs]: extra stands for the  *)
(* size, encoding, number of elements or kind flag, names for the members, *)
(* enumerators or parameters, and refs for the types it refers to (of a    *)
(* func_proto the first is the result; of an array the second the index).  *)
(***************************************************************************)
EXTENDS Integers, Sequences, FiniteSets, SequencesExt

CONSTANT Btfs \* the type sections to deduplicate: sequences of descriptors

VARIABLES
  dd_in,      \* history: the descriptors before
  dd_types,   \* the descriptors
  dd_map,     \* btf_dedup.map
  dd_table,   \* btf_dedup.dedup_table: pairs of a hash and a type
  dd_new,     \* the new numbers, once the types are compacted (hypot_map is reused)
  dd_pc,      \* the pass
  dd_i,       \* the type it is at
  dd_ret,     \* what btf__dedup returned
  dd_resolve, \* ~ opts.dont_resolve_fwds
  dd_collide  \* all signature hashes are the same

ddVars == <<dd_in, dd_types, dd_map, dd_table, dd_new, dd_pc, dd_i, dd_ret, dd_resolve, dd_collide>>

UNPROCESSED == -1
IN_PROGRESS == -2
Void == [kind |-> "void", name |-> "", extra |-> "", names |-> <<>>, refs |-> <<>>]
Type(types, id) == IF id = 0 THEN Void ELSE types[id]
Aggregates == {"struct", "union"}
References == {"const", "volatile", "restrict", "ptr", "typedef", "func", "array", "func_proto"}

\* btf_dedup_new.
DdStart ==
  /\ dd_types = dd_in
  /\ dd_map = [id \in 0 .. Len(dd_in) |->
                 IF id = 0 \/ Type(dd_in, id).kind \in {"var", "datasec"} THEN id ELSE UNPROCESSED]
  /\ dd_table = {} /\ dd_new = <<>> /\ dd_pc = "prim" /\ dd_i = 1 /\ dd_ret = "none"

DdInit ==
  /\ dd_in \in Btfs /\ dd_resolve \in BOOLEAN /\ dd_collide \in BOOLEAN
  /\ DdStart

----------------------------------------------------------------------------
(* Comparing descriptors. *)

\* What is hashed of a type: for structs not the types they refer to, for enums not the
\* enumerators, so that a forward declaration has the hash of its enum.
SigHash(t) ==
  CASE dd_collide -> <<>>
    [] t.kind = "enum" -> <<t.kind, t.name, t.extra>>
    [] t.kind \in Aggregates -> <<t.kind, t.name, t.extra, t.names>>
    [] OTHER -> <<t.kind, t.name, t.extra, t.names, t.refs>>

\* btf_equal_common, btf_equal_int, btf_equal_enum, btf_equal_array, btf_equal_fnproto.
EqualTypes(t, u) == t = u
\* btf_shallow_equal_struct, btf_compat_array, btf_compat_fnproto: all but the referred types.
ShallowEqual(t, u) ==
  t.kind = u.kind /\ t.name = u.name /\ t.extra = u.extra /\ t.names = u.names /\ Len(t.refs) = Len(u.refs)
btf_is_enum_fwd(t) == t.kind = "enum" /\ t.names = <<>>
btf_compat_enum(t, u) ==
  IF ~ btf_is_enum_fwd(t) /\ ~ btf_is_enum_fwd(u) THEN EqualTypes(t, u)
  ELSE t.kind = u.kind /\ t.name = u.name /\ t.extra = u.extra

----------------------------------------------------------------------------
(* Following the map. *)

is_type_mapped(map, id) == map[id] >= 0

\* The code's loop has no bound; here it takes at most as many steps as there are types.
RECURSIVE Follow(_, _, _)
Follow(map, id, steps) ==
  IF steps = 0 \/ ~ is_type_mapped(map, id) \/ map[id] = id THEN id ELSE Follow(map, map[id], steps - 1)
resolve_type_id(map, id) == Follow(map, id, Cardinality(DOMAIN map))

\* A forward declaration is followed when it leads to a struct or union.
resolve_fwd_id(types, map, id) ==
  LET real == resolve_type_id(map, id)
  IN IF Type(types, id).kind = "fwd" /\ Type(types, real).kind # "fwd" THEN real ELSE id

----------------------------------------------------------------------------
(* The equivalence of two type graphs: a walk of both, side by side, that  *)
(* collects in hypot the pairs <<canonical, candidate>> it supposes.       *)

RECURSIVE btf_dedup_is_equiv(_, _, _), AllEquiv(_, _, _)

\* The types a descriptor refers to, in the order the walk takes them.
WalkOrder(t) == IF t.kind = "array" THEN Reverse(t.refs) ELSE t.refs

AllEquiv(cands, canons, hypot) ==
  IF cands = <<>> THEN [eq |-> TRUE, hypot |-> hypot]
  ELSE LET first == btf_dedup_is_equiv(Head(cands), Head(canons), hypot)
       IN IF first.eq THEN AllEquiv(Tail(cands), Tail(canons), first.hypot) ELSE first

\* A forward declaration stands for a struct or union of its name.
KindsMatch(t, u) ==
  dd_resolve /\ ((t.kind = "fwd" /\ t.extra = u.kind) \/ (u.kind = "fwd" /\ u.extra = t.kind))

btf_dedup_is_equiv(cand_id, canon, hypot) ==
  IF resolve_type_id(dd_map, cand_id) = resolve_type_id(dd_map, canon)
  THEN [eq |-> TRUE, hypot |-> hypot]
  ELSE LET canon_id == resolve_fwd_id(dd_types, dd_map, canon)
           supposed == {k \in DOMAIN hypot : hypot[k][1] = canon_id}
           now == Append(hypot, <<canon_id, cand_id>>)
           t == Type(dd_types, cand_id)
           u == Type(dd_types, canon_id)
       IN CASE supposed # {} -> [eq |-> \E k \in supposed : hypot[k][2] = cand_id, hypot |-> hypot]
            [] t.name # u.name -> [eq |-> FALSE, hypot |-> now]
            [] t.kind # u.kind -> [eq |-> KindsMatch(t, u), hypot |-> now]
            [] t.kind = "enum" -> [eq |-> IF dd_resolve THEN btf_compat_enum(t, u) ELSE EqualTypes(t, u),
                                   hypot |-> now]
            [] t.kind \in {"int", "fwd"} -> [eq |-> EqualTypes(t, u), hypot |-> now]
            [] OTHER -> IF ShallowEqual(t, u) THEN AllEquiv(WalkOrder(t), WalkOrder(u), now)
                        ELSE [eq |-> FALSE, hypot |-> now]

MergePair_CandOnly(pair, map) ==
  LET t_id == resolve_type_id(map, pair[2])
      c_id == resolve_type_id(map, pair[1])
      t_kind == Type(dd_types, t_id).kind
      c_kind == Type(dd_types, c_id).kind
  IN CASE t_kind = "fwd" /\ c_kind # "fwd" -> [map EXCEPT ![t_id] = c_id]
       [] t_kind \in Aggregates /\ c_kind # "fwd" /\ is_type_mapped(map, c_id) /\ ~ is_type_mapped(map, t_id)
            -> [map EXCEPT ![t_id] = c_id]
       [] OTHER -> map

\* One pair of the supposed correspondence: a forward declaration on either side is resolved;
\* a struct that has no representative yet gets that of its counterpart, if there is one.
MergePair(pair, map) ==
  LET t_id == resolve_type_id(map, pair[2])
      c_id == resolve_type_id(map, pair[1])
      t_kind == Type(dd_types, t_id).kind
      c_kind == Type(dd_types, c_id).kind
  IN CASE t_kind # "fwd" /\ c_kind = "fwd" -> [map EXCEPT ![c_id] = t_id]
       [] t_kind = "fwd" /\ c_kind # "fwd" -> [map EXCEPT ![t_id] = c_id]
       [] t_kind \in Aggregates /\ c_kind # "fwd" /\ is_type_mapped(map, c_id) /\ ~ is_type_mapped(map, t_id)
            -> [map EXCEPT ![t_id] = c_id]
       [] OTHER -> map

btf_dedup_merge_hypot_map(hypot, map) == FoldLeft(LAMBDA m, pair : MergePair(pair, m), map, hypot)

----------------------------------------------------------------------------
(* The passes. *)

DdAt(pc, i) == dd_pc' = pc /\ dd_i' = i
NrTypes == Len(dd_types)
\* The loops over the types.
PassOn(pc, next) == IF dd_i < NrTypes THEN DdAt(pc, dd_i + 1) ELSE DdAt(next, 1)
Candidates(h) == {p[2] : p \in {q \in dd_table : q[1] = h}}
Represents(map, id, new_id, h) ==
  /\ dd_map' = [map EXCEPT ![id] = new_id]
  /\ dd_table' = IF id = new_id THEN dd_table \cup {<<h, id>>} ELSE dd_table

\* The first of the candidates that fits, or the type itself.
FirstOf(fits, id) == IF fits = {} THEN {id} ELSE fits

\* Enums: the loop stops at an equal one, and for a forward declaration at a full one; a full
\* enum takes over the forward declarations met before that.
PrimEnum(id, t, h) ==
  LET stops == {c \in Candidates(h) :
                  \/ EqualTypes(t, dd_types[c])
                  \/ dd_resolve /\ btf_is_enum_fwd(t) /\ btf_compat_enum(t, dd_types[c])}
      fwds == {c \in Candidates(h) \ stops : dd_resolve /\ btf_compat_enum(t, dd_types[c])}
  IN \E met \in IF stops = {} THEN {fwds} ELSE SUBSET fwds : \E new_id \in FirstOf(stops, id) :
       Represents([c \in DOMAIN dd_map |-> IF c \in met THEN id ELSE dd_map[c]], id, new_id, h)

btf_dedup_prim_type ==
  /\ dd_pc = "prim"
  /\ LET t == dd_types[dd_i]
         h == SigHash(t)
     IN CASE t.kind = "enum" -> PrimEnum(dd_i, t, h)
          [] t.kind \in {"int", "fwd"} ->
               \E new_id \in FirstOf({c \in Candidates(h) : EqualTypes(t, dd_types[c])}, dd_i) :
                 Represents(dd_map, dd_i, new_id, h)
          [] OTHER -> UNCHANGED <<dd_map, dd_table>>
  /\ PassOn("prim", "struct")
  /\ UNCHANGED <<dd_in, dd_types, dd_new, dd_ret, dd_resolve, dd_collide>>

\* Only structs of the same shape are compared: a forward declaration in the same bucket is
\* equivalent too, and must not become the representative of what it is resolved to.
StructCandidates(t, h) == {c \in Candidates(h) : ShallowEqual(t, dd_types[c])}

btf_dedup_struct_type ==
  /\ dd_pc = "struct"
  /\ LET t == dd_types[dd_i]
         h == SigHash(t)
         equiv == {c \in StructCandidates(t, h) : btf_dedup_is_equiv(dd_i, c, <<>>).eq}
     IN IF is_type_mapped(dd_map, dd_i) \/ t.kind \notin Aggregates
        THEN UNCHANGED <<dd_map, dd_table>>
        ELSE \E new_id \in FirstOf(equiv, dd_i) :
               Represents(IF new_id = dd_i THEN dd_map
                          ELSE btf_dedup_merge_hypot_map(btf_dedup_is_equiv(dd_i, new_id, <<>>).hypot, dd_map),
                          dd_i, new_id, h)
  /\ PassOn("struct", "ref")
  /\ UNCHANGED <<dd_in, dd_types, dd_new, dd_ret, dd_resolve, dd_collide>>

RECURSIVE btf_dedup_ref_type(_, _), RefTypes(_, _, _)

\* The types that descriptor id refers to, from the k-th on, are deduplicated and renamed in it.
RefTypes(id, k, st) ==
  IF k > Len(st.types[id].refs) \/ st.err # "none" THEN st
  ELSE LET sub == btf_dedup_ref_type(st.types[id].refs[k], st)
       IN RefTypes(id, k + 1, [sub EXCEPT !.types[id].refs[k] = sub.id])

\* st is [map, types, table, err, id]; id is what the call returns.
btf_dedup_ref_type(id, st) ==
  CASE st.map[id] = IN_PROGRESS -> [st EXCEPT !.err = "ELOOP"]
    [] is_type_mapped(st.map, id) -> [st EXCEPT !.id = resolve_type_id(st.map, id)]
    [] OTHER ->
         LET sub == RefTypes(id, 1, [st EXCEPT !.map[id] = IN_PROGRESS])
             t == sub.types[id]
             h == SigHash(t)
             equal == {p[2] : p \in {q \in sub.table : q[1] = h /\ EqualTypes(t, sub.types[q[2]])}}
             new_id == IF equal = {} THEN id ELSE CHOOSE c \in equal : TRUE
         IN IF sub.err # "none" THEN sub
            ELSE [sub EXCEPT !.map[id] = new_id, !.id = new_id,
                             !.table = IF new_id = id THEN @ \cup {<<h, id>>} ELSE @]

btf_dedup_ref_types ==
  /\ dd_pc = "ref"
  /\ LET st == btf_dedup_ref_type(dd_i, [map |-> dd_map, types |-> dd_types, table |-> dd_table,
                                         err |-> "none", id |-> 0])
     IN /\ dd_map' = st.map /\ dd_types' = st.types /\ dd_table' = st.table
        /\ IF st.err # "none" THEN DdAt("done", 1) /\ dd_ret' = st.err
           ELSE PassOn("ref", "compact") /\ UNCHANGED dd_ret
  /\ UNCHANGED <<dd_in, dd_new, dd_resolve, dd_collide>>

\* The representatives, in their order, get the numbers from 1 on.
btf_dedup_compact_types ==
  /\ dd_pc = "compact"
  /\ LET kept == SelectSeq([id \in 1 .. NrTypes |-> id], LAMBDA id : dd_map[id] = id)
     IN /\ dd_types' = [k \in 1 .. Len(kept) |-> dd_types[kept[k]]]
        /\ dd_new' = [id \in 0 .. NrTypes |->
                        IF id = 0 THEN 0 ELSE IF dd_map[id] = id
                                              THEN CHOOSE k \in 1 .. Len(kept) : kept[k] = id ELSE UNPROCESSED]
  /\ DdAt("remap", 1)
  /\ UNCHANGED <<dd_in, dd_map, dd_table, dd_ret, dd_resolve, dd_collide>>

btf_dedup_remap_type_id(id) == dd_new[resolve_type_id(dd_map, id)]

btf_dedup_remap_types ==
  /\ dd_pc = "remap"
  /\ LET remapped == [k \in 1 .. NrTypes |->
                        [dd_types[k] EXCEPT !.refs = [r \in DOMAIN @ |-> btf_dedup_remap_type_id(@[r])]]]
         failed == \E k \in 1 .. NrTypes : UNPROCESSED \in Range(remapped[k].refs)
     IN IF failed THEN dd_ret' = "EINVAL" /\ UNCHANGED dd_types
        ELSE dd_ret' = "0" /\ dd_types' = remapped
  /\ DdAt("done", 1)
  /\ UNCHANGED <<dd_in, dd_map, dd_table, dd_new, dd_resolve, dd_collide>>

DdNext ==
  \/ btf_dedup_prim_type \/ btf_dedup_struct_type \/ btf_dedup_ref_types
  \/ btf_dedup_compact_types \/ btf_dedup_remap_types

DdSpec == DdInit /\ [][DdNext]_ddVars

----------------------------------------------------------------------------
\* Following the map from a type always ends at a type that represents itself or has no
\* representative yet: resolve_type_id, whose loop has no bound, returns, although forward
\* declarations and structs are mapped to each other in any order.
MapHasNoLoop ==
  \A id \in DOMAIN dd_map :
    LET end == resolve_type_id(dd_map, id) IN dd_map[end] = end \/ ~ is_type_mapped(dd_map, end)

\* No loop of references that a C program can have makes btf__dedup fail.
ThroughRefs(types, ids) ==
  ids \cup UNION {IF Type(types, r).kind \in References THEN Range(Type(types, r).refs) ELSE {} : r \in ids}
CanBeC(types) ==
  \A id \in 1 .. Len(types) :
    Type(types, id).kind \in References =>
      id \notin FoldLeft(LAMBDA ids, k : ThroughRefs(types, ids), Range(types[id].refs), types)
CIsDeduplicated == dd_pc = "done" /\ CanBeC(dd_in) => dd_ret = "0"

\* The new type that stands for an old one.
NewOf(id) == btf_dedup_remap_type_id(id)
StandsFor(new, old) ==
  /\ new.name = old.name
  /\ \/ ShallowEqual(new, old)
     \/ dd_resolve /\ old.kind = "fwd" /\ new.kind = old.extra
     \/ dd_resolve /\ old.kind = "enum" /\ btf_compat_enum(new, old)

\* "without any loss of information": every old type has a new one of the same kind, name, size
\* and members (or the struct or enum that its forward declaration stands for), and what the old
\* one refers to in each place is what the new one refers to there.  The graph of types, cycles
\* and all, is the same.
GraphIsPreserved ==
  dd_ret = "0" =>
    \A id \in 1 .. Len(dd_in) :
      LET old == dd_in[id]
          new == dd_types[NewOf(id)]
      IN /\ StandsFor(new, old)
         /\ old.kind = new.kind => \A k \in DOMAIN old.refs : new.refs[k] = NewOf(old.refs[k])

\* "each unique type is represented by single BTF type descriptor": no two descriptors are left
\* that say the same of the same types.
NothingTwice ==
  dd_ret = "0" =>
    \A i, j \in 1 .. Len(dd_types) :
      i # j /\ dd_types[i].kind \notin {"var", "datasec"} => dd_types[i] # dd_types[j]

\* btf__dedup ends, and leaves each type once, in the same graph.
TypesAreDeduplicated == MapHasNoLoop /\ CIsDeduplicated /\ GraphIsPreserved /\ NothingTwice
=============================================================================
