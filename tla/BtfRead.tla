------------------------------- MODULE BtfRead ------------------------------
(***************************************************************************)
(* A .BTF section is read (btf__new) and its types are looked up: by name, *)
(* through typedefs and modifiers, and for their size.  A descriptor is    *)
(* [kind, name, type, n, vlen]: n is a size or a number of elements.       *)
(* Lengths and offsets are in words; offsets count from the end of the     *)
(* header.                                                                 *)
(***************************************************************************)
EXTENDS Integers, Sequences, FiniteSets, Sums

CONSTANTS
  BtfSections,       \* type sections: sequences of descriptors
  TypeNames,         \* names to look for
  UINT32_MAX,        \* sizes are at most this
  MAX_RESOLVE_DEPTH, \* references followed before giving up
  TypesGrow,         \* places the index of types grows by (16)
  MaxBtFaults        \* bound: allocations that fail

ASSUME BtfReadAssumption ==
  /\ UINT32_MAX \in Nat \ {0} /\ MAX_RESOLVE_DEPTH \in Nat \ {0} /\ TypesGrow \in Nat \ {0, 1}
  /\ MaxBtFaults \in Nat
  /\ \A types \in BtfSections :
       types \in Seq([kind : STRING, name : STRING, type : Nat, n : Nat, vlen : Nat])

VARIABLES
  bt_data,   \* the file: [types, str_off, str_len, size, sound], str_off and str_len as the header says
  bt_types,  \* btf.types: the index, place k + 1 for type k
  bt_size,   \* btf.types_size
  bt_next,   \* next_type
  bt_pc, bt_ret,
  bt_strayed,\* history: a descriptor was read where there is none
  bt_asked,  \* the question: [call, id, name]
  bt_answer, \* its answer, an error if negative
  bt_faults

btVars == <<bt_data, bt_types, bt_size, bt_next, bt_pc, bt_ret, bt_strayed, bt_asked, bt_answer, bt_faults>>

VoidType == [kind |-> "void", name |-> "", type |-> 0, n |-> 0, vlen |-> 0]
minus_EINVAL == -22
minus_E2BIG == -7
minus_ENOENT == -2
Nothing == [call |-> "none", id |-> 0, name |-> ""]

\* btf_type_size.
btf_type_size(t) ==
  IF t.kind \in {"fwd", "const", "volatile", "restrict", "ptr", "typedef", "func"} THEN 3
  ELSE IF t.kind \in {"int", "var"} THEN 4
  ELSE IF t.kind = "array" THEN 6
  ELSE IF t.kind \in {"enum", "func_proto"} THEN 3 + 2 * t.vlen
  ELSE IF t.kind \in {"struct", "union", "datasec"} THEN 3 + 3 * t.vlen
  ELSE -1

\* What a descriptor takes in the file: one of a kind that is not known, its common part.
DescLens(types) == [k \in DOMAIN types |-> IF btf_type_size(types[k]) < 0 THEN 3 ELSE btf_type_size(types[k])]
TypesLen(types) == Total(DescLens(types))

\* A sound header says where the strings are; another may be off by a word, or say that there
\* are more strings than data.
BtStart ==
  /\ bt_types = <<>> /\ bt_size = 0 /\ bt_next = 0 /\ bt_pc = "hdr" /\ bt_ret = "none"
  /\ bt_strayed = FALSE /\ bt_asked = Nothing /\ bt_answer = 0 /\ bt_faults = 0

BtInit ==
  /\ \E types \in BtfSections, off \in {-1, 0, 1}, more \in {0, 1} :
       bt_data = [types |-> types, str_off |-> TypesLen(types) + off, str_len |-> 2 + more,
                  size |-> TypesLen(types) + 2, sound |-> off = 0 /\ more = 0]
  /\ BtStart

BtFails == bt_faults < MaxBtFaults /\ bt_faults' = bt_faults + 1
BtFine == UNCHANGED bt_faults
BtReturn(ret) == bt_pc' = (IF ret = "0" THEN "ready" ELSE "done") /\ bt_ret' = ret

\* btf_parse_hdr and btf_parse_str_sec: the offsets must lie in the data, the types in front of
\* the strings.  The length of the strings is not compared with the data: their last byte may be
\* read behind it.
btf_parse_hdr ==
  /\ bt_pc = "hdr"
  /\ LET meta_left == bt_data.size
         refused == meta_left = 0 \/ meta_left < bt_data.str_off \/ 0 >= bt_data.str_off \/ bt_data.str_len = 0
         behind == bt_data.str_off + bt_data.str_len > bt_data.size
     IN \/ refused /\ BtFine /\ BtReturn("EINVAL") /\ UNCHANGED bt_strayed
        \/ ~ refused /\ BtFine /\ bt_pc' = "types" /\ bt_strayed' = behind /\ UNCHANGED bt_ret
        \/ ~ refused /\ behind /\ BtFine /\ BtReturn("EINVAL") /\ bt_strayed' = TRUE
        \/ BtFails /\ BtReturn("ENOMEM") /\ UNCHANGED bt_strayed
  /\ UNCHANGED <<bt_data, bt_types, bt_size, bt_next, bt_asked, bt_answer>>

\* btf_add_type: the index grows while there is a place left; the first time void is put in front.
btf_add_type(t) ==
  LET nr_types == IF bt_types = <<>> THEN 0 ELSE Len(bt_types) - 1
  IN /\ bt_size' = IF bt_size - nr_types < 2
                   THEN bt_size + (IF bt_size \div 4 > TypesGrow THEN bt_size \div 4 ELSE TypesGrow)
                   ELSE bt_size
     /\ bt_types' = (IF bt_types = <<>> THEN <<VoidType>> ELSE bt_types) \o <<t>>

\* The descriptor at next_type: behind the last one it is made of whatever bytes are there.
DescriptorsAt(next) ==
  LET starts == {k \in DOMAIN bt_data.types : Sums(DescLens(bt_data.types))[k - 1] = next}
  IN IF starts # {} THEN {bt_data.types[k] : k \in starts}
     ELSE {VoidType, [VoidType EXCEPT !.kind = "ptr"]}

MoreTypes == bt_next < bt_data.str_off

btf_parse_type_sec ==
  /\ bt_pc = "types"
  /\ IF ~ MoreTypes THEN BtFine /\ BtReturn("0") /\ UNCHANGED <<bt_types, bt_size, bt_next, bt_strayed>>
     ELSE \E t \in DescriptorsAt(bt_next) :
            /\ bt_strayed' = (bt_strayed \/ bt_next >= TypesLen(bt_data.types))
            /\ \/ btf_type_size(t) < 0 /\ BtFine /\ BtReturn("EINVAL") /\ UNCHANGED <<bt_types, bt_size, bt_next>>
               \/ /\ btf_type_size(t) >= 0 /\ BtFine
                  /\ bt_next' = bt_next + btf_type_size(t)
                  /\ btf_add_type(t) /\ UNCHANGED <<bt_pc, bt_ret>>
               \/ btf_type_size(t) >= 0 /\ BtFails /\ BtReturn("ENOMEM") /\ UNCHANGED <<bt_types, bt_size, bt_next>>
  /\ UNCHANGED <<bt_data, bt_asked, bt_answer>>

----------------------------------------------------------------------------
(* The questions. *)

NULL == [kind |-> "null", name |-> "", type |-> 0, n |-> 0, vlen |-> 0]
btf__type_by_id(types, id) == IF id >= Len(types) THEN NULL ELSE types[id + 1]
btf_type_is_void_or_null(t) == t.kind \in {"null", "void", "fwd"}
Sized == {"int", "struct", "union", "enum", "datasec"}
Modifiers == {"typedef", "volatile", "const", "restrict", "var"}

ElementsOverflow_Never(nelems, more) == FALSE
\* nelems && array->nelems > UINT32_MAX / nelems, and the same of the size.
ElementsOverflow(nelems, more) == nelems # 0 /\ more > UINT32_MAX \div nelems

\* One turn of the loop of btf__resolve_size; where no turn ends it, ret is what it is at last.
SizeTurn(types, s) ==
  LET t == btf__type_by_id(types, s.id)
      size == IF t.kind = "ptr" THEN 8 ELSE t.n
      return(ret) == [s EXCEPT !.done = TRUE, !.ret = ret]
  IN IF s.done THEN s
     ELSE IF t.kind \in Sized \cup {"ptr"}
     THEN return(IF ElementsOverflow(s.nelems, size) THEN minus_E2BIG ELSE s.nelems * size)
     ELSE IF t.kind \in Modifiers THEN [s EXCEPT !.id = t.type]
     ELSE IF t.kind # "array" THEN return(minus_EINVAL)
     ELSE IF ElementsOverflow(s.nelems, t.n) THEN return(minus_E2BIG)
     ELSE [s EXCEPT !.id = t.type, !.nelems = (@ * t.n) % (UINT32_MAX + 1)]
btf__resolve_size(types, id) ==
  LET after[i \in 0 .. MAX_RESOLVE_DEPTH] ==
        IF i = 0 THEN [id |-> id, nelems |-> 1, done |-> FALSE, ret |-> minus_EINVAL] ELSE SizeTurn(types, after[i - 1])
  IN after[MAX_RESOLVE_DEPTH].ret

\* The loop of btf__resolve_type ends at a type that is no modifier.
TypeTurn(types, s) ==
  LET t == btf__type_by_id(types, s.id)
  IN IF t.kind \in Modifiers THEN [id |-> t.type, depth |-> s.depth + 1] ELSE s
btf__resolve_type(types, id) ==
  LET after[i \in 0 .. MAX_RESOLVE_DEPTH] ==
        IF i = 0 THEN [id |-> id, depth |-> 0] ELSE TypeTurn(types, after[i - 1])
      end == after[MAX_RESOLVE_DEPTH]
  IN IF end.depth = MAX_RESOLVE_DEPTH \/ btf_type_is_void_or_null(btf__type_by_id(types, end.id)) THEN minus_EINVAL ELSE end.id

\* btf__find_by_name: the first type of that name; "void" is number 0.
btf__find_by_name(name) ==
  LET named == {id \in 1 .. Len(bt_types) - 1 : bt_types[id + 1].name = name}
  IN IF name = "void" THEN 0
     ELSE IF named = {} THEN minus_ENOENT ELSE CHOOSE id \in named : \A other \in named : id <= other

Answer(call, id, name) ==
  /\ bt_pc = "ready" /\ bt_asked = Nothing
  /\ bt_asked' = [call |-> call, id |-> id, name |-> name]
  /\ bt_answer' = IF call = "size" THEN btf__resolve_size(bt_types, id)
                  ELSE IF call = "type" THEN btf__resolve_type(bt_types, id) ELSE btf__find_by_name(name)
  /\ UNCHANGED <<bt_data, bt_types, bt_size, bt_next, bt_pc, bt_ret, bt_strayed, bt_faults>>

BtNext ==
  \/ btf_parse_hdr \/ btf_parse_type_sec
  \/ \E call \in {"size", "type"}, id \in 0 .. Len(bt_data.types) + 1 : Answer(call, id, "")
  \/ \E name \in TypeNames : Answer("name", 0, name)

BtSpec == BtInit /\ [][BtNext]_btVars

----------------------------------------------------------------------------
\* With a sound header nothing is read as a type that is none, and every type is in the index,
\* which always has a place for the next: the growing of the index and the end of the loop agree.
SoundIsRead ==
  /\ bt_data.sound => ~ bt_strayed
  /\ bt_types # <<>> => Len(bt_types) <= bt_size
  /\ bt_data.sound /\ bt_ret = "0" => bt_types = <<VoidType>> \o bt_data.types

\* Where k references lead, and through arrays of how many elements in all.
LeadsOn(t) == t.kind \in Modifiers \cup {"array"}
Path(types, id) ==
  LET path[k \in 0 .. MAX_RESOLVE_DEPTH] ==
        IF k = 0 THEN [id |-> id, elems |-> 1]
        ELSE LET t == btf__type_by_id(types, path[k - 1].id)
             IN [id |-> t.type, elems |-> path[k - 1].elems * (IF t.kind = "array" THEN t.n ELSE 1)]
  IN path

\* A type has the size of what is behind k references.
HasSizeAt(types, id, k) ==
  /\ btf__type_by_id(types, Path(types, id)[k].id).kind \in Sized \cup {"ptr"}
  /\ \A j \in 0 .. k - 1 : LeadsOn(btf__type_by_id(types, Path(types, id)[j].id))
ExactSize(types, id, k) ==
  LET t == btf__type_by_id(types, Path(types, id)[k].id) IN Path(types, id)[k].elems * (IF t.kind = "ptr" THEN 8 ELSE t.n)

\* btf__resolve_size returns the exact size as C has it whenever it returns one: the product never
\* wraps, for any order of the dimensions and with zeros among them; and a type whose size is
\* within the depth and fits at every step gets it.
SizesAreExact ==
  bt_asked.call = "size" =>
    LET id == bt_asked.id
        within == {k \in 0 .. MAX_RESOLVE_DEPTH - 1 : HasSizeAt(bt_types, id, k)}
    IN /\ \/ bt_answer \in {minus_EINVAL, minus_E2BIG}
          \/ bt_answer >= 0 /\ \E k \in within : bt_answer = ExactSize(bt_types, id, k)
       /\ \A k \in within :
            /\ bt_answer # minus_EINVAL
            /\ (\A j \in 0 .. k : Path(bt_types, id)[j].elems <= UINT32_MAX) /\ ExactSize(bt_types, id, k) <= UINT32_MAX
                 => bt_answer # minus_E2BIG

\* btf__resolve_type and btf__resolve_size follow the same references: what the first resolves to
\* has the size the second gives; a chain that runs in a circle is refused by both.
ResolvesAgree ==
  bt_asked.call = "type" /\ bt_answer # minus_EINVAL =>
    /\ btf__type_by_id(bt_types, bt_answer).kind \notin Modifiers \cup {"void", "fwd", "null"}
    /\ \/ btf__resolve_size(bt_types, bt_answer) = btf__resolve_size(bt_types, bt_asked.id)
       \/ btf__resolve_size(bt_types, bt_asked.id) = minus_EINVAL

\* What btf__new indexes are the types of the file, and the answers about them are those of C.
TypesAreRead == SoundIsRead /\ SizesAreExact /\ ResolvesAgree
=============================================================================
