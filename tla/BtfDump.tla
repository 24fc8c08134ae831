------------------------------ MODULE BtfDump -------------------------------
(***************************************************************************)
(* btf_dump: the types of a BTF section written out as C.  Each call of    *)
(* btf_dump__dump_type orders a type and what it depends on (a depth-first *)
(* walk that queues definitions) and emits the queue, with the forward     *)
(* declarations the definitions need.  What has been ordered, emitted and  *)
(* named is kept from call to call.                                        *)
(*                                                                         *)
(* A descriptor is [kind, name, names, refs] as in BtfDedup (name "" when  *)
(* anonymous).  What is printed is a sequence of items: [what, id, name,   *)
(* uses, whole], uses being the named types the item's text mentions,      *)
(* strong when C needs their definition there; it is not whole when a      *)
(* declaration in it was given up.                                         *)
(***************************************************************************)
EXTENDS Integers, Sequences, FiniteSets, FiniteSetsExt, SequencesExt, TLC

CONSTANTS
  DumpBtfs,      \* the type sections
  QueueStep,     \* the least capacity of the queue and of the declaration stack (16 in the code)
  MaxName,       \* the longest name made up by the dump (255)
  MaxDumps,      \* calls of btf_dump__dump_type
  MaxDumpFaults, \* calls in which an allocation fails, or moves the stack under a declaration
  MaxAllocs      \* the allocations of a call that may be the one to fail

VARIABLES
  bd_types,   \* the section
  bd_d,       \* struct btf_dump
  bd_calls,   \* history: each call [id, ret]
  bd_lost,    \* history: the types that calls which failed had begun to order
  bd_faults

bdVars == <<bd_types, bd_d, bd_calls, bd_lost, bd_faults>>

DumpType(id) == IF id = 0 THEN [kind |-> "unkn", name |-> "", names |-> <<>>, refs |-> <<>>] ELSE bd_types[id]
DumpIds == 0 .. Len(bd_types)
Composites == {"struct", "union"}
Mods == {"const", "volatile", "restrict"}
Named(id) == DumpType(id).name # ""

\* btf_dump__new; the per-type states come with the first dump.
BdInit ==
  /\ bd_types \in DumpBtfs
  /\ bd_d = [states |-> FALSE, cached |-> FALSE, crashed |-> FALSE,
             order |-> [id \in DumpIds |-> "no"], emit |-> [id \in DumpIds |-> "no"],
             fwd_emitted |-> {}, referenced |-> {}, names |-> [id \in DumpIds |-> ""],
             queue |-> <<>>, cap |-> 0, stack |-> 0, stack_cap |-> 0, allocs |-> 0, moves |-> FALSE,
             type_names |-> <<>>, ident_names |-> <<>>, unsure |-> {}, enumerators |-> <<>>,
             torn |-> FALSE, out |-> <<>>]
  /\ bd_calls = <<>> /\ bd_lost = {} /\ bd_faults = 0

----------------------------------------------------------------------------
(* First pass: ordering. *)

\* btf_dump_mark_referenced; the result of a function is not marked.
MarkReferenced ==
  UNION {LET t == DumpType(id)
         IN IF t.kind = "func_proto" THEN ToSet(Tail(t.refs)) ELSE ToSet(t.refs) : id \in DumpIds}

Ret(d, ret) == [d |-> d, ret |-> ret]
ELOOP == -40
ENOMEM == -12
EINVAL == -22
Crash == 1  \* the call does not return

\* An allocation: that of a call fails before which d.allocs others have been made.
Fails(d) == d.allocs = 0
Allocated(d) == [d EXCEPT !.allocs = @ - 1]
GrownBy(cap) == Max({QueueStep, (cap * 3) \div 2})

\* btf_dump_add_emit_queue_id.
btf_dump_add_emit_queue_id(d, id) ==
  CASE Len(d.queue) < d.cap -> Ret([d EXCEPT !.queue = Append(@, id)], 0)
    [] Len(d.queue) >= d.cap /\ Fails(d) -> Ret(Allocated(d), ENOMEM)
    [] OTHER -> Ret([Allocated(d) EXCEPT !.queue = Append(@, id), !.cap = GrownBy(@)], 0)

\* The end of ordering a type that may be a definition.
Defines(d, id, queued) ==
  LET q == IF queued THEN btf_dump_add_emit_queue_id(d, id) ELSE Ret(d, 0)
  IN IF q.ret < 0 THEN q ELSE Ret([q.d EXCEPT !.order[id] = "ordered"], 1)

RECURSIVE btf_dump_order_type(_, _, _), OrderAll(_, _, _)

OrderAll(d, ids, through_ptr) ==
  IF ids = <<>> THEN Ret(d, 0)
  ELSE LET first == btf_dump_order_type(d, Head(ids), through_ptr)
           rest == OrderAll(first.d, Tail(ids), through_ptr)
       IN IF first.ret < 0 THEN first
          ELSE IF rest.ret < 0 THEN rest
          ELSE Ret(rest.d, IF first.ret > 0 \/ rest.ret > 0 THEN 1 ELSE 0)

\* A loop is accepted where a forward declaration can break it.
Breakable(id, through_ptr) == DumpType(id).kind \in Composites /\ through_ptr /\ Named(id)

OrderTypedef(d, id, through_ptr) ==
  LET to == btf_dump_order_type(d, DumpType(id).refs[1], through_ptr)
  IN IF to.ret < 0 THEN to
     ELSE IF through_ptr /\ to.ret = 0 THEN Ret(to.d, 0)
     ELSE Defines(to.d, id, TRUE)

\* A named struct behind a pointer is not ordered at all; any other one after its members.
OrderComposite(d, id, through_ptr) ==
  LET members == OrderAll([d EXCEPT !.order[id] = "ordering"], DumpType(id).refs, FALSE)
  IN IF through_ptr /\ Named(id) THEN Ret(d, 0)
     ELSE IF members.ret < 0 THEN members
     ELSE Defines(members.d, id, Named(id))

\* 1 for a strong link, 0 for a weak one, below 0 for an error.
btf_dump_order_type(d, id, through_ptr) ==
  LET t == DumpType(id)
  IN CASE d.order[id] = "ordered" -> Ret(d, 1)
       [] d.order[id] = "ordering" -> Ret(d, IF Breakable(id, through_ptr) THEN 0 ELSE ELOOP)
       [] OTHER ->
          CASE t.kind = "ptr" -> LET to == btf_dump_order_type(d, t.refs[1], TRUE)
                                 IN Ret([to.d EXCEPT !.order[id] = "ordered"], to.ret)
            [] t.kind \in Mods \cup {"array"} -> btf_dump_order_type(d, t.refs[1], through_ptr)
            [] t.kind \in Composites -> OrderComposite(d, id, through_ptr)
            [] t.kind \in {"enum", "fwd"} -> Defines(d, id, Named(id) \/ id \notin d.referenced)
            [] t.kind = "typedef" -> OrderTypedef(d, id, through_ptr)
            [] t.kind = "func_proto" -> OrderAll(d, t.refs, through_ptr)
            [] t.kind \in {"int", "func", "var", "datasec"} -> Ret([d EXCEPT !.order[id] = "ordered"], 0)
            [] OTHER -> Ret(d, EINVAL)

----------------------------------------------------------------------------
(* Names. *)

Suffixed(orig, dup) == IF dup > 1 THEN orig \o "___" \o ToString(dup) ELSE orig
Cut(name) == IF Len(name) > MaxName THEN SubSeq(name, 1, MaxName) ELSE name

\* btf_dump_name_dups, in the names of types or of identifiers: [d, dup].  Where the map has no
\* memory for a new name the occurrence goes uncounted.
NameDups(d, space, orig) ==
  LET before == Cardinality({k \in DOMAIN d[space] : d[space][k] = orig})
  IN [dup |-> before + 1,
      d |-> CASE before > 0 -> [d EXCEPT ![space] = Append(@, orig)]
              [] before = 0 /\ Fails(d) -> [Allocated(d) EXCEPT !.unsure = @ \cup {orig}]
              [] OTHER -> [Allocated(d) EXCEPT ![space] = Append(@, orig)]]

\* btf_dump_resolve_name: a type keeps the name it is given first, its own if there is no memory
\* for another.
ResolveName(d, id) ==
  LET orig == DumpType(id).name
      dups == NameDups(d, IF DumpType(id).kind = "typedef" THEN "ident_names" ELSE "type_names", orig)
      name == Cut(Suffixed(orig, dups.dup))
  IN CASE orig = "" \/ d.names[id] # "" -> d
       [] orig # "" /\ d.names[id] = "" /\ ~ d.cached -> [d EXCEPT !.crashed = TRUE]
       [] OTHER -> IF dups.dup = 1 THEN [dups.d EXCEPT !.names[id] = orig]
                   ELSE IF Fails(dups.d)
                   THEN [Allocated(dups.d) EXCEPT !.names[id] = orig, !.unsure = @ \cup {orig}]
                   ELSE [Allocated(dups.d) EXCEPT !.names[id] = name]

\* btf_dump_emit_enum_def's enumerators: each printing of one is an occurrence of its name.
Enumerators(d, id) ==
  FoldLeft(LAMBDA e, orig :
             LET dups == NameDups(e, "ident_names", orig)
             IN [dups.d EXCEPT !.enumerators = Append(@, [orig |-> orig, name |-> Suffixed(orig, dups.dup)])],
           d, DumpType(id).names)

----------------------------------------------------------------------------
(* Second pass: emitting. *)

\* A chain of types in a declaration: its length and end, whether there is a pointer or function
\* on the way, whether anything but modifiers is printed after its end, and the functions'
\* parameters, in the order they are printed, without a last void, which is printed as dots.
RECURSIVE Terminal(_), Direct(_), Parameters(_), ChainLen(_), GoesOn(_)
InChain(id) == DumpType(id).kind \in Mods \cup {"ptr", "array", "func_proto"}
Terminal(id) == IF InChain(id) THEN Terminal(DumpType(id).refs[1]) ELSE id
Direct(id) == InChain(id) => DumpType(id).kind \notin {"ptr", "func_proto"} /\ Direct(DumpType(id).refs[1])
ChainLen(id) == IF InChain(id) THEN 1 + ChainLen(DumpType(id).refs[1]) ELSE 1
GoesOn(id) == InChain(id) /\ (DumpType(id).kind \notin Mods \/ GoesOn(DumpType(id).refs[1]))
Typed(params) == IF params # <<>> /\ Last(params) = 0 THEN Front(params) ELSE params
Parameters(id) ==
  IF ~ InChain(id) THEN <<>>
  ELSE (IF DumpType(id).kind = "func_proto" THEN Typed(Tail(DumpType(id).refs)) ELSE <<>>)
       \o Parameters(DumpType(id).refs[1])

\* btf_dump_push_decl_stack_id for each of n types, until one cannot be pushed.
RECURSIVE Pushed(_, _)
Pushed(d, n) ==
  CASE n = 0 -> d
    [] n > 0 /\ d.stack < d.stack_cap -> Pushed([d EXCEPT !.stack = @ + 1], n - 1)
    [] n > 0 /\ d.stack >= d.stack_cap /\ Fails(d) -> Allocated(d)
    [] OTHER -> Pushed([Allocated(d) EXCEPT !.stack_cap = GrownBy(@)], n)

\* btf_dump_emit_type_decl and btf_dump_emit_type_chain: [d, uses].  An anonymous struct or enum
\* is printed where it is used, with its members.
RECURSIVE btf_dump_emit_type_decl(_, _, _), btf_dump_emit_type_chain(_, _, _), DeclAll(_, _, _)
DeclAll(d, ids, uses) ==
  IF ids = <<>> THEN [d |-> d, uses |-> uses]
  ELSE LET first == btf_dump_emit_type_decl(d, Head(ids), TRUE)
       IN DeclAll(first.d, Tail(ids), uses \cup first.uses)
btf_dump_emit_type_chain(d, end, strong) ==
  LET t == DumpType(end)
  IN CASE t.kind \in Composites /\ ~ Named(end) -> DeclAll(ResolveName(d, end), t.refs, {})
       [] t.kind = "enum" /\ ~ Named(end) -> [d |-> Enumerators(ResolveName(d, end), end), uses |-> {}]
       [] t.kind \in Composites \cup {"enum", "fwd", "typedef"} /\ (Named(end) \/ t.kind = "fwd") ->
          [d |-> ResolveName(d, end), uses |-> {[id |-> end, strong |-> strong]}]
       [] OTHER -> [d |-> d, uses |-> {}]
\* The declaration is given up when its chain cannot be pushed.  Its view of the stack is not
\* renewed: when declarations within it have moved the stack, what it goes on to read is freed.
btf_dump_emit_type_decl(d, id, member) ==
  LET pushed == Pushed(d, ChainLen(id))
      chain == btf_dump_emit_type_chain(pushed, Terminal(id), member /\ Direct(id))
      lost == d.moves /\ GoesOn(id) /\ chain.d.stack_cap # pushed.stack_cap
      params == DeclAll([chain.d EXCEPT !.crashed = @ \/ lost], Parameters(id), {})
  IN IF pushed.stack < d.stack + ChainLen(id)
     THEN [d |-> [pushed EXCEPT !.stack = d.stack, !.torn = TRUE], uses |-> {}]
     ELSE [d |-> [params.d EXCEPT !.stack = d.stack],
           uses |-> chain.uses \cup {[u EXCEPT !.strong = FALSE] : u \in params.uses}]

Item(d, what, id, uses) ==
  LET item == [what |-> what, id |-> id, name |-> d.names[id], uses |-> uses, whole |-> ~ d.torn]
  IN [d EXCEPT !.torn = FALSE, !.out = IF d.crashed THEN @ ELSE Append(@, item)]

\* btf_dump_emit_struct_fwd, btf_dump_emit_fwd_def.
EmitFwd(d, id) ==
  Item([ResolveName(d, id) EXCEPT !.fwd_emitted = @ \cup {id}], "fwd", id, {})
EmitStructDef(d, id) ==
  LET members == DeclAll(ResolveName(d, id), DumpType(id).refs, {}) IN Item(members.d, "def", id, members.uses)
EmitEnumDef(d, id) == Item(Enumerators(ResolveName(d, id), id), "def", id, {})
Blacklisted(id) == DumpType(id).name = "__builtin_va_list"
EmitTypedefDef(d, id) ==
  LET decl == btf_dump_emit_type_decl(ResolveName(d, id), DumpType(id).refs[1], FALSE)
  IN IF Blacklisted(id) THEN d ELSE Item(decl.d, "def", id, decl.uses)

\* A type that is met again while it is being emitted: a forward declaration, unless it is the
\* definition the reference stands in.
EmitAgain_NoFwd(d, id, cont_id) == d
EmitAgain(d, id, cont_id) ==
  LET t == DumpType(id)
  IN CASE t.kind \in Composites /\ id \notin d.fwd_emitted /\ id # cont_id /\ Named(id) -> EmitFwd(d, id)
       [] t.kind = "typedef" /\ id \notin d.fwd_emitted ->
          [EmitTypedefDef(d, id) EXCEPT !.fwd_emitted = @ \cup {id}]
       [] OTHER -> d

TypedefEnd(d, id) ==
  [(IF id \in d.fwd_emitted THEN d ELSE EmitTypedefDef(d, id)) EXCEPT !.emit[id] = "emitted"]

RECURSIVE btf_dump_emit_type(_, _, _), EmitAll(_, _, _)
EmitAll(d, ids, cont_id) ==
  IF ids = <<>> THEN d ELSE EmitAll(btf_dump_emit_type(d, Head(ids), cont_id), Tail(ids), cont_id)

CompositeEnd(d, id, top) ==
  IF top THEN [EmitStructDef(d, id) EXCEPT !.emit[id] = "emitted"] ELSE [d EXCEPT !.emit[id] = "no"]

\* Not at top level only what a definition that mentions the struct needs is emitted: for an
\* anonymous one what its members need, else its forward declaration.
EmitComposite(d, id, cont_id) ==
  LET t == DumpType(id)
      top == cont_id = 0
      started == [d EXCEPT !.emit[id] = "emitting"]
      needs == CASE top \/ ~ Named(id) -> EmitAll(started, t.refs, IF Named(id) THEN id ELSE cont_id)
                 [] ~ top /\ Named(id) /\ id \notin d.fwd_emitted /\ id # cont_id -> EmitFwd(started, id)
                 [] OTHER -> started
  IN CompositeEnd(needs, id, top)

btf_dump_emit_type(d, id, cont_id) ==
  LET t == DumpType(id)
  IN CASE d.emit[id] = "emitted" -> d
       [] d.emit[id] = "emitting" -> EmitAgain(d, id, cont_id)
       [] OTHER ->
          CASE t.kind = "int" -> [d EXCEPT !.emit[id] = "emitted"]
            [] t.kind = "enum" -> [(IF cont_id = 0 THEN EmitEnumDef(d, id) ELSE d) EXCEPT !.emit[id] = "emitted"]
            [] t.kind \in Mods \cup {"ptr", "array"} -> btf_dump_emit_type(d, t.refs[1], cont_id)
            [] t.kind = "fwd" -> [EmitFwd(d, id) EXCEPT !.emit[id] = "emitted"]
            [] t.kind = "typedef" ->
               TypedefEnd(btf_dump_emit_type([d EXCEPT !.emit[id] = "emitting"], t.refs[1], id), id)
            [] t.kind \in Composites -> EmitComposite(d, id, cont_id)
            [] t.kind = "func_proto" -> EmitAll(d, t.refs, cont_id)
            [] OTHER -> d

----------------------------------------------------------------------------
\* The per-type states: void needs no definition.  When the array of names cannot be allocated
\* the states stay, and no later call completes them.
WithStates(d) ==
  [d EXCEPT !.states = TRUE, !.cached = TRUE, !.order[0] = "ordered", !.emit[0] = "emitted",
            !.referenced = MarkReferenced]

\* btf_dump__dump_type, in which one allocation fails after some, or none.
NoFault == [after |-> -1, moves |-> FALSE]
Faults == {[after |-> n, moves |-> FALSE] : n \in 0 .. MaxAllocs - 1} \cup {[NoFault EXCEPT !.moves = TRUE]}

Emitted(d) == Ret(d, IF d.crashed THEN Crash ELSE 0)
EmitQueue(ordered) == IF ordered.ret < 0 THEN ordered ELSE Emitted(EmitAll(ordered.d, ordered.d.queue, 0))
DumpCall(id, fault) ==
  LET fresh == ~ bd_d.states
      d == [bd_d EXCEPT !.queue = <<>>, !.allocs = fault.after, !.moves = fault.moves]
      ready == IF fresh THEN WithStates([d EXCEPT !.allocs = @ - 2]) ELSE d
  IN CASE id \notin DumpIds -> Ret(bd_d, EINVAL)
       [] id \in DumpIds /\ fresh /\ fault.after = 0 -> Ret(Allocated(d), ENOMEM)
       [] id \in DumpIds /\ fresh /\ fault.after = 1 -> Ret(Allocated([d EXCEPT !.states = TRUE, !.allocs = 0]), ENOMEM)
       [] OTHER -> EmitQueue(btf_dump_order_type(ready, id, FALSE))

\* The types a type is made of, itself included.
RECURSIVE MadeOf(_)
MadeOf(ids) ==
  LET more == UNION {ToSet(DumpType(id).refs) : id \in ids}
  IN IF more \subseteq ids THEN ids ELSE MadeOf(ids \cup more)

btf_dump__dump_type(id) ==
  /\ Len(bd_calls) < MaxDumps /\ ~ bd_d.crashed
  /\ \E fault \in {NoFault} \cup (IF bd_faults = MaxDumpFaults THEN {} ELSE Faults) :
     \E call \in {DumpCall(id, fault)} :
        LET touched == {x \in DumpIds : call.d.order[x] # bd_d.order[x]}
        IN /\ fault.after >= 0 => call.d.allocs < 0
           /\ fault.moves => call.d.crashed /\ bd_d.cached
           /\ bd_d' = [call.d EXCEPT !.allocs = 0, !.moves = FALSE]
           /\ bd_calls' = Append(bd_calls, [id |-> id, ret |-> call.ret])
           /\ bd_lost' = IF call.ret = 0 THEN bd_lost ELSE bd_lost \cup MadeOf(touched)
           /\ bd_faults' = IF fault = NoFault THEN bd_faults ELSE bd_faults + 1
  /\ UNCHANGED bd_types

BdNext == \E id \in 0 .. Len(bd_types) + 1 : btf_dump__dump_type(id)

BdSpec == BdInit /\ [][BdNext]_bdVars

----------------------------------------------------------------------------
(* What is printed compiles, whatever fails, but for what the code gives up *)
(* then: the types that a failed call has begun to order, which may never  *)
(* be emitted, and the declarations and names that memory was short for.   *)

\* C's rules of declaration: what a definition embeds has been defined before, also behind
\* typedefs; what it only points to has been declared before, or is being defined; typedefs and
\* enums have no forward declaration.
RECURSIVE EmbeddedIn(_)
EmbeddedIn(id) ==
  CASE DumpType(id).kind \in Mods \cup {"array", "typedef"} -> {id} \cup EmbeddedIn(DumpType(id).refs[1])
    [] OTHER -> {id}
Has(k, what, id) == \E j \in 1 .. k : bd_d.out[j].what \in what /\ bd_d.out[j].id = id
Declared(k, u) ==
  CASE DumpType(u.id).kind \in {"typedef", "enum"} -> Has(k - 1, {"def"}, u.id) \/ Blacklisted(u.id)
    [] DumpType(u.id).kind = "fwd" -> Has(k - 1, {"fwd"}, u.id)
    [] OTHER -> Has(k - 1, {"fwd", "def"}, u.id) \/ bd_d.out[k].id = u.id
Complete(k, u) ==
  \A e \in EmbeddedIn(u.id) : DumpType(e).kind \in Composites /\ Named(e) => Has(k - 1, {"def"}, e) \/ e \in bd_lost
DeclaredFirst ==
  \A k \in DOMAIN bd_d.out : \A u \in bd_d.out[k].uses :
    /\ Declared(k, u) \/ u.id \in bd_lost
    /\ u.strong => Complete(k, u)

\* Nothing is declared or defined twice, over all calls.
PrintedOnce ==
  \A j, k \in DOMAIN bd_d.out :
    bd_d.out[j].what = bd_d.out[k].what /\ bd_d.out[j].id = bd_d.out[k].id => j = k

\* Two things of one name space never have one name, and a type keeps its name.  That is so unless
\* memory was short when a thing of that name was named, the name was cut, or it is some type's or
\* enumerator's own name and that of another with its suffix.
OwnNames == UNION {{DumpType(id).name} \cup ToSet(DumpType(id).names) : id \in DumpIds}
Lookalikes == {n \in OwnNames : \E o \in OwnNames, dup \in 2 .. MaxName : n = Suffixed(o, dup)}
NamedFreely(name, orig) == orig \notin bd_d.unsure /\ Len(name) < MaxName /\ name \notin Lookalikes
DumpedNames == {[space |-> IF DumpType(i.id).kind = "typedef" THEN "ident" ELSE "type", thing |-> i.id,
               orig |-> DumpType(i.id).name, name |-> i.name] : i \in {i \in ToSet(bd_d.out) : Named(i.id)}}
EnumeratorNames == {[space |-> "ident", thing |-> -k, orig |-> bd_d.enumerators[k].orig,
                     name |-> bd_d.enumerators[k].name] : k \in DOMAIN bd_d.enumerators}
NamesAreUnique ==
  LET names == DumpedNames \cup EnumeratorNames IN
  \A a, b \in names :
    /\ a.thing = b.thing => a = b
    /\ a.thing # b.thing /\ a.space = b.space /\ a.name = b.name =>
         ~ NamedFreely(a.name, a.orig) \/ ~ NamedFreely(b.name, b.orig)

\* A type the caller asked for has been defined when the call returns 0.
AskedIsDefined ==
  \A k \in DOMAIN bd_calls :
    LET id == bd_calls[k].id
    IN bd_calls[k].ret = 0 /\ Named(id) /\ DumpType(id).kind \in Composites \cup {"enum", "typedef"} =>
         Has(Len(bd_d.out), {"def"}, id) \/ Blacklisted(id) \/ id \in bd_lost

\* An allocation that fails tears at most one of the items printed.
TornOnce == Cardinality({k \in DOMAIN bd_d.out : ~ bd_d.out[k].whole}) <= bd_faults

\* The types of a C program are never refused as a loop.
LoopsAreReal ==
  \A k \in DOMAIN bd_calls :
    bd_calls[k].ret = ELOOP => \E j \in 1 .. k - 1 : bd_calls[j].ret # 0

\* btf_dump__dump_type prints C that compiles, in calls for any types in any order, but for what
\* it gives up when memory is short.
PrintsC == DeclaredFirst /\ PrintedOnce /\ NamesAreUnique /\ AskedIsDefined /\ TornOnce /\ LoopsAreReal
=============================================================================
