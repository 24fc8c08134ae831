------------------------------ MODULE ProgInfo -------------------------------
(***************************************************************************)
(* What the kernel knows of a loaded program, and its use to find lines.   *)
(* bpf_program__get_prog_info_linear asks for the sizes of the arrays,     *)
(* lays them out in one block and asks again for their contents; the       *)
(* pointers are turned into offsets to save the block, and back where it   *)
(* is read.  bpf_prog_linfo__new divides the line records among the jited  *)
(* functions, and the two lfind functions search them.                     *)
(*                                                                         *)
(* Memory is a sequence of words at an address; a record is as many words  *)
(* as its array's record size, the first of which is its value.  Pointers  *)
(* are numbers modulo AddressSpace.                                        *)
(***************************************************************************)
EXTENDS Integers, Sequences, FiniteSets, SequencesExt, FiniteSetsExt, Sums

CONSTANTS
  InfoPrograms,  \* programs: array -> [recs, size], recs the values of its records
  InfoArrays,    \* the arrays, in the order of bpf_prog_info_array_desc
  InfoAddresses, \* where malloc may put the block
  InfoAlign,     \* sizeof(__u64) in words
  AddressSpace,
  MaxInfoFaults

VARIABLES
  pi_prog,     \* the kernel's program
  pi_want,     \* arrays: those asked for, less those the kernel does not know
  pi_known,    \* the arrays the kernel knows: info_len
  pi_pc, pi_info,
  pi_lin,      \* info_linear: [base, mem, ptr, count, size]
  pi_moved,    \* history: whether the block was saved and read elsewhere
  pi_linfo,    \* struct bpf_prog_linfo, or NoLinfo
  pi_found,    \* history: the last search and its answer
  pi_faults

piVars == <<pi_prog, pi_want, pi_known, pi_pc, pi_info, pi_lin, pi_moved, pi_linfo, pi_found, pi_faults>>

Arrays == ToSet(InfoArrays)

\* What the kernel gives: the lines of a program rise, its functions lie apart, and the addresses
\* of its last function, which nothing of libbpf checks, lie in it and do not fall.
OfKernel(prog) ==
  LET jited == prog["jited_line_info"].recs
      ksyms == prog["jited_ksyms"].recs
      lens == prog["jited_func_lens"].recs
      funcs == DOMAIN ksyms \cap DOMAIN lens
      lines == prog["line_info"].recs
  IN /\ \A j, k \in DOMAIN lines : j < k => lines[j] < lines[k]
     /\ \A f, g \in funcs : f # g => ksyms[f] + lens[f] <= ksyms[g] \/ ksyms[g] + lens[g] <= ksyms[f]
     /\ \A f \in funcs, k \in DOMAIN jited : f = Len(ksyms) /\ jited[k] = ksyms[f] =>
          \A j \in k .. Len(jited) : jited[j] < ksyms[f] + lens[f] /\ \A i \in k .. j : jited[i] <= jited[j]

ASSUME ProgInfoAssumption ==
  /\ InfoArrays \in Seq(Arrays) /\ \A j, k \in DOMAIN InfoArrays : InfoArrays[j] = InfoArrays[k] => j = k
  /\ {"jited_ksyms", "jited_func_lens", "line_info", "jited_line_info"} \subseteq Arrays
  /\ InfoAddresses \subseteq Nat \ {0} /\ InfoAlign \in Nat \ {0} /\ AddressSpace \in Nat /\ MaxInfoFaults \in Nat
  /\ \A prog \in InfoPrograms : prog \in [Arrays -> [recs : Seq(Nat), size : Nat \ {0}]] /\ OfKernel(prog)

NoLinfo == [nr_func |-> -1]
NoBlock == [base |-> 0, mem |-> <<>>]
NotAsked == [what |-> "none"]
Null == 0

PiInit ==
  /\ pi_prog \in InfoPrograms /\ pi_want \in {Arrays, Arrays \ {"jited_func_lens"}, Arrays \ {"line_info"}}
  /\ pi_known \in {Arrays, Arrays \ {"jited_line_info"}}
  /\ pi_pc = "dims" /\ pi_info = <<>> /\ pi_lin = NoBlock /\ pi_moved = FALSE
  /\ pi_linfo = NoLinfo /\ pi_found = NotAsked /\ pi_faults = 0

----------------------------------------------------------------------------
(* bpf_program__get_prog_info_linear. *)

PiFault == pi_faults < MaxInfoFaults /\ pi_faults' = pi_faults + 1
PiFails == PiFault /\ pi_pc' = "failed"

\* Steps 1 and 2: the dimensions; an array the kernel is too old for is not asked for.
GetDimensions ==
  /\ pi_pc = "dims"
  /\ \/ /\ pi_info' = [a \in pi_known |-> [count |-> Len(pi_prog[a].recs), size |-> pi_prog[a].size]]
        /\ pi_want' = pi_want \cap pi_known /\ pi_pc' = "fill" /\ UNCHANGED pi_faults
     \/ PiFails /\ UNCHANGED <<pi_info, pi_want>>
  /\ UNCHANGED <<pi_prog, pi_known, pi_lin, pi_moved, pi_linfo, pi_found>>

Extent(info, a) == info[a].count * info[a].size

\* The extent of the asked arrays among the first n.
Extents(info, want) ==
  [k \in DOMAIN InfoArrays |-> IF InfoArrays[k] \in want THEN Extent(info, InfoArrays[k]) ELSE 0]
Before(info, want, n) == Sums(Extents(info, want))[n]
RoundUp(n) == ((n + InfoAlign - 1) \div InfoAlign) * InfoAlign
PlaceOf(a) == CHOOSE k \in DOMAIN InfoArrays : InfoArrays[k] = a

\* The kernel writes one array after the other, each from its pointer on; what malloc left is junk.
Junk == -1
WordOf(array, off) == IF off % array.size = 0 THEN array.recs[off \div array.size + 1] ELSE Junk
Written(prog, info, offs, shown, len) ==
  [w \in 1 .. len |->
     LET here == {k \in DOMAIN InfoArrays :
                    InfoArrays[k] \in shown /\ w - 1 - offs[InfoArrays[k]] \in 0 .. Extent(info, InfoArrays[k]) - 1}
         a == InfoArrays[Max(here)]
     IN IF here = {} THEN Junk ELSE WordOf(prog[a], w - 1 - offs[a])]

\* Steps 3 to 7.  Addresses of the kernel are shown only to those who may see them: the kernel
\* then sets the pointers of jited arrays to 0 and leaves the counts.
Secret == {"jited_ksyms", "jited_line_info"}
Fill ==
  /\ pi_pc = "fill"
  /\ \/ \E base \in InfoAddresses, raw_ok \in BOOLEAN :
          LET offs == [a \in pi_want |-> Before(pi_info, pi_want, PlaceOf(a) - 1)]
              shown == {a \in pi_want : raw_ok \/ a \notin Secret \/ pi_info[a].count = 0}
              len == RoundUp(Before(pi_info, pi_want, Len(InfoArrays)))
          IN /\ base + len < AddressSpace
             /\ pi_lin' = [base |-> base, secret |-> pi_want \ shown,
                           mem |-> Written(pi_prog, pi_info, offs, shown, len),
                           ptr |-> [a \in pi_want |-> IF a \in shown THEN base + offs[a] ELSE Null]]
             /\ pi_pc' = "addr" /\ UNCHANGED pi_faults
     \/ PiFails /\ UNCHANGED pi_lin
  /\ UNCHANGED <<pi_prog, pi_want, pi_known, pi_info, pi_moved, pi_linfo, pi_found>>

\* bpf_program__bpil_addr_to_offs, bpf_program__bpil_offs_to_addr.
Rebased(by) == [a \in pi_want |-> (pi_lin.ptr[a] + by) % AddressSpace]
bpil_addr_to_offs ==
  /\ pi_pc = "addr" /\ ~ pi_moved /\ pi_linfo = NoLinfo
  /\ pi_lin' = [pi_lin EXCEPT !.ptr = Rebased(- pi_lin.base)] /\ pi_pc' = "offs"
  /\ UNCHANGED <<pi_prog, pi_want, pi_known, pi_info, pi_moved, pi_linfo, pi_found, pi_faults>>
bpil_offs_to_addr ==
  /\ pi_pc = "offs"
  /\ pi_lin' = [pi_lin EXCEPT !.ptr = Rebased(pi_lin.base)] /\ pi_pc' = "addr"
  /\ UNCHANGED <<pi_prog, pi_want, pi_known, pi_info, pi_moved, pi_linfo, pi_found, pi_faults>>
\* The caller saves the block and reads it at another address.
SaveAndRead ==
  /\ pi_pc = "offs" /\ ~ pi_moved
  /\ \E base \in InfoAddresses :
       base + Len(pi_lin.mem) < AddressSpace /\ pi_lin' = [pi_lin EXCEPT !.base = base]
  /\ pi_moved' = TRUE
  /\ UNCHANGED <<pi_prog, pi_want, pi_known, pi_pc, pi_info, pi_linfo, pi_found, pi_faults>>

----------------------------------------------------------------------------
(* bpf_prog_linfo__new. *)

\* The info as bpf_prog_linfo__new reads it: the kernel gives the counts of all arrays it knows,
\* and no pointer to those that were not asked for.
CountOf(a) == IF a \in pi_known THEN pi_info[a].count ELSE 0
PtrOf(a) == IF a \in pi_want THEN pi_lin.ptr[a] ELSE Null
InBlock(a) == PtrOf(a) - pi_lin.base \in 0 .. Len(pi_lin.mem) - Extent(pi_info, a)
RecordsOf(a) == [k \in 1 .. CountOf(a) |-> pi_lin.mem[PtrOf(a) - pi_lin.base + (k - 1) * pi_info[a].size + 1]]

JitedIsThere ==
  /\ CountOf("jited_ksyms") > 0 /\ PtrOf("jited_line_info") # Null
  /\ CountOf("jited_line_info") = CountOf("line_info")
  /\ CountOf("jited_func_lens") = CountOf("jited_ksyms")
  /\ PtrOf("jited_ksyms") # Null /\ PtrOf("jited_func_lens") # Null

\* dissect_jited_func: the first record of each function, or nothing.  idx has those of the
\* functions found so far; the loop ends with the last of them.
DissectTurn(jited, ksyms, lens, idx, i) ==
  LET f == Len(idx)
      found == jited[i] = ksyms[f + 1]
      sane == IF found THEN jited[i - 1] - ksyms[f] + 1 <= lens[f] ELSE jited[i] > jited[i - 1]
  IN IF f \in {0, Len(ksyms)} THEN idx
     ELSE IF ~ sane THEN <<>> ELSE IF found THEN Append(idx, i) ELSE idx
Dissect(jited, ksyms, lens) ==
  LET idx[i \in 1 .. Len(jited)] ==
        IF i = 1 THEN IF jited[1] = ksyms[1] THEN <<1>> ELSE <<>>
        ELSE DissectTurn(jited, ksyms, lens, idx[i - 1], i)
      end == idx[Len(jited)]
  IN IF Len(end) = Len(ksyms) THEN end ELSE <<>>

\* bpf_prog_linfo__new; without the jited arrays the searches by address find nothing.
LinfoOf ==
  LET lines == RecordsOf("line_info")
      jited == RecordsOf("jited_line_info")
      funcs == Dissect(jited, RecordsOf("jited_ksyms"), RecordsOf("jited_func_lens"))
  IN IF CountOf("line_info") = 0 THEN NoLinfo
     ELSE IF ~ JitedIsThere THEN [nr_func |-> 0, lines |-> lines, jited |-> <<>>, idx |-> <<>>]
     ELSE IF funcs # <<>> THEN [nr_func |-> Len(funcs), lines |-> lines, jited |-> jited, idx |-> funcs]
     ELSE NoLinfo
\* A pointer that was 0 when it was saved is no longer 0 when it is read at another address, and
\* that of the line records is not looked at: both are read through.
Astray ==
  /\ CountOf("line_info") > 0
  /\ \/ ~ InBlock("line_info")
     \/ JitedIsThere /\ \E a \in {"jited_line_info", "jited_ksyms", "jited_func_lens"} : ~ InBlock(a)
bpf_prog_linfo__new ==
  /\ pi_pc = "addr" /\ pi_linfo = NoLinfo
  /\ \/ Astray /\ pi_pc' = "astray" /\ UNCHANGED <<pi_linfo, pi_faults>>
     \/ /\ ~ Astray /\ pi_linfo' = LinfoOf /\ UNCHANGED pi_faults
        /\ pi_pc' = (IF LinfoOf = NoLinfo THEN "failed" ELSE "addr")
     \/ PiFails /\ UNCHANGED pi_linfo
  /\ UNCHANGED <<pi_prog, pi_want, pi_known, pi_info, pi_lin, pi_moved, pi_found>>

----------------------------------------------------------------------------
(* The searches.  Their answer is the number of a line record, 0 for none. *)

\* The last of the records from start on that is not after x, among n of them in rising order.
LastNotAfter(recs, start, n, x) ==
  LET after == {i \in start .. start + n - 1 : x < recs[i]}
  IN IF x < recs[start] THEN 0 ELSE IF after = {} THEN start + n - 1 ELSE Min(after) - 1

lfind(insn_off, nr_skip) ==
  LET lines == pi_linfo.lines
  IN IF nr_skip >= Len(lines) THEN 0 ELSE LastNotAfter(lines, nr_skip + 1, Len(lines) - nr_skip, insn_off)

NrPerFunc_Rest(f) == Len(pi_linfo.jited) + 1 - pi_linfo.idx[f]
NrPerFunc(f) ==
  (IF f = pi_linfo.nr_func THEN Len(pi_linfo.jited) + 1 ELSE pi_linfo.idx[f + 1]) - pi_linfo.idx[f]
lfind_addr_func(addr, func, nr_skip) ==
  IF func > pi_linfo.nr_func THEN 0
  ELSE IF nr_skip >= NrPerFunc(func) THEN 0
  ELSE LastNotAfter(pi_linfo.jited, pi_linfo.idx[func] + nr_skip, NrPerFunc(func) - nr_skip, addr)

Values(a) == UNION {x - 1 .. y + 1 : x, y \in ToSet(pi_prog[a].recs)}
Find ==
  /\ pi_linfo # NoLinfo /\ pi_pc = "addr" /\ pi_found = NotAsked
  /\ \E skip \in 0 .. 2 :
       \/ \E x \in Values("line_info") :
            pi_found' = [what |-> "insn", x |-> x, func |-> 0, skip |-> skip, line |-> lfind(x, skip)]
       \/ \E x \in Values("jited_line_info"), f \in 1 .. Len(pi_prog["jited_ksyms"].recs) + 1 :
            pi_found' = [what |-> "addr", x |-> x, func |-> f, skip |-> skip, line |-> lfind_addr_func(x, f, skip)]
  /\ UNCHANGED <<pi_prog, pi_want, pi_known, pi_pc, pi_info, pi_lin, pi_moved, pi_linfo, pi_faults>>

PiNext ==
  \/ GetDimensions \/ Fill \/ bpil_addr_to_offs \/ bpil_offs_to_addr \/ SaveAndRead
  \/ bpf_prog_linfo__new \/ Find

PiSpec == PiInit /\ [][PiNext]_piVars

----------------------------------------------------------------------------
\* The block holds every array that was asked for and shown, inside its bounds and whole, wherever
\* it is: each array is found at its pointer with the kernel's records.
BlockIsWhole ==
  pi_pc = "addr" =>
    \A a \in pi_want \ pi_lin.secret : InBlock(a) /\ RecordsOf(a) = pi_prog[a].recs

\* bpf_prog_linfo__new follows a pointer that is none only where the line records were not asked
\* for, or the block was moved and has arrays that were not shown.
AstrayHasReason ==
  pi_pc = "astray" => "line_info" \notin pi_want \/ (pi_moved /\ pi_lin.secret # {})

\* The line records of a function are those whose addresses are in it.
OfFunc(f) ==
  LET start == pi_prog["jited_ksyms"].recs[f]
  IN {k \in DOMAIN pi_prog["jited_line_info"].recs :
        pi_prog["jited_line_info"].recs[k] \in start .. start + pi_prog["jited_func_lens"].recs[f] - 1}

\* The records come function by function, rise within each and begin where it does.
Orderly ==
  LET jited == pi_prog["jited_line_info"].recs
      ksyms == pi_prog["jited_ksyms"].recs
  IN /\ \A f \in DOMAIN ksyms :
          LET own == OfFunc(f)
          IN own # {} /\ jited[Min(own)] = ksyms[f] /\ own = Min(own) .. Max(own)
             /\ \A j, k \in own : j < k => jited[j] < jited[k]
     /\ \A f, g \in DOMAIN ksyms : f < g => \A j \in OfFunc(f), k \in OfFunc(g) : j < k
     /\ UNION {OfFunc(f) : f \in DOMAIN ksyms} = DOMAIN jited

\* Without a failure of the system, bpf_prog_linfo__new refuses only a program that has no lines
\* or whose records are not in order.
RefusesForReason ==
  pi_pc = "failed" /\ pi_faults = 0 => pi_prog["line_info"].recs = <<>> \/ ~ Orderly

\* The records a search chooses from: all but the first skip ones.
Skipped(set, skip) == {k \in set : Cardinality({j \in set : j < k}) >= skip}
Searched ==
  LET q == pi_found
  IN Skipped(IF q.what = "insn" THEN DOMAIN pi_prog["line_info"].recs
             ELSE IF q.func <= Len(pi_prog["jited_ksyms"].recs) /\ pi_linfo.nr_func > 0 THEN OfFunc(q.func) ELSE {}, q.skip)

\* A search finds the last record at or before the instruction or address, in the function and
\* behind those to skip: bpf_prog_linfo__lfind and bpf_prog_linfo__lfind_addr_func.
FindsTheLine ==
  pi_found # NotAsked =>
    LET recs == pi_prog[IF pi_found.what = "insn" THEN "line_info" ELSE "jited_line_info"].recs
    IN pi_found.line = Max({k \in Searched : recs[k] <= pi_found.x} \cup {0})

\* What was learnt of a program survives saving and reading, and leads to the right lines.
LinesAreFound == BlockIsWhole /\ AstrayHasReason /\ RefusesForReason /\ FindsTheLine
=============================================================================
