------------------------------- MODULE BtfExt -------------------------------
(***************************************************************************)
(* .BTF.ext: function and line records of each program section.  The       *)
(* section is checked when it is read (btf_ext__new); when a program is    *)
(* relocated the records of its section, and of .text once that is added   *)
(* behind it, become the program's func_info and line_info.  Lengths are   *)
(* in words.                                                               *)
(***************************************************************************)
EXTENDS Integers, Sequences, FiniteSets, SequencesExt, Sums

CONSTANTS
  ExtParts,     \* what func_info and line_info may be: [len, rec_size, secs]
  MinRecSize,   \* the least record size
  MainInsns     \* instructions of the main section

\* An info section is [sec, offs]: whose it is, "other" for another program's, and the instruction
\* of each record.
SecNames == {"main", ".text", "other"}
RiseStrictly(s) == \A k \in 2 .. Len(s) : s[k - 1] < s[k]

\* Compilers write the records of a section in the order of its instructions; nothing else about a
\* file is assumed.
ASSUME BtfExtAssumption ==
  /\ MinRecSize \in Nat \ {0} /\ MainInsns \in Nat \ {0}
  /\ \A part \in ExtParts :
       /\ part \in [len : Nat, rec_size : Nat, secs : Seq([sec : SecNames, offs : Seq(Nat)])]
       /\ \A k \in DOMAIN part.secs :
            /\ RiseStrictly(part.secs[k].offs)
            /\ part.secs[k].sec = "main" =>
                 \A j \in DOMAIN part.secs[k].offs : part.secs[k].offs[j] < MainInsns

VARIABLES
  be_ext,   \* part -> what the file holds
  be_part,  \* the part that is being set up
  be_k, be_left, \* the loop: sections walked, words left
  be_set,   \* part -> ext_info, or EmptyPart when the part is empty
  be_prog,  \* part -> the program's records, <<>> for none
  be_pc, be_ret,
  be_beyond \* history: the walk looked behind the part

beVars == <<be_ext, be_part, be_k, be_left, be_set, be_prog, be_pc, be_ret, be_beyond>>

Parts == <<"func_info", "line_info">>
EmptyPart == [len |-> 0, rec_size |-> 0, secs |-> <<>>]
SecHdrLen == 2
SecLen(sec, rec_size) == SecHdrLen + Len(sec.offs) * rec_size

BeStart ==
  /\ be_part = 1 /\ be_k = 0 /\ be_left = 0
  /\ be_set = [p \in Range(Parts) |-> EmptyPart] /\ be_prog = [p \in Range(Parts) |-> <<>>]
  /\ be_pc = "start" /\ be_ret = "none" /\ be_beyond = FALSE

BeInit ==
  /\ be_ext \in [Range(Parts) -> ExtParts]
  /\ BeStart

Current == be_ext[Parts[be_part]]
BeReturn(ret) == be_pc' = "done" /\ be_ret' = ret
NextPart ==
  IF be_part < Len(Parts) THEN be_part' = be_part + 1 /\ be_pc' = "start" ELSE be_pc' = "main" /\ UNCHANGED be_part

\* btf_ext_setup_info up to its loop: an empty part is skipped, an odd record size or a part
\* without records refused.
SetupStart ==
  /\ be_pc = "start"
  /\ LET refused == Current.rec_size < MinRecSize \/ Current.len = 1
     IN \/ Current.len = 0 /\ NextPart /\ UNCHANGED <<be_ret, be_left, be_k>>
        \/ Current.len # 0 /\ refused /\ BeReturn("EINVAL") /\ UNCHANGED <<be_part, be_left, be_k>>
        \/ /\ Current.len # 0 /\ ~ refused
           /\ be_pc' = "walk" /\ be_left' = Current.len - 1 /\ be_k' = 0 /\ UNCHANGED <<be_part, be_ret>>
  /\ UNCHANGED <<be_ext, be_set, be_prog, be_beyond>>

\* The checks of one info section: there is a header, it has records, and they fit.
TooShort(sec) ==
  be_left < SecHdrLen \/ Len(sec.offs) = 0 \/ be_left < SecLen(sec, Current.rec_size)

PartEnds_Below == be_left <= SecHdrLen
\* while (info_left)
PartEnds == be_left = 0

\* One iteration; at its end the part is accepted.  Behind the last section of the file there is
\* something else, here taken for a section of one record.
SectionAt(part, k) == IF k \in DOMAIN part.secs THEN part.secs[k] ELSE [sec |-> "other", offs |-> <<0>>]
SetupWalk ==
  /\ be_pc = "walk"
  /\ LET sec == SectionAt(Current, be_k + 1)
     IN \/ /\ PartEnds
           /\ be_set' = [be_set EXCEPT ![Parts[be_part]] = [Current EXCEPT !.len = @ - 1]]
           /\ NextPart /\ UNCHANGED <<be_ret, be_k, be_left>>
        \/ ~ PartEnds /\ TooShort(sec) /\ BeReturn("EINVAL") /\ UNCHANGED <<be_part, be_k, be_left, be_set>>
        \/ /\ ~ PartEnds /\ ~ TooShort(sec)
           /\ be_left' = be_left - SecLen(sec, Current.rec_size) /\ be_k' = be_k + 1
           /\ UNCHANGED <<be_pc, be_ret, be_part, be_set>>
  /\ UNCHANGED <<be_ext, be_prog, be_beyond>>

----------------------------------------------------------------------------
\* The words that are left of a part behind its first n sections.
Lengths(part) == [k \in 1 .. part.len |-> SecLen(SectionAt(part, k), part.rec_size)]
LeftBehind(part, n) == part.len - Sums(Lengths(part))[n]

\* The walk of btf_ext_reloc_info over an accepted part stops behind n sections, where no word is
\* left or the section is the one: [found, offs], and whether it went on when no word was left
\* exactly (remain_len is unsigned).
StopsAt(part, sec_name, n) == LeftBehind(part, n) <= 0 \/ SectionAt(part, n + 1).sec = sec_name
WalkFor(part, sec_name) ==
  LET n == CHOOSE n \in 0 .. part.len : /\ StopsAt(part, sec_name, n)
                                        /\ \A m \in 0 .. n - 1 : ~ StopsAt(part, sec_name, m)
      sec == SectionAt(part, n + 1)
      remain == LeftBehind(part, n)
  IN IF remain <= 0 THEN [found |-> FALSE, offs |-> <<>>, beyond |-> remain < 0]
     ELSE [found |-> TRUE, offs |-> sec.offs, beyond |-> remain < SecLen(sec, part.rec_size)]
btf_ext_reloc_info(p, sec_name) == WalkFor(be_set[p], sec_name)

\* The records' instruction offsets, moved to where the section's instructions are put.
InsnOff(offs, insns_cnt) == [k \in DOMAIN offs |-> offs[k] + insns_cnt]

\* bpf_program_reloc_btf_ext for one part: [prog, ret], ret "go" when the next part follows.
RelocPart(p, sec_name, insn_offset) ==
  LET walk == btf_ext_reloc_info(p, sec_name)
  IN IF insn_offset # 0 /\ be_prog[p] = <<>> THEN [recs |-> be_prog[p], ret |-> "go", beyond |-> FALSE]
     ELSE IF walk.found THEN [recs |-> be_prog[p] \o InsnOff(walk.offs, insn_offset), ret |-> "go", beyond |-> walk.beyond]
     ELSE [recs |-> be_prog[p], ret |-> IF be_prog[p] # <<>> THEN "ENOENT" ELSE "0", beyond |-> walk.beyond]

\* The whole call: when a part is not found the rest is not looked at.
bpf_program_reloc_btf_ext(sec_name, insn_offset, next) ==
  LET func == RelocPart("func_info", sec_name, insn_offset)
      line == RelocPart("line_info", sec_name, insn_offset)
      both == func.ret = "go"
      ret == IF both THEN line.ret ELSE func.ret
  IN /\ be_prog' = [be_prog EXCEPT !["func_info"] = func.recs, !["line_info"] = IF both THEN line.recs ELSE @]
     /\ be_beyond' = (be_beyond \/ func.beyond \/ (both /\ line.beyond))
     /\ IF ret \in {"go", "0"} THEN be_pc' = next /\ be_ret' = IF next = "done" THEN "0" ELSE "none"
        ELSE BeReturn(ret)
     /\ UNCHANGED <<be_ext, be_part, be_k, be_left, be_set>>

RelocMain == be_pc = "main" /\ bpf_program_reloc_btf_ext("main", 0, "text")
RelocText == be_pc = "text" /\ bpf_program_reloc_btf_ext(".text", MainInsns, "done")

BeNext == SetupStart \/ SetupWalk \/ RelocMain \/ RelocText

BeSpec == BeInit /\ [][BeNext]_beVars

----------------------------------------------------------------------------
\* A part that was accepted is walked to its exact end: the second walk, which checks nothing,
\* never looks behind the part.
WalksStayInside == ~ be_beyond

\* What the kernel asks of the records of a program: their instructions rise strictly from the
\* first, so the records of .text follow those of the main section and point behind them.
RecordsRise ==
  be_ret = "0" => \A p \in Range(Parts) : RiseStrictly(be_prog[p])

\* Either all of a program's instructions have records or none: when the main section has records
\* and .text has none, the program is refused.
AllOrNothing ==
  be_ret = "0" => \A p \in Range(Parts) :
    be_prog[p] # <<>> => /\ \E k \in DOMAIN be_prog[p] : be_prog[p][k] < MainInsns
                         /\ \E k \in DOMAIN be_prog[p] : be_prog[p][k] >= MainInsns

\* The records that bpf_program_reloc_btf_ext gives to a program are in the form that the kernel
\* demands, and come from inside the section.
RecordsAreFit == WalksStayInside /\ RecordsRise /\ AllOrNothing
=============================================================================
