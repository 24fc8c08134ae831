------------------------------ MODULE ProgLoad ------------------------------
(***************************************************************************)
(* load_program and bpf_load_program_xattr: one program on its way into    *)
(* the kernel.  A refusal may only mean that the kernel is older than the  *)
(* BTF records, that the verifier's log does not fit, or that there was no *)
(* log; each has its retry.                                                *)
(***************************************************************************)
EXTENDS Integers, FiniteSets

CONSTANTS
  LogSize,   \* BPF_LOG_BUF_SIZE
  KernelLogs, \* the longest log that a kernel takes: one for each kernel of the runs
  IntMax,    \* INT_MAX: log_buf_size is an int
  MaxLog,    \* bound: length of the verifier's log
  MaxSignals, \* bound: signals that reach the process inside of bpf(BPF_PROG_LOAD)
  MaxPlFaults \* bound: failed allocations

ASSUME ProgLoadAssumption ==
  /\ IntMax \in Nat /\ LogSize \in 1 .. IntMax /\ KernelLogs \subseteq 0 .. IntMax
  /\ MaxLog \in Nat /\ MaxSignals \in Nat /\ MaxPlFaults \in Nat

VARIABLES
  pl_case,  \* the program, and what the kernel thinks of it
  pl,       \* where it is
  pl_attr,  \* what is passed: the kinds of BTF records cut to size, whether with a log
  pl_log,   \* log_buf: its size, 0 for NULL, and whether its first byte is not zero
  pl_size,  \* log_buf_size
  pl_errno, \* errno
  pl_signals, \* history: answers of EAGAIN
  pl_ret, pl_faults

plVars == <<pl_case, pl, pl_attr, pl_log, pl_size, pl_errno, pl_signals, pl_ret, pl_faults>>

BtfInfo == {"func_info", "line_info"}

\* An honest kernel: accepts or refuses, has an opinion of the program as a kprobe (of
\* one that is no kprobe yet), knows shorter records for some of the infos, and writes
\* a log of some length, if it takes a buffer of that size.
PlInit ==
  /\ pl_case \in [accepts : BOOLEAN, as_kprobe : BOOLEAN, older : SUBSET BtfInfo, log : 0 .. MaxLog,
                  max_log : KernelLogs, log_level : {0, 1}, too_big : BOOLEAN]
  /\ pl_case.accepts => ~ pl_case.too_big
  /\ pl = "alloc" /\ pl_attr = [cut |-> {}, log |-> FALSE]
  /\ pl_log = [size |-> 0, text |-> FALSE] /\ pl_size = LogSize
  /\ pl_errno = "0" /\ pl_signals = 0 /\ pl_ret = "none" /\ pl_faults = 0

PlFails == pl_faults < MaxPlFaults /\ pl_faults' = pl_faults + 1
PlSucceeds == UNCHANGED pl_faults

\* bpf(BPF_PROG_LOAD) as the code sees it: E2BIG for too many instructions, EINVAL for
\* a log buffer above the kernel's maximum, E2BIG for records it does not know, then
\* the verifier's answer, or ENOSPC for a log that does not fit.
KernelSays(attr) ==
  CASE pl_case.too_big -> "E2BIG"
    [] ~ pl_case.too_big /\ attr.log /\ pl_log.size > pl_case.max_log -> "EINVAL"
    [] OTHER -> IF pl_case.older \ attr.cut # {} THEN "E2BIG"
                ELSE IF attr.log /\ pl_case.log > pl_log.size THEN "ENOSPC"
                ELSE IF pl_case.accepts THEN "fd" ELSE "EACCES"

-----------------------------------------------------------------------------

\* A size above INT_MAX is shifted into the sign.
NewSize_Same == pl_size
\* log_buf_size <<= 1
NewSize == IF pl_size * 2 > IntMax THEN pl_size * 2 - 2 * (IntMax + 1) ELSE pl_size * 2

\* retry_load: "continue without log" if there is no memory, as there never is for a
\* size that became negative.  malloc leaves in the buffer what was there.
AllocLog ==
  /\ pl = "alloc"
  /\ \/ /\ pl_size > 0 /\ PlSucceeds
        /\ \E text \in BOOLEAN : pl_log' = [size |-> pl_size, text |-> text]
        /\ UNCHANGED pl_errno
     \/ /\ PlFails \/ (pl_size < 0 /\ PlSucceeds)
        /\ pl_log' = [size |-> 0, text |-> FALSE] /\ pl_errno' = "ENOMEM"
  /\ pl' = "xattr"
  /\ UNCHANGED <<pl_case, pl_attr, pl_size, pl_signals, pl_ret>>

\* bpf_load_program_xattr refuses a size without a buffer, and does not touch errno then.
XattrFirst ==
  /\ pl = "xattr"
  /\ IF pl_log.size = 0 THEN pl' = "failed" /\ UNCHANGED pl_attr
     ELSE pl' = "sys" /\ pl_attr' = [cut |-> {}, log |-> pl_case.log_level > 0]
  /\ UNCHANGED <<pl_case, pl_log, pl_size, pl_errno, pl_signals, pl_ret, pl_faults>>

\* do ... while (fd < 0 && errno == EAGAIN): a signal in the kernel means another try,
\* as often as there is one.  With a log the kernel may leave its words in the buffer.
sys_bpf_prog_load ==
  /\ pl = "sys"
  /\ pl_log' \in IF pl_attr.log THEN {pl_log, [pl_log EXCEPT !.text = TRUE]} ELSE {pl_log}
  /\ \/ /\ pl_signals < MaxSignals /\ pl_signals' = pl_signals + 1
        /\ pl_errno' = "EAGAIN" /\ UNCHANGED pl
     \/ /\ UNCHANGED pl_signals
        /\ IF KernelSays(pl_attr) = "fd" THEN pl' = "loaded" /\ UNCHANGED pl_errno
           ELSE pl' = "cut" /\ pl_errno' = KernelSays(pl_attr)
  /\ UNCHANGED <<pl_case, pl_attr, pl_size, pl_ret, pl_faults>>

\* The records that the kernel said to be too long, of those not yet cut; it says
\* nothing of them to a program of too many instructions.
ToCut == IF pl_errno = "E2BIG" /\ ~ pl_case.too_big THEN pl_case.older \ pl_attr.cut ELSE {}

\* alloc_zero_tailing_info for func_info before line_info, and another try.
XattrCut ==
  /\ pl = "cut" /\ ToCut # {}
  /\ \/ /\ PlSucceeds /\ pl' = "sys"
        /\ pl_attr' = [pl_attr EXCEPT !.cut = @ \cup {IF "func_info" \in ToCut THEN "func_info" ELSE "line_info"}]
        /\ UNCHANGED pl_errno
     \/ /\ PlFails
        /\ pl_errno' = "ENOMEM" /\ pl' = "failed"
        /\ UNCHANGED pl_attr
  /\ UNCHANGED <<pl_case, pl_log, pl_size, pl_signals, pl_ret>>

\* "Try again with log", in a buffer that is empty now.
XattrLog ==
  /\ pl = "cut" /\ ToCut = {}
  /\ IF pl_attr.log THEN pl' = "failed" /\ UNCHANGED <<pl_attr, pl_log>>
     ELSE /\ pl' = "sys" /\ pl_attr' = [pl_attr EXCEPT !.log = TRUE]
          /\ pl_log' = [pl_log EXCEPT !.text = FALSE]
  /\ UNCHANGED <<pl_case, pl_size, pl_errno, pl_signals, pl_ret, pl_faults>>

\* Back in load_program: a log that did not fit is tried again with twice the room,
\* anything else is an error, named by what is known of it.
LoadFailed ==
  /\ pl = "failed"
  /\ IF pl_errno = "ENOSPC"
     THEN pl_size' = NewSize /\ pl' = "alloc" /\ UNCHANGED pl_ret
     ELSE /\ UNCHANGED pl_size
          /\ \/ pl_log.text /\ pl_ret' = "VERIFY" /\ pl' = "done"
             \/ ~ pl_log.text /\ pl_case.too_big /\ pl_ret' = "PROG2BIG" /\ pl' = "done"
             \/ ~ pl_log.text /\ ~ pl_case.too_big /\ pl' = "kprobe" /\ UNCHANGED pl_ret
  /\ UNCHANGED <<pl_case, pl_attr, pl_log, pl_errno, pl_signals, pl_faults>>

\* "Wrong program type?": a kprobe that loads is closed at once.  It is tried without
\* a buffer, which a log level refuses; the same calls may be interrupted by a signal,
\* and fail for want of memory where records are cut to size again.
TryKprobe ==
  /\ pl = "kprobe"
  /\ \/ /\ pl_case.log_level = 0 /\ pl_signals < MaxSignals /\ pl_signals' = pl_signals + 1
        /\ UNCHANGED <<pl, pl_ret, pl_faults>>
     \/ /\ pl_ret' = IF pl_case.as_kprobe /\ pl_case.log_level = 0 THEN "PROGTYPE" ELSE "errno"
        /\ PlSucceeds /\ pl' = "done" /\ UNCHANGED pl_signals
     \/ /\ pl_case.log_level = 0 /\ pl_case.older # {} /\ PlFails
        /\ pl_ret' = "errno" /\ pl' = "done" /\ UNCHANGED pl_signals
  /\ UNCHANGED <<pl_case, pl_attr, pl_log, pl_size, pl_errno>>

Loaded ==
  /\ pl = "loaded"
  /\ pl_ret' = "0" /\ pl' = "done"
  /\ UNCHANGED <<pl_case, pl_attr, pl_log, pl_size, pl_errno, pl_signals, pl_faults>>

PlNext == AllocLog \/ XattrFirst \/ sys_bpf_prog_load \/ XattrCut \/ XattrLog \/ LoadFailed \/ TryKprobe \/ Loaded
PlSpec == PlInit /\ [][PlNext]_plVars /\ WF_plVars(PlNext)

-----------------------------------------------------------------------------
(* Properties.                                                             *)

\* No log is asked for, or one that fits the first buffer, or whose half is sure to be
\* passed by the doubling before the kernel's maximum is.
LogFits ==
  \/ pl_case.log_level = 0
  \/ LogSize <= pl_case.max_log /\ (pl_case.log <= LogSize \/ 2 * (pl_case.log - 1) <= pl_case.max_log)

\* load_program ends once the signals do: neither the growing log, which may pass the kernel's
\* maximum or INT_MAX, nor the cut records keep it for ever.  And a program that this kernel accepts
\* is then loaded, whatever records it has to lose, however often a signal interrupts it, and with
\* a log of up to half the kernel's maximum, unless memory runs out.
LoadEnds == <>(pl = "done" /\ (pl_case.accepts /\ pl_faults = 0 /\ LogFits => pl_ret = "0"))
=============================================================================
