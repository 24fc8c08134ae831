-------------------------------- MODULE Links --------------------------------
(***************************************************************************)
(* Programs attached to perf events: bpf_program__attach_kprobe, _uprobe,  *)
(* _tracepoint, _raw_tracepoint and _perf_event, and bpf_link__destroy,    *)
(* called by several threads that share one table of descriptors.  The     *)
(* descriptor of an event belongs to the call that opens it, then to the   *)
(* link; that of _perf_event is the caller's until the call succeeds.  The *)
(* steps are the system calls.  Paths, function names and offsets are one  *)
(* thing, what.                                                            *)
(***************************************************************************)
EXTENDS Integers, Sequences, FiniteSets, FiniteSetsExt

CONSTANTS
  LinkThreads,   \* threads
  LinkFds,       \* descriptors: a set of numbers
  LinkProgs,     \* program -> whether it is loaded
  LinkWhats,     \* events that can be asked for
  MaxLinkFaults,
  MaxLinkCalls

\* What is asked for is none of the model's marks.
ASSUME LinksAssumption ==
  /\ LinkFds \subseteq Nat
  /\ "closed" \notin LinkWhats /\ "misread" \notin LinkWhats
  /\ MaxLinkFaults \in Nat /\ MaxLinkCalls \in Nat

VARIABLES
  lk_events,   \* descriptor -> the event behind it, or Closed
  lk_links,    \* links the callers hold: [fd, kind, prog, what]
  lk_own,      \* descriptors the callers opened and still own
  lk_calls,    \* thread -> its call
  lk_nocalls, lk_faults,
  lk_misread,  \* history: a file of sysfs had no number
  lk_half      \* history: descriptors whose event was given a program and not enabled

lkVars == <<lk_events, lk_links, lk_own, lk_calls, lk_nocalls, lk_faults, lk_misread, lk_half>>
lkRest == <<lk_links, lk_own, lk_nocalls, lk_misread, lk_half>>

Closed == [what |-> "closed", prog |-> "none", on |-> FALSE]
NewEvent(what) == [what |-> what, prog |-> "none", on |-> FALSE]
LkIdle == [pc |-> "idle", kind |-> "none", prog |-> "none", what |-> "none", ret |-> FALSE, fd |-> -1]
Probes == {"kprobe", "uprobe", "tracepoint"}

LkInit ==
  /\ lk_events = [fd \in LinkFds |-> Closed] /\ lk_links = {} /\ lk_own = {}
  /\ lk_calls = [t \in LinkThreads |-> LkIdle]
  /\ lk_nocalls = 0 /\ lk_faults = 0 /\ lk_misread = FALSE /\ lk_half = {}

----------------------------------------------------------------------------
LkAt(t, pc) == lk_calls[t].pc = pc
LkGoto(t, pc) == lk_calls' = [lk_calls EXCEPT ![t].pc = pc]
LkReturn(t) == lk_calls' = [lk_calls EXCEPT ![t] = LkIdle]
LkFault == lk_faults < MaxLinkFaults /\ lk_faults' = lk_faults + 1

\* The kernel gives out the lowest descriptor that is free.
FreeFds == {fd \in LinkFds : lk_events[fd] = Closed}
OpenFd(event) == FreeFds # {} /\ lk_events' = [lk_events EXCEPT ![Min(FreeFds)] = event]

\* The caller opens a perf event of its own, or closes one.
UserOpens ==
  /\ lk_nocalls < MaxLinkCalls /\ lk_nocalls' = lk_nocalls + 1
  /\ \E what \in LinkWhats : OpenFd(NewEvent(what))
  /\ lk_own' = lk_own \cup {Min(FreeFds)}
  /\ UNCHANGED <<lk_links, lk_calls, lk_faults, lk_misread, lk_half>>
UserCloses ==
  /\ \E fd \in lk_own :
        /\ \A t \in LinkThreads : lk_calls[t].fd # fd
        /\ lk_events' = [lk_events EXCEPT ![fd] = Closed]
        /\ lk_own' = lk_own \ {fd} /\ lk_half' = lk_half \ {fd}
  /\ UNCHANGED <<lk_links, lk_calls, lk_nocalls, lk_faults, lk_misread>>

LkCall(t, call) ==
  /\ LkAt(t, "idle") /\ lk_nocalls < MaxLinkCalls /\ lk_nocalls' = lk_nocalls + 1
  /\ lk_calls' = [lk_calls EXCEPT ![t] = call]
  /\ UNCHANGED <<lk_events, lk_links, lk_own, lk_faults, lk_misread, lk_half>>

\* bpf_program__attach_kprobe and _uprobe.
AttachProbe(t) ==
  \E kind \in {"kprobe", "uprobe"}, prog \in DOMAIN LinkProgs, what \in LinkWhats, ret \in BOOLEAN :
     LkCall(t, [pc |-> "type", kind |-> kind, prog |-> prog, what |-> what, ret |-> ret, fd |-> -1])
\* bpf_program__attach_tracepoint.
AttachTracepoint(t) ==
  \E prog \in DOMAIN LinkProgs, what \in LinkWhats :
     LkCall(t, [pc |-> "id", kind |-> "tracepoint", prog |-> prog, what |-> what, ret |-> FALSE, fd |-> -1])
\* bpf_program__attach_perf_event with an event of the caller, or a descriptor below 0.
AttachOwn(t) ==
  \E prog \in DOMAIN LinkProgs, fd \in lk_own \cup {-1} :
     /\ \A u \in LinkThreads : fd = -1 \/ lk_calls[u].fd # fd
     /\ LkCall(t, [pc |-> "checks", kind |-> "perf_event", prog |-> prog, ret |-> FALSE, fd |-> fd,
                   what |-> IF fd = -1 THEN "none" ELSE lk_events[fd].what])
\* bpf_program__attach_raw_tracepoint.
AttachRaw(t) ==
  \E prog \in DOMAIN LinkProgs, what \in LinkWhats :
     LkCall(t, [pc |-> "raw", kind |-> "raw", prog |-> prog, what |-> what, ret |-> FALSE, fd |-> -1])

\* parse_uint_from_file.  Where the file has no number the result is -errno, which the failed
\* match does not set: when it is 0 the caller takes it for the number.
Parsed(t, pc) ==
  \/ LkGoto(t, pc) /\ UNCHANGED <<lk_faults, lk_misread>>
  \/ LkFault /\ LkReturn(t) /\ UNCHANGED lk_misread
  \/ LkFault /\ lk_misread' = TRUE /\ lk_calls' = [lk_calls EXCEPT ![t].pc = pc, ![t].what = "misread"]

\* determine_kprobe_perf_type and its like, then the bit of a return probe.
ReadType(t) ==
  /\ LkAt(t, "type") /\ Parsed(t, IF lk_calls[t].ret THEN "retprobe" ELSE "open")
  /\ UNCHANGED <<lk_events, lk_links, lk_own, lk_nocalls, lk_half>>
ReadRetprobeBit(t) ==
  /\ LkAt(t, "retprobe") /\ Parsed(t, "open")
  /\ UNCHANGED <<lk_events, lk_links, lk_own, lk_nocalls, lk_half>>
\* determine_tracepoint_id; a path that is too long is an error like the others.
ReadTracepointId(t) ==
  /\ LkAt(t, "id") /\ Parsed(t, "open")
  /\ UNCHANGED <<lk_events, lk_links, lk_own, lk_nocalls, lk_half>>

\* The system call of perf_event_open_probe and perf_event_open_tracepoint.
OpenProbe(t) ==
  /\ LkAt(t, "open")
  /\ \/ /\ OpenFd(NewEvent(lk_calls[t].what)) /\ UNCHANGED lk_faults
        /\ lk_calls' = [lk_calls EXCEPT ![t].pc = "checks", ![t].fd = Min(FreeFds)]
     \/ FreeFds = {} /\ LkReturn(t) /\ UNCHANGED <<lk_events, lk_faults>>
     \/ LkFault /\ LkReturn(t) /\ UNCHANGED lk_events
  /\ UNCHANGED lkRest

\* An error of bpf_program__attach_perf_event: the callers that opened the event close it.
AttachFailed_KeepsFd(t) == LkReturn(t)
AttachFailed(t) == IF lk_calls[t].kind \in Probes THEN LkGoto(t, "close") ELSE LkReturn(t)
CloseEvent(t) ==
  /\ LkAt(t, "close") /\ lk_events' = [lk_events EXCEPT ![lk_calls[t].fd] = Closed]
  /\ lk_half' = lk_half \ {lk_calls[t].fd}
  /\ LkReturn(t)
  /\ UNCHANGED <<lk_links, lk_own, lk_nocalls, lk_faults, lk_misread>>

\* The checks of the two descriptors and the allocation of the link.
AttachChecks(t) ==
  /\ LkAt(t, "checks")
  /\ \/ lk_calls[t].fd >= 0 /\ LinkProgs[lk_calls[t].prog] /\ LkGoto(t, "set") /\ UNCHANGED lk_faults
     \/ (lk_calls[t].fd < 0 \/ ~ LinkProgs[lk_calls[t].prog]) /\ AttachFailed(t) /\ UNCHANGED lk_faults
     \/ LkFault /\ AttachFailed(t)
  /\ UNCHANGED <<lk_events, lkRest>>

\* PERF_EVENT_IOC_SET_BPF; the kernel refuses a second program.
SetBpf(t) ==
  LET fd == lk_calls[t].fd
      taken == lk_events[fd].prog # "none"
  IN /\ LkAt(t, "set")
     /\ \/ ~ taken /\ lk_events' = [lk_events EXCEPT ![fd].prog = lk_calls[t].prog] /\ LkGoto(t, "enable") /\ UNCHANGED lk_faults
        \/ taken /\ AttachFailed(t) /\ UNCHANGED <<lk_events, lk_faults>>
        \/ LkFault /\ AttachFailed(t) /\ UNCHANGED lk_events
     /\ UNCHANGED lkRest

NewLink(t, fd) ==
  lk_links' = lk_links \cup {[fd |-> fd, kind |-> lk_calls[t].kind, prog |-> lk_calls[t].prog, what |-> lk_calls[t].what]}

\* PERF_EVENT_IOC_ENABLE.  The program that was set is not taken back.
Enable(t) ==
  LET fd == lk_calls[t].fd
  IN /\ LkAt(t, "enable")
     /\ \/ /\ lk_events' = [lk_events EXCEPT ![fd].on = TRUE]
           /\ NewLink(t, fd) /\ lk_own' = lk_own \ {fd} /\ LkReturn(t) /\ UNCHANGED <<lk_faults, lk_half>>
        \/ /\ LkFault /\ AttachFailed(t) /\ lk_half' = lk_half \cup {fd}
           /\ UNCHANGED <<lk_events, lk_links, lk_own>>
     /\ UNCHANGED <<lk_nocalls, lk_misread>>

\* The checks of _raw_tracepoint and bpf_raw_tracepoint_open, which does all at once.
OpenRaw(t) ==
  /\ LkAt(t, "raw") /\ LkReturn(t)
  /\ \/ /\ LinkProgs[lk_calls[t].prog] /\ UNCHANGED lk_faults
        /\ OpenFd([what |-> lk_calls[t].what, prog |-> lk_calls[t].prog, on |-> TRUE])
        /\ NewLink(t, Min(FreeFds))
     \/ (~ LinkProgs[lk_calls[t].prog] \/ FreeFds = {}) /\ UNCHANGED <<lk_events, lk_links, lk_faults>>
     \/ LkFault /\ UNCHANGED <<lk_events, lk_links>>
  /\ UNCHANGED <<lk_own, lk_nocalls, lk_misread, lk_half>>

\* bpf_link__destroy: an event is disabled first, and closed even when that fails.
DestroyLink(t) ==
  \E link \in lk_links :
     /\ LkAt(t, "idle")
     /\ lk_calls' = [lk_calls EXCEPT ![t] = [LkIdle EXCEPT !.pc = "close", !.fd = link.fd]]
     /\ lk_links' = lk_links \ {link}
     /\ \/ link.kind # "raw" /\ lk_events' = [lk_events EXCEPT ![link.fd].on = FALSE] /\ UNCHANGED lk_faults
        \/ link.kind # "raw" /\ LkFault /\ UNCHANGED lk_events
        \/ link.kind = "raw" /\ UNCHANGED <<lk_events, lk_faults>>
     /\ UNCHANGED <<lk_own, lk_nocalls, lk_misread, lk_half>>

LkStep(t) ==
  \/ AttachProbe(t) \/ AttachTracepoint(t) \/ AttachOwn(t) \/ AttachRaw(t)
  \/ ReadType(t) \/ ReadRetprobeBit(t) \/ ReadTracepointId(t)
  \/ OpenProbe(t) \/ AttachChecks(t) \/ SetBpf(t) \/ Enable(t) \/ CloseEvent(t) \/ OpenRaw(t) \/ DestroyLink(t)
LkNext == UserOpens \/ UserCloses \/ \E t \in LinkThreads : LkStep(t)

LkSpec == LkInit /\ [][LkNext]_lkVars

----------------------------------------------------------------------------
\* Every open event has exactly one owner: a link, a call that is under way, or the caller, whose
\* own event a call under way only borrows.  So a failed attach leaks no descriptor and no link is
\* left with one that another thread may be given.
EventsHaveOneOwner ==
  \A fd \in LinkFds :
    LET links == {link \in lk_links : link.fd = fd}
        calls == {t \in LinkThreads : lk_calls[t].fd = fd}
    IN /\ lk_events[fd] = Closed => links = {} /\ calls = {} /\ fd \notin lk_own
       /\ lk_events[fd] # Closed =>
            Cardinality(links) + (IF fd \in lk_own THEN 1 ELSE Cardinality(calls)) = 1

\* The event of a link runs the link's program; it is the event that was asked for, unless a file
\* of sysfs was misread.
LinksRunTheirPrograms ==
  \A link \in lk_links :
    /\ lk_events[link.fd].on /\ lk_events[link.fd].prog = link.prog /\ LinkProgs[link.prog]
    /\ lk_events[link.fd].what = link.what
    /\ ~ lk_misread => link.what # "misread"

\* A program is on an event only through a link or a call that is under way, but for the caller's
\* event whose enabling failed: it keeps the program although the attach reported an error.
NoProgramIsLeft ==
  \A fd \in lk_own :
    lk_events[fd].prog # "none" => fd \in lk_half \/ \E t \in LinkThreads : lk_calls[t].fd = fd

\* The attach functions and bpf_link__destroy, with failures at every step and other threads in
\* between: descriptors have one owner, links run what they say, and failures leave nothing.
LinksOwnTheirEvents == EventsHaveOneOwner /\ LinksRunTheirPrograms /\ NoProgramIsLeft
=============================================================================
