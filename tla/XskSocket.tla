------------------------------ MODULE XskSocket -----------------------------
(***************************************************************************)
(* AF_XDP sockets and the memory (umem) they share, as xsk.c sets them up  *)
(* and takes them down.  Each thread has a umem and a queue of the         *)
(* interface of its own; the interface's XDP program, and the map through  *)
(* which the program finds the socket of a queue, are shared by all.       *)
(***************************************************************************)
EXTENDS Integers, FiniteSets

CONSTANTS
  XskThreads,   \* the threads
  XskSlots,     \* the sockets a thread may have on its umem
  XskKinds,     \* the rings the sockets have: "rx", "tx" or "both"
  MaxXskCalls,  \* bound: calls that create a umem or a socket
  MaxXskFaults  \* bound: calls of the system that fail

ASSUME XskSocketAssumption ==
  /\ IsFiniteSet(XskSlots) /\ 0 \notin XskSlots /\ XskKinds \subseteq {"rx", "tx", "both"}
  /\ MaxXskCalls \in Nat /\ MaxXskFaults \in Nat

VARIABLES
  xs_umem,    \* thread -> its umem: [alive, refcount, bound, lost]
  xs_sock,    \* thread -> slot -> the socket: [alive, own, kind, prog]
  xs_fds,     \* open descriptors: <<thread, slot or 0, what>>
  xs_maps,    \* mapped rings: <<thread, slot or 0, ring>>
  xs_run,     \* thread -> the create call under way
  xs_link,    \* the program on the interface: its number, 0 for none, Foreign
  xs_entries, \* the xsks_map of each program: <<program, thread's queue, slot>>
  xs_noexist, \* the sockets are configured with XDP_FLAGS_UPDATE_IF_NOEXIST
  xs_loaded,  \* programs loaded so far
  xs_calls,   \* create calls so far
  xs_left,    \* history: rings that a failing call left mapped
  xs_faults

xsVars == <<xs_umem, xs_sock, xs_fds, xs_maps, xs_run, xs_link, xs_entries, xs_noexist,
            xs_loaded, xs_calls, xs_left, xs_faults>>

Foreign == -1
XsIdle == [pc |-> "idle", slot |-> 0, kind |-> "both", inhibit |-> FALSE, prog |-> 0]
NoSocket == [alive |-> FALSE, own |-> FALSE, kind |-> "both", prog |-> 0]
NoUmem == [alive |-> FALSE, refcount |-> 0, bound |-> FALSE, lost |-> 0]

XsInit ==
  /\ xs_umem = [t \in XskThreads |-> NoUmem]
  /\ xs_sock = [t \in XskThreads |-> [s \in XskSlots |-> NoSocket]]
  /\ xs_fds = {} /\ xs_maps = {} /\ xs_left = {} /\ xs_entries = {}
  /\ xs_run = [t \in XskThreads |-> XsIdle]
  /\ xs_link \in {0, Foreign} /\ xs_noexist \in BOOLEAN
  /\ xs_loaded = 0 /\ xs_calls = 0 /\ xs_faults = 0

XsFails == xs_faults < MaxXskFaults /\ xs_faults' = xs_faults + 1
XsFine == UNCHANGED xs_faults
XsCall == xs_calls < MaxXskCalls /\ xs_calls' = xs_calls + 1
Rings(kind) == IF kind = "both" THEN {"rx", "tx"} ELSE {kind}
RingsOf(t, slot, kind) == {<<t, slot, r>> : r \in Rings(kind)}
UmemRings(t) == {<<t, 0, "fill">>, <<t, 0, "comp">>}
UmemFd(t) == <<t, 0, "sock">>
BpfFds(t, slot) == {<<t, slot, "prog">>, <<t, slot, "map">>}

----------------------------------------------------------------------------
(* The umem. *)

\* xsk_umem__create, whole: it registers the memory and maps the fill and the completion ring.
\* When the second cannot be mapped, munmap is given the failed one and the first stays.
xsk_umem__create(t) ==
  /\ xs_run[t].pc = "idle" /\ ~ xs_umem[t].alive
  /\ \/ /\ XsFine
        /\ xs_umem' = [xs_umem EXCEPT ![t] = [NoUmem EXCEPT !.alive = TRUE]]
        /\ xs_fds' = xs_fds \cup {UmemFd(t)} /\ xs_maps' = xs_maps \cup UmemRings(t)
        /\ UNCHANGED xs_left
     \/ /\ XsFails
        /\ UNCHANGED <<xs_umem, xs_fds, xs_maps, xs_left>>
     \/ /\ XsFails
        /\ xs_maps' = xs_maps \cup {<<t, 0, "fill">>} /\ xs_left' = xs_left \cup {<<t, 0, "fill">>}
        /\ UNCHANGED <<xs_umem, xs_fds>>
  /\ XsCall
  /\ UNCHANGED <<xs_sock, xs_run, xs_link, xs_entries, xs_noexist, xs_loaded>>

\* xsk_umem__delete: refused (no change) while a socket counts on it.  Without the rings'
\* offsets nothing is unmapped.  The kernel forgets a closed socket's entries.
xsk_umem__delete(t) ==
  /\ xs_run[t].pc = "idle" /\ xs_umem[t].alive /\ xs_umem[t].refcount = 0
  /\ \/ XsFine /\ xs_maps' = xs_maps \ UmemRings(t) /\ UNCHANGED xs_left
     \/ XsFails /\ xs_left' = xs_left \cup UmemRings(t) /\ UNCHANGED xs_maps
  /\ xs_umem' = [xs_umem EXCEPT ![t] = NoUmem]
  /\ xs_fds' = xs_fds \ {UmemFd(t)}
  /\ xs_entries' = {e \in xs_entries : e[2] # t}
  /\ UNCHANGED <<xs_sock, xs_run, xs_link, xs_noexist, xs_calls, xs_loaded>>

----------------------------------------------------------------------------
(* xsk_socket__create. *)

\* Up to the socket: a umem in use is shared only without the library's program.  A socket()
\* that fails returns past the count it has just taken.
SocketOpen(t, slot, kind, inhibit) ==
  /\ xs_run[t].pc = "idle" /\ xs_umem[t].alive /\ ~ xs_sock[t][slot].alive
  /\ xs_umem[t].refcount = 0 \/ inhibit
  /\ \/ /\ XsFine
        /\ xs_run' = [xs_run EXCEPT ![t] = [XsIdle EXCEPT !.pc = "rings", !.slot = slot, !.kind = kind,
                                                          !.inhibit = inhibit]]
        /\ xs_umem' = [xs_umem EXCEPT ![t].refcount = @ + 1]
        /\ xs_fds' = IF xs_umem[t].refcount > 0 THEN xs_fds \cup {<<t, slot, "sock">>} ELSE xs_fds
     \/ /\ xs_umem[t].refcount > 0 /\ XsFails
        /\ xs_umem' = [xs_umem EXCEPT ![t].refcount = @ + 1, ![t].lost = @ + 1]
        /\ UNCHANGED <<xs_run, xs_fds>>
  /\ XsCall
  /\ UNCHANGED <<xs_sock, xs_maps, xs_link, xs_entries, xs_noexist, xs_loaded, xs_left>>

Sock_fd(t) == IF <<t, xs_run[t].slot, "sock">> \in xs_fds THEN <<t, xs_run[t].slot, "sock">> ELSE UmemFd(t)

OutSocket_KeepsCount(t, closed) ==
  /\ xs_fds' = (xs_fds \ closed) \ (IF xs_umem[t].refcount > 1 THEN {Sock_fd(t)} ELSE {})
  /\ xs_run' = [xs_run EXCEPT ![t] = XsIdle]
  /\ UNCHANGED xs_umem

\* out_socket: the count is given back, and while others count on the umem the descriptor
\* is the socket's own and is closed.
OutSocket(t, closed) ==
  /\ xs_umem' = [xs_umem EXCEPT ![t].refcount = @ - 1]
  /\ xs_fds' = (xs_fds \ closed) \ (IF xs_umem[t].refcount > 1 THEN {Sock_fd(t)} ELSE {})
  /\ xs_run' = [xs_run EXCEPT ![t] = XsIdle]

\* if_nametoindex, the options that size the rings and the two mappings.  A descriptor that
\* was bound before cannot be given rings again.
SocketRings(t) ==
  /\ xs_run[t].pc = "rings"
  /\ \/ /\ XsFine /\ (Sock_fd(t) = UmemFd(t) => ~ xs_umem[t].bound)
        /\ xs_maps' = xs_maps \cup RingsOf(t, xs_run[t].slot, xs_run[t].kind)
        /\ xs_run' = [xs_run EXCEPT ![t].pc = "bind"]
        /\ UNCHANGED <<xs_umem, xs_fds>>
     \/ /\ IF Sock_fd(t) = UmemFd(t) /\ xs_umem[t].bound THEN XsFine ELSE XsFails
        /\ OutSocket(t, {})
        /\ UNCHANGED xs_maps
  /\ UNCHANGED <<xs_sock, xs_link, xs_entries, xs_noexist, xs_calls, xs_loaded, xs_left>>

\* out_mmap_tx and what follows.
OutMmap(t, closed) ==
  /\ xs_maps' = xs_maps \ RingsOf(t, xs_run[t].slot, xs_run[t].kind)
  /\ OutSocket(t, closed)
  /\ UNCHANGED <<xs_sock, xs_noexist, xs_calls, xs_left>>

Created(t, prog) ==
  /\ xs_sock' = [xs_sock EXCEPT ![t][xs_run[t].slot] =
                   [alive |-> TRUE, own |-> Sock_fd(t) # UmemFd(t), kind |-> xs_run[t].kind, prog |-> prog]]
  /\ xs_run' = [xs_run EXCEPT ![t] = XsIdle]
  /\ UNCHANGED <<xs_umem, xs_maps, xs_link, xs_noexist, xs_calls, xs_loaded, xs_left>>

\* The bind; a shared umem must have been bound by its first socket.
SocketBind(t) ==
  /\ xs_run[t].pc = "bind"
  /\ LET shared == xs_umem[t].refcount > 1
     IN \/ /\ XsFine /\ (shared => xs_umem[t].bound)
           /\ xs_umem' = [xs_umem EXCEPT ![t].bound = TRUE]
           /\ xs_run' = [xs_run EXCEPT ![t].pc = IF xs_run[t].inhibit THEN "created" ELSE "get_id"]
           /\ UNCHANGED <<xs_sock, xs_maps, xs_fds, xs_link, xs_entries, xs_noexist, xs_calls, xs_loaded, xs_left>>
        \/ /\ IF shared /\ ~ xs_umem[t].bound THEN XsFine ELSE XsFails
           /\ OutMmap(t, {}) /\ UNCHANGED <<xs_link, xs_entries, xs_loaded>>

SocketCreated(t) ==
  /\ xs_run[t].pc = "created" /\ XsFine
  /\ Created(t, 0) /\ UNCHANGED <<xs_entries, xs_fds>>

----------------------------------------------------------------------------
(* xsk_setup_xdp_prog. *)

SetupGetId(t) ==
  /\ xs_run[t].pc = "get_id"
  /\ \/ /\ XsFine
        /\ xs_run' = [xs_run EXCEPT ![t].pc = IF xs_link = 0 THEN "create" ELSE "lookup", ![t].prog = xs_link]
        /\ UNCHANGED <<xs_umem, xs_sock, xs_fds, xs_maps, xs_noexist, xs_calls, xs_left>>
     \/ XsFails /\ OutMmap(t, {})
  /\ UNCHANGED <<xs_link, xs_entries, xs_loaded>>

\* The entries after xsk_delete_bpf_maps (its descriptor is closed too, see its callers).
xsk_delete_bpf_maps(t, prog) == {e \in xs_entries : ~ (e[1] = prog /\ e[2] = t)}

\* No program: xsk_create_bpf_maps, and xsk_load_xdp_prog up to the loaded program.
SetupCreate(t) ==
  /\ xs_run[t].pc = "create"
  /\ \/ /\ XsFine
        /\ xs_loaded' = xs_loaded + 1
        /\ xs_fds' = xs_fds \cup BpfFds(t, xs_run[t].slot)
        /\ xs_run' = [xs_run EXCEPT ![t].pc = "attach", ![t].prog = xs_loaded + 1]
        /\ UNCHANGED <<xs_umem, xs_sock, xs_maps, xs_noexist, xs_calls, xs_left>>
     \/ XsFails /\ OutMmap(t, BpfFds(t, xs_run[t].slot)) /\ UNCHANGED xs_loaded
  /\ UNCHANGED <<xs_link, xs_entries>>

\* bpf_set_link_xdp_fd: an interface that has a program by now gives it up, unless the flags forbid.
SetupAttach(t) ==
  /\ xs_run[t].pc = "attach"
  /\ \/ /\ XsFine /\ (xs_noexist => xs_link = 0)
        /\ xs_link' = xs_run[t].prog
        /\ xs_run' = [xs_run EXCEPT ![t].pc = "set"]
        /\ UNCHANGED <<xs_umem, xs_sock, xs_fds, xs_maps, xs_noexist, xs_calls, xs_left>>
     \/ /\ IF xs_noexist /\ xs_link # 0 THEN XsFine ELSE XsFails
        /\ OutMmap(t, BpfFds(t, xs_run[t].slot)) /\ UNCHANGED xs_link
  /\ UNCHANGED <<xs_entries, xs_loaded>>

\* A program is there while it is on the interface or somebody holds a descriptor of it.
ProgThere(prog) ==
  \/ xs_link = prog
  \/ \E t \in XskThreads : \/ \E s \in XskSlots : xs_sock[t][s].alive /\ xs_sock[t][s].prog = prog
                           \/ xs_run[t].pc = "set" /\ xs_run[t].prog = prog

\* A program is there: bpf_prog_get_fd_by_id and xsk_lookup_bpf_maps, which another
\* program's maps do not satisfy.
SetupLookup(t) ==
  /\ xs_run[t].pc = "lookup"
  /\ LET found == xs_run[t].prog # Foreign /\ ProgThere(xs_run[t].prog)
     IN \/ /\ XsFine /\ found
           /\ xs_fds' = xs_fds \cup BpfFds(t, xs_run[t].slot)
           /\ xs_run' = [xs_run EXCEPT ![t].pc = "set"]
           /\ UNCHANGED <<xs_umem, xs_sock, xs_maps, xs_noexist, xs_calls, xs_left>>
        \/ /\ IF found THEN XsFails ELSE XsFine
           /\ OutMmap(t, BpfFds(t, xs_run[t].slot))
  /\ UNCHANGED <<xs_link, xs_entries, xs_loaded>>

\* A receiving socket is entered in the program's map (xsk_set_bpf_maps).
SetupSet(t) ==
  /\ xs_run[t].pc = "set"
  /\ LET prog == xs_run[t].prog
         rx == "rx" \in Rings(xs_run[t].kind)
     IN \/ /\ XsFine
           /\ xs_entries' = IF rx THEN xs_entries \cup {<<prog, t, xs_run[t].slot>>} ELSE xs_entries
           /\ Created(t, prog) /\ UNCHANGED xs_fds
        \/ /\ rx /\ XsFails
           /\ xs_entries' = xsk_delete_bpf_maps(t, prog)
           /\ OutMmap(t, BpfFds(t, xs_run[t].slot)) /\ UNCHANGED <<xs_link, xs_loaded>>

----------------------------------------------------------------------------
xsk_socket__delete(t, slot) ==
  LET sock == xs_sock[t][slot]
  IN /\ xs_run[t].pc = "idle" /\ sock.alive
     /\ xs_entries' = IF sock.prog # 0 THEN xsk_delete_bpf_maps(t, sock.prog) ELSE xs_entries
     /\ \/ XsFine /\ xs_maps' = xs_maps \ RingsOf(t, slot, sock.kind) /\ UNCHANGED xs_left
        \/ XsFails /\ xs_left' = xs_left \cup RingsOf(t, slot, sock.kind) /\ UNCHANGED xs_maps
     /\ xs_umem' = [xs_umem EXCEPT ![t].refcount = @ - 1]
     /\ xs_fds' = xs_fds \ (BpfFds(t, slot) \cup {<<t, slot, "sock">>})
     /\ xs_sock' = [xs_sock EXCEPT ![t][slot] = NoSocket]
     /\ UNCHANGED <<xs_run, xs_link, xs_noexist, xs_calls, xs_loaded>>

XsNext ==
  \E t \in XskThreads :
    \/ xsk_umem__create(t) \/ xsk_umem__delete(t)
    \/ \E slot \in XskSlots, kind \in XskKinds, inhibit \in BOOLEAN :
         SocketOpen(t, slot, kind, inhibit)
    \/ SocketRings(t) \/ SocketBind(t) \/ SocketCreated(t)
    \/ SetupGetId(t) \/ SetupCreate(t) \/ SetupAttach(t) \/ SetupLookup(t) \/ SetupSet(t)
    \/ \E slot \in XskSlots : xsk_socket__delete(t, slot)

XsSpec == XsInit /\ [][XsNext]_xsVars

----------------------------------------------------------------------------
XsQuiet(t) == xs_run[t].pc = "idle"
LiveSlots(t) == {s \in XskSlots : xs_sock[t][s].alive}

\* The reference count of a umem is the number of its sockets and of the socket() calls that
\* failed for it: whatever step of a creation fails, the count is given back (but there, after
\* which the umem can no longer be deleted).
RefsAreCounted ==
  \A t \in XskThreads : XsQuiet(t) =>
    xs_umem[t].refcount = Cardinality(LiveSlots(t)) + xs_umem[t].lost

\* A socket never outlives the memory its rings point into.
UmemOutlivesSockets == \A t \in XskThreads : LiveSlots(t) # {} => xs_umem[t].alive

\* Between calls a thread has open exactly the descriptors of its umem, of its sockets and of
\* the program and map of those that use the library's: no path of the creation leaves one
\* behind, and none closes the one the umem still needs.
XskFdsAreOwned ==
  \A t \in XskThreads : XsQuiet(t) =>
    {fd \in xs_fds : fd[1] = t} =
      (IF xs_umem[t].alive THEN {UmemFd(t)} ELSE {})
        \cup UNION {(IF xs_sock[t][s].own THEN {<<t, s, "sock">>} ELSE {})
                      \cup (IF xs_sock[t][s].prog # 0 THEN BpfFds(t, s) ELSE {}) : s \in LiveSlots(t)}

\* The rings that are mapped between calls are those of the live umem and sockets, and those a
\* call is known to leave: the fill ring when the completion ring cannot be mapped, and the
\* rings of what is deleted when their offsets cannot be had.
RingsAreOwned ==
  \A t \in XskThreads : XsQuiet(t) =>
    {r \in xs_maps : r[1] = t} \ xs_left =
      ((IF xs_umem[t].alive THEN UmemRings(t) ELSE {})
         \cup UNION {RingsOf(t, s, xs_sock[t][s].kind) : s \in LiveSlots(t)}) \ xs_left

\* An entry of a program's map leads to a live socket: no packet is redirected to a socket that
\* was deleted while its descriptor lives on in the umem.
EntriesAreLive ==
  \A e \in xs_entries : xs_sock[e[2]][e[3]].alive /\ xs_sock[e[2]][e[3]].prog = e[1]

\* When the sockets are created with XDP_FLAGS_UPDATE_IF_NOEXIST, every receiving socket that
\* uses the library's program is in the map of the program that is on the interface, however the
\* set-ups of two sockets interleave.  (Without the flag the later of two programs loaded at the
\* same time takes the interface, and the earlier socket receives nothing.)
RedirectReaches ==
  xs_noexist => \A t \in XskThreads : \A s \in LiveSlots(t) :
    xs_sock[t][s].prog # 0 /\ xs_sock[t][s].kind # "tx" => <<xs_link, t, s>> \in xs_entries

\* Sockets and umems that share a descriptor, a program and a map are made and deleted, by two
\* threads and with failures, without a resource that is lost or used after its end.
SocketsShareSafely ==
  /\ RefsAreCounted /\ UmemOutlivesSockets /\ XskFdsAreOwned /\ RingsAreOwned
  /\ EntriesAreLive /\ RedirectReaches
=============================================================================
