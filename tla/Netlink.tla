------------------------------- MODULE Netlink ------------------------------
(***************************************************************************)
(* libbpf's netlink: bpf_set_link_xdp_fd puts a program on an interface,   *)
(* bpf_get_link_xdp_id asks which one is there, and libbpf_nl_get_link and *)
(* its kind list links, classes, queues or filters on a socket that their  *)
(* caller keeps, and stop when the caller's callback says so.              *)
(*                                                                         *)
(* A socket is a queue of datagrams, a datagram a sequence of messages.    *)
(* The kernel answers a request in one step: with an error or an ACK, or   *)
(* with a list of messages that it splits into datagrams as it likes.  It  *)
(* addresses them to the socket's own port, so WRNGPID does not occur.     *)
(***************************************************************************)
EXTENDS Integers, Sequences, Functions, FiniteSets

CONSTANTS
  Interfaces,  \* ifindex of every interface, in the order of a listing
  IfIndex,     \* the one that is asked for
  Ids,         \* program ids
  MaxCalls,    \* bound: calls
  MaxSeconds,  \* bound: the clock
  MaxNlFaults  \* bound: failed system calls and refused requests

ASSUME NetlinkAssumption ==
  /\ Interfaces \in Seq(Nat \ {0}) /\ \E k \in DOMAIN Interfaces : Interfaces[k] = IfIndex
  /\ Ids \subseteq Nat \ {0}
  /\ MaxCalls \in Nat /\ MaxSeconds \in Nat /\ MaxNlFaults \in Nat

VARIABLES
  nl_hooks,  \* interface -> mode -> id of the program there, 0 for none
  nl_secs,   \* time(NULL)
  nl_socks,  \* the sockets that are open: "own" for one call, "kept" by the caller
  nl_queue,  \* socket -> the datagrams waiting on it
  nl,        \* the call: its place, request, sequence number and local variables
  nl_info,   \* struct xdp_link_info as collected so far
  nl_ret,    \* what the last call returned
  nl_truth,  \* history: the hooks when the kernel answered, and its verdict
  nl_seen,   \* history: the interfaces of this call's answer that the callback was given
  nl_left,   \* history: the numbers of old messages on the socket when the call began
  nl_calls, nl_faults

nlVars == <<nl_hooks, nl_secs, nl_socks, nl_queue, nl, nl_info, nl_ret, nl_truth, nl_seen,
            nl_left, nl_calls, nl_faults>>

LinkModes == {"SKB", "DRV", "HW"}
NoInfo == [attach_mode |-> "NONE", prog_id |-> 0, id_of |-> [m \in LinkModes |-> 0]]
NlIdle == [pc |-> "idle", op |-> "none", sock |-> "own", flags |-> {}, id |-> 0, seq |-> 0,
           buf |-> <<>>, multipart |-> TRUE]

NlInit ==
  /\ nl_hooks = [i \in Range(Interfaces) |-> [m \in LinkModes |-> 0]]
  /\ nl_secs = 1 /\ nl_socks = {"kept"} /\ nl_queue = [s \in {"own", "kept"} |-> <<>>]
  /\ nl = NlIdle /\ nl_info = NoInfo /\ nl_ret = "none"
  /\ nl_truth = [hooks |-> nl_hooks, verdict |-> "0"]
  /\ nl_seen = {} /\ nl_left = {} /\ nl_calls = 0 /\ nl_faults = 0

NlFails == nl_faults < MaxNlFaults /\ nl_faults' = nl_faults + 1
NlSucceeds == UNCHANGED nl_faults

\* A call that uses a socket of its own closes it on every way out.
NlReturn(code) ==
  /\ nl' = [nl EXCEPT !.pc = "idle", !.buf = <<>>]
  /\ nl_ret' = code
  /\ nl_socks' = IF nl.sock = "own" THEN nl_socks \ {"own"} ELSE nl_socks

-----------------------------------------------------------------------------
(* Opening a socket and sending a request.                                 *)

BeginCall(op, sock, flags, id, seq, pc) ==
  /\ nl.pc = "idle" /\ nl_calls < MaxCalls
  /\ nl_calls' = nl_calls + 1
  /\ nl' = [NlIdle EXCEPT !.pc = pc, !.op = op, !.sock = sock, !.flags = flags, !.id = id,
                          !.seq = seq]
  /\ nl_info' = NoInfo /\ nl_seen' = {}
  /\ nl_queue' = IF sock = "own" THEN [nl_queue EXCEPT !["own"] = <<>>] ELSE nl_queue
  /\ nl_left' = IF sock = "own" THEN {}
                ELSE {m.seq : m \in UNION {Range(d) : d \in Range(nl_queue["kept"])}}
  /\ UNCHANGED <<nl_hooks, nl_secs, nl_socks, nl_truth, nl_faults>>

\* Its request has sequence number 1, the first of the socket.
bpf_set_link_xdp_fd(id, flags) ==
  BeginCall("set", "own", flags, id, 1, "open") /\ nl_ret' = "none"

\* More than one mode is refused before there is a socket.
bpf_get_link_xdp_info(flags) ==
  IF Cardinality(flags) > 1
  THEN BeginCall("get", "own", flags, 0, nl_secs, "idle") /\ nl_ret' = "EINVAL"
  ELSE BeginCall("get", "own", flags, 0, nl_secs, "open") /\ nl_ret' = "none"

\* A listing on the caller's socket, numbered by the second it is made in.
nl_list(what) == BeginCall(what, "kept", {}, 0, nl_secs, "send") /\ nl_ret' = "none"
libbpf_nl_get_link == nl_list("link")
libbpf_nl_get_class == nl_list("class")
libbpf_nl_get_qdisc == nl_list("qdisc")
libbpf_nl_get_filter == nl_list("filter")

\* What fails after socket(2) closes it again.
libbpf_netlink_open ==
  /\ nl.pc = "open"
  /\ \/ /\ NlSucceeds
        /\ nl_socks' = nl_socks \cup {"own"} /\ nl' = [nl EXCEPT !.pc = "send"]
        /\ UNCHANGED nl_ret
     \/ NlFails /\ NlReturn("errno")
  /\ UNCHANGED <<nl_hooks, nl_secs, nl_queue, nl_info, nl_truth, nl_seen, nl_left, nl_calls>>

-----------------------------------------------------------------------------
(* The kernel's side of send.                                              *)

\* rtnl_xdp_fill: the attributes nested in IFLA_XDP.  One of them has a type that
\* this libbpf does not know (8 > IFLA_XDP_MAX).
Attached(hook) == {m \in LinkModes : hook[m] # 0}
ModeAttr == [DRV |-> 5, SKB |-> 6, HW |-> 7]
ProgAttr(hook, m) ==
  IF hook[m] = 0 THEN <<>> ELSE <<[type |-> ModeAttr[m], value |-> hook[m]]>>
XdpAttrs(hook) ==
  LET on == Attached(hook)
      mode == IF on = {} THEN "NONE"
              ELSE IF Cardinality(on) > 1 THEN "MULTI" ELSE CHOOSE m \in on : TRUE
  IN <<[type |-> 2, value |-> mode], [type |-> 8, value |-> 99]>>
     \o (IF Cardinality(on) = 1 THEN <<[type |-> 4, value |-> hook[mode]]>> ELSE <<>>)
     \o ProgAttr(hook, "SKB") \o ProgAttr(hook, "DRV") \o ProgAttr(hook, "HW")

ListMessage(i) ==
  [type |-> "item", seq |-> nl.seq, call |-> nl_calls, multi |-> TRUE, error |-> "0",
   ifi |-> Interfaces[i], attrs |-> XdpAttrs(nl_hooks[Interfaces[i]])]
EndMessage(t, multi, error) ==
  [type |-> t, seq |-> nl.seq, call |-> nl_calls, multi |-> multi, error |-> error, ifi |-> 0,
   attrs |-> <<>>]

\* The ways to cut a list of n messages: the places where a datagram ends.
Cuts(n) ==
  {e \in UNION {[1 .. k -> 1 .. n] : k \in 1 .. n} :
     e[Len(e)] = n /\ \A j, k \in DOMAIN e : j < k => e[j] < e[k]}
Datagrams(list, ends) ==
  [k \in DOMAIN ends |-> SubSeq(list, IF k = 1 THEN 1 ELSE ends[k - 1] + 1, ends[k])]

AnswerList(ends) ==
  LET list == [i \in DOMAIN Interfaces |-> ListMessage(i)] \o <<EndMessage("DONE", TRUE, "0")>>
  IN /\ nl_queue' = [nl_queue EXCEPT ![nl.sock] = @ \o Datagrams(list, ends)]
     /\ UNCHANGED nl_hooks
     /\ nl_truth' = [hooks |-> nl_hooks, verdict |-> "0"]

\* RTM_SETLINK, with the driver's mode as default.
AnswerSet(verdict) ==
  LET mode == IF nl.flags = {} THEN "DRV" ELSE CHOOSE m \in nl.flags : TRUE
  IN /\ nl_hooks' = IF verdict = "0" THEN [nl_hooks EXCEPT ![IfIndex][mode] = nl.id] ELSE nl_hooks
     /\ nl_queue' = [nl_queue EXCEPT !["own"] = Append(@, <<EndMessage("ERROR", FALSE, verdict)>>)]
     /\ nl_truth' = [hooks |-> nl_hooks', verdict |-> verdict]

NlSend ==
  /\ nl.pc = "send"
  /\ \/ /\ nl' = [nl EXCEPT !.pc = "recv"]
        /\ \/ nl.op = "set" /\ NlSucceeds /\ AnswerSet("0")
           \/ nl.op = "set" /\ NlFails /\ AnswerSet("EBUSY")
           \/ nl.op # "set" /\ NlSucceeds
              /\ \E ends \in Cuts(Len(Interfaces) + 1) : AnswerList(ends)
        /\ UNCHANGED <<nl_ret, nl_socks>>
     \/ NlFails /\ NlReturn("errno") /\ UNCHANGED <<nl_hooks, nl_queue, nl_truth>>
  /\ UNCHANGED <<nl_secs, nl_info, nl_seen, nl_left, nl_calls>>

-----------------------------------------------------------------------------
(* bpf_netlink_recv.                                                       *)

IFLA_XDP_MAX == 7

\* The last attribute of each type wins, types that are not known are left out.
libbpf_nla_parse(attrs, maxtype) ==
  [t \in {attrs[k].type : k \in DOMAIN attrs} \cap 0 .. maxtype |->
     attrs[CHOOSE k \in DOMAIN attrs : attrs[k].type = t
             /\ \A j \in DOMAIN attrs : attrs[j].type = t => j <= k].value]

get_xdp_info(info, msg) ==
  LET tb == libbpf_nla_parse(msg.attrs, IFLA_XDP_MAX)
      with(t, old) == IF t \in DOMAIN tb THEN tb[t] ELSE old
  IN IF msg.ifi # IfIndex \/ 2 \notin DOMAIN tb THEN info
     ELSE IF tb[2] = "NONE" THEN [info EXCEPT !.attach_mode = "NONE"]
     ELSE [attach_mode |-> tb[2], prog_id |-> with(4, info.prog_id),
           id_of |-> [m \in LinkModes |-> with(ModeAttr[m], info.id_of[m])]]

\* The next datagram, as long as the last one was part of a list.
NlRecv ==
  /\ nl.pc = "recv"
  /\ \/ ~ nl.multipart /\ NlReturn("0") /\ NlSucceeds /\ UNCHANGED nl_queue
     \/ /\ nl.multipart /\ nl_queue[nl.sock] # <<>>
        /\ NlSucceeds
        /\ nl' = [nl EXCEPT !.pc = "message", !.buf = Head(nl_queue[nl.sock]), !.multipart = FALSE]
        /\ nl_queue' = [nl_queue EXCEPT ![nl.sock] = Tail(@)]
        /\ UNCHANGED <<nl_ret, nl_socks>>
     \/ nl.multipart /\ NlFails /\ NlReturn("errno") /\ UNCHANGED nl_queue
  /\ UNCHANGED <<nl_hooks, nl_secs, nl_info, nl_truth, nl_seen, nl_left, nl_calls>>

NextMessage(m) ==
  nl' = [nl EXCEPT !.pc = IF Len(nl.buf) > 1 THEN "message" ELSE "recv", !.buf = Tail(@),
                   !.multipart = @ \/ m.multi]

\* A message that is not an error and does not end the list goes to the callback:
\* get_xdp_info for a get, the caller's for a listing, none for a set.
Callback(m) ==
  \/ /\ nl.op = "get"
     /\ nl_info' = get_xdp_info(nl_info, m)
     /\ NextMessage(m) /\ UNCHANGED <<nl_ret, nl_socks, nl_seen>>
  \/ /\ nl.op \notin {"get", "set"}
     /\ nl_seen' = IF m.call = nl_calls THEN nl_seen \cup {m.ifi} ELSE nl_seen
     /\ \/ NextMessage(m) /\ UNCHANGED <<nl_ret, nl_socks>>
        \/ NlReturn("stopped")
     /\ UNCHANGED nl_info

NlMessage_AnySeq ==
  /\ nl.pc = "message"
  /\ LET m == Head(nl.buf)
     IN IF m.type = "item" THEN Callback(m)
        ELSE /\ IF m.type = "ERROR" /\ m.error = "0" THEN NextMessage(m) /\ UNCHANGED <<nl_ret, nl_socks>>
                ELSE NlReturn(IF m.type = "ERROR" THEN m.error ELSE "0")
             /\ UNCHANGED <<nl_info, nl_seen>>
  /\ UNCHANGED <<nl_hooks, nl_secs, nl_queue, nl_truth, nl_left, nl_calls, nl_faults>>

\* One message of the datagram.  Returning drops the rest of the datagram and
\* leaves the datagrams behind it on the socket.
NlMessage ==
  /\ nl.pc = "message"
  /\ LET m == Head(nl.buf)
     IN IF m.seq = nl.seq /\ m.type = "item" THEN Callback(m)
        ELSE /\ CASE m.seq # nl.seq -> NlReturn("INVSEQ")
                  [] m.seq = nl.seq /\ m.type = "ERROR" /\ m.error = "0" ->
                       NextMessage(m) /\ UNCHANGED <<nl_ret, nl_socks>>
                  [] OTHER -> NlReturn(m.error)
             /\ UNCHANGED <<nl_info, nl_seen>>
  /\ UNCHANGED <<nl_hooks, nl_secs, nl_queue, nl_truth, nl_left, nl_calls, nl_faults>>

\* Between two calls.
NlTick ==
  /\ nl.pc = "idle" /\ nl_secs < MaxSeconds
  /\ nl_secs' = nl_secs + 1
  /\ UNCHANGED <<nl_hooks, nl_socks, nl_queue, nl, nl_info, nl_ret, nl_truth, nl_seen, nl_left,
                 nl_calls, nl_faults>>

NlNext ==
  \/ \E id \in Ids \cup {0}, flags \in {{}} \cup {{m} : m \in LinkModes} : bpf_set_link_xdp_fd(id, flags)
  \/ \E flags \in SUBSET LinkModes : bpf_get_link_xdp_info(flags)
  \/ libbpf_nl_get_link \/ libbpf_nl_get_class \/ libbpf_nl_get_qdisc \/ libbpf_nl_get_filter
  \/ libbpf_netlink_open \/ NlSend \/ NlRecv \/ NlMessage \/ NlTick

NlSpec == NlInit /\ [][NlNext]_nlVars

-----------------------------------------------------------------------------
(* Properties.                                                             *)

get_xdp_id(info, flags) ==
  IF info.attach_mode # "MULTI" THEN info.prog_id
  ELSE IF flags = {} THEN 0 ELSE info.id_of[CHOOSE m \in flags : TRUE]

Ended(op) == nl.pc = "idle" /\ nl.op = op

\* An id that bpf_get_link_xdp_id gives is one the kernel had on that interface
\* when it answered: the only one, or if there are several that of the mode asked
\* for; and 0 is given if there is none, or several and no mode is named.
GetIsFresh ==
  Ended("get") /\ nl_ret = "0" =>
    LET hook == nl_truth.hooks[IfIndex]
        on == Attached(hook)
    IN get_xdp_id(nl_info, nl.flags) =
         CASE Cardinality(on) = 1 -> hook[CHOOSE m \in on : TRUE]
           [] Cardinality(on) > 1 /\ nl.flags # {} -> hook[CHOOSE m \in nl.flags : TRUE]
           [] OTHER -> 0

\* bpf_set_link_xdp_fd reports success only for what the kernel did, and unless a
\* system call of its own failed it reports the kernel's verdict.
SetIsReported == Ended("set") => nl_ret \in {"errno", nl_truth.verdict}

\* No call leaves the socket open that it made, on any of its ways out.
SocketsClosed == nl.pc = "idle" => nl_socks = {"kept"}

\* A listing that returns 0 has shown its caller every entry.  The one exception
\* is a socket that still held messages of the same second (the sequence number)
\* from a call that was stopped or failed: bpf_netlink_recv takes them for its own.
ListingIsWhole ==
  nl.pc = "idle" /\ nl.sock = "kept" /\ nl_ret = "0" /\ nl.seq \notin nl_left =>
    nl_seen = Range(Interfaces)

\* bpf_netlink_recv never waits for a datagram that nobody will send.
NeverWaitsInVain == nl.pc = "recv" /\ nl.multipart => nl_queue[nl.sock] # <<>>

\* What the callers of netlink.c rely on, under lost answers, refused requests, stale messages
\* and programs that come and go meanwhile.
AnswersAreRight ==
  GetIsFresh /\ SetIsReported /\ SocketsClosed /\ ListingIsWhole /\ NeverWaitsInVain
=============================================================================
