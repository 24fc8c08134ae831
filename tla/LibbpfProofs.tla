---------------------------- MODULE LibbpfProofs ----------------------------
(***************************************************************************)
(* Seven parts of libbpf, proved right for every value of their constants: *)
(* the ownership of the events that links are made of, for any number of   *)
(* threads, descriptors, programs, calls and failures; pinning, for        *)
(* objects of any number of maps, programs and instances, any set of       *)
(* directories and any failures; AF_XDP sockets, for any threads, sockets  *)
(* on a umem, calls and failures; netlink, for any interfaces, ids, calls  *)
(* and failures; loading, for any maps and programs of an object, any      *)
(* failures and any pins of others; the attempts at one program, for logs  *)
(* of any length; and opening, for files of any sections in any order and  *)
(* any failures.  The parts share no state.                                *)
(***************************************************************************)
EXTENDS Links, ObjectPin, XskSocket, Netlink, ObjectOpen, ObjectLoad, ProgLoad,
        Arithmetic, FiniteSetTheorems

-----------------------------------------------------------------------------
(* Links.                                                                  *)

LkPcs == {"idle", "type", "retprobe", "id", "open", "checks", "set", "enable", "close", "raw"}
LkKinds == Probes \cup {"perf_event", "raw", "none"}
LkProgs == DOMAIN LinkProgs \cup {"none"}
Whats == LinkWhats \cup {"misread", "none"}

Events == [what : Whats \cup {"closed"}, prog : LkProgs, on : BOOLEAN]
Calls == [pc : LkPcs, kind : LkKinds, prog : LkProgs, what : Whats, ret : BOOLEAN,
          fd : LinkFds \cup {-1}]

LkTypeOK ==
  /\ lk_events \in [LinkFds -> Events]
  /\ lk_calls \in [LinkThreads -> Calls]
  /\ lk_links \subseteq [fd : LinkFds, kind : LkKinds, prog : LkProgs, what : Whats]
  /\ lk_own \subseteq LinkFds
  /\ lk_misread \in BOOLEAN

\* An event that is not open is Closed in every field.
ClosedIsMarked == \A fd \in LinkFds : lk_events[fd].what = "closed" => lk_events[fd] = Closed

\* No two of them share a descriptor: links, calls, and the caller, who lends his
\* to the calls of one function.
OwnersAreApart ==
  /\ \A link \in lk_links :
       link.fd \notin lk_own /\ \A t \in LinkThreads : lk_calls[t].fd # link.fd
  /\ \A l1, l2 \in lk_links : l1.fd = l2.fd => l1 = l2
  /\ \A t, u \in LinkThreads :
       lk_calls[t].fd # -1 /\ lk_calls[t].fd = lk_calls[u].fd => t = u
  /\ \A t \in LinkThreads :
       lk_calls[t].fd # -1 => (lk_calls[t].fd \in lk_own <=> lk_calls[t].kind = "perf_event")

\* What they own is open, and what is open is owned.
OwnedIsOpen ==
  /\ \A link \in lk_links : lk_events[link.fd].what # "closed"
  /\ \A t \in LinkThreads : lk_calls[t].fd # -1 => lk_events[lk_calls[t].fd].what # "closed"
  /\ \A fd \in lk_own : lk_events[fd].what \in LinkWhats
  /\ \A fd \in LinkFds : lk_events[fd].what # "closed" =>
       \/ fd \in lk_own
       \/ \E link \in lk_links : link.fd = fd
       \/ \E t \in LinkThreads : lk_calls[t].fd = fd

\* A call has a descriptor from the opening of the event to its end, and has then
\* checked, set and enabled what it goes on to rely on.
CallIsInOrder(t) ==
  LET call == lk_calls[t]
      event == lk_events[call.fd]
  IN /\ call.fd # -1 => call.pc \in {"checks", "set", "enable", "close"}
     /\ call.pc \in {"set", "enable", "close"} => call.fd # -1
     /\ call.pc = "checks" /\ call.kind # "perf_event" => call.fd # -1
     /\ call.pc \in {"type", "retprobe", "id", "open"} => call.kind \in Probes
     /\ call.pc = "raw" => call.kind = "raw"
     /\ call.pc \in {"checks", "set", "enable"} => call.kind \in Probes \cup {"perf_event"}
     /\ call.pc = "close" => call.kind # "perf_event"
     /\ call.pc \in {"set", "enable"} => LinkProgs[call.prog]
     /\ call.pc \in {"checks", "set", "enable"} /\ call.fd # -1 => call.what = event.what
     /\ call.pc = "enable" => event.prog = call.prog
     /\ call.what = "misread" => lk_misread
     /\ call.kind = "perf_event" /\ call.fd # -1 /\ call.pc \in {"checks", "set"} =>
          (event.prog # "none" => call.fd \in lk_half)

CallsAreInOrder == \A t \in LinkThreads : CallIsInOrder(t)

LkInv ==
  /\ LkTypeOK
  /\ ClosedIsMarked
  /\ OwnersAreApart
  /\ OwnedIsOpen
  /\ CallsAreInOrder
  /\ LinksRunTheirPrograms
  /\ NoProgramIsLeft

-----------------------------------------------------------------------------
(* The lowest free descriptor, and the updates of the two tables.          *)

\* What is asked for is none of the model's marks, and -1 is no descriptor.
LEMMA Marks ==
  /\ -1 \notin LinkFds
  /\ "closed" \notin Whats /\ "misread" \notin LinkWhats /\ LinkWhats \subseteq Whats
  BY LinksAssumption DEF Whats

\* The lowest free descriptor is a free descriptor.
LEMMA LowestIsFree ==
  ASSUME FreeFds # {}
  PROVE  Min(FreeFds) \in LinkFds /\ lk_events[Min(FreeFds)] = Closed
  <1> DEFINE S == FreeFds
  <1>1. S \subseteq Nat /\ S # {}
    BY LinksAssumption DEF FreeFds
  <1>2. \E x \in S : \A y \in S : ~ (<<y, x>> \in OpToRel(<, Nat))
    BY <1>1, NatLessThanWellFounded, WFMin
  <1>3. PICK x \in S : \A y \in S : ~ (<<y, x>> \in OpToRel(<, Nat))
    BY <1>2
  <1>4. ASSUME NEW y \in S PROVE x <= y
    <2>1. x \in Nat /\ y \in Nat
      BY <1>1
    <2>2. y < x => <<y, x>> \in OpToRel(<, Nat)
      BY <2>1 DEF OpToRel
    <2>3. ~ (y < x)
      BY <1>3, <2>2, Zenon
    <2> QED
      BY <2>1, <2>3
  <1>5. Min(S) \in S
    BY <1>4 DEF Min
  <1>6. QED
    BY <1>5 DEF FreeFds

\* Writing one thread's call leaves the others' as they were.
LEMMA CallUpdate ==
  ASSUME LkTypeOK, NEW t \in LinkThreads, NEW call \in Calls,
         lk_calls' = [lk_calls EXCEPT ![t] = call]
  PROVE  /\ lk_calls' \in [LinkThreads -> Calls]
         /\ lk_calls'[t] = call
         /\ \A u \in LinkThreads : u # t => lk_calls'[u] = lk_calls[u]
  BY DEF LkTypeOK

\* Writing one descriptor's event leaves the others' as they were.
LEMMA EventUpdate ==
  ASSUME LkTypeOK, NEW fd \in LinkFds, NEW event \in Events,
         lk_events' = [lk_events EXCEPT ![fd] = event]
  PROVE  /\ lk_events' \in [LinkFds -> Events]
         /\ lk_events'[fd] = event
         /\ \A f \in LinkFds : f # fd => lk_events'[f] = lk_events[f]
  BY DEF LkTypeOK

\* A link holds a descriptor.
LEMMA LinksHaveFds ==
  ASSUME LkTypeOK
  PROVE  \A link \in lk_links : link.fd \in LinkFds /\ link.fd # -1
  BY Marks DEF LkTypeOK

\* A free descriptor has no owner.
LEMMA FreeHasNoOwner ==
  ASSUME LkInv, NEW fd \in LinkFds, lk_events[fd] = Closed
  PROVE  /\ fd \notin lk_own
         /\ \A link \in lk_links : link.fd # fd
         /\ \A t \in LinkThreads : lk_calls[t].fd # fd
  BY Marks DEF LkInv, OwnedIsOpen, Closed

\* A thread without a call holds nothing.
LEMMA IdleCall ==
  /\ LkIdle \in Calls /\ LkIdle.fd = -1 /\ LkIdle.pc = "idle"
  /\ LkIdle.kind = "none" /\ LkIdle.what = "none"
  BY DEF LkIdle, Calls, LkPcs, LkKinds, LkProgs, Whats

-----------------------------------------------------------------------------
(* Steps that several actions have in common.                              *)

\* A call goes on, or a thread begins or ends one, without a descriptor changing
\* hands.
LEMMA CallSteps ==
  ASSUME LkInv, NEW t \in LinkThreads,
         lk_calls' \in [LinkThreads -> Calls],
         \A u \in LinkThreads : u # t => lk_calls'[u] = lk_calls[u],
         lk_calls'[t].fd = lk_calls[t].fd,
         lk_calls[t].fd # -1 =>
           (lk_calls'[t].kind = "perf_event" <=> lk_calls[t].kind = "perf_event"),
         UNCHANGED <<lk_events, lk_links, lk_own>>,
         lk_half \subseteq lk_half',
         lk_misread' \in BOOLEAN, lk_misread => lk_misread',
         CallIsInOrder(t)'
  PROVE  LkInv'
  <1>1. LkTypeOK' /\ ClosedIsMarked'
    BY DEF LkInv, LkTypeOK, ClosedIsMarked
  <1>2. \A u \in LinkThreads : lk_calls'[u].fd = lk_calls[u].fd
    OBVIOUS
  <1>3. OwnersAreApart'
    BY <1>2 DEF LkInv, OwnersAreApart
  <1>4. OwnedIsOpen'
    BY <1>2 DEF LkInv, OwnedIsOpen
  <1>5. CallsAreInOrder'
    <2> SUFFICES ASSUME NEW u \in LinkThreads, u # t PROVE CallIsInOrder(u)'
      BY DEF CallsAreInOrder
    <2>1. CallIsInOrder(u)
      BY DEF LkInv, CallsAreInOrder
    <2>2. QED
      BY <2>1 DEF CallIsInOrder
  <1>6. LinksRunTheirPrograms'
    BY DEF LkInv, LkTypeOK, LinksRunTheirPrograms
  <1>7. NoProgramIsLeft'
    BY <1>2 DEF LkInv, NoProgramIsLeft
  <1>8. QED
    BY <1>1, <1>3, <1>4, <1>5, <1>6, <1>7 DEF LkInv

\* A call gives the caller's descriptor back.
LEMMA GivesBack ==
  ASSUME LkInv, NEW t \in LinkThreads,
         lk_calls[t].fd # -1, lk_calls[t].kind = "perf_event",
         lk_calls' = [lk_calls EXCEPT ![t] = LkIdle],
         UNCHANGED <<lk_events, lk_links, lk_own, lk_misread>>,
         lk_half \subseteq lk_half',
         lk_events[lk_calls[t].fd].prog # "none" => lk_calls[t].fd \in lk_half'
  PROVE  LkInv'
  <1>c. /\ lk_calls' \in [LinkThreads -> Calls] /\ lk_calls'[t] = LkIdle
        /\ \A u \in LinkThreads : u # t => lk_calls'[u] = lk_calls[u]
    BY CallUpdate, IdleCall DEF LkInv
  <1>1. LkTypeOK' /\ ClosedIsMarked'
    BY <1>c DEF LkInv, LkTypeOK, ClosedIsMarked
  <1>d. lk_calls'[t].fd = -1
    BY <1>c, IdleCall
  <1>3. OwnersAreApart'
    <2>1. \A link \in lk_links : link.fd # -1
      BY LinksHaveFds DEF LkInv
    <2>2. QED
      BY <1>c, <1>d, <2>1 DEF LkInv, OwnersAreApart
  <1>4. OwnedIsOpen'
    BY <1>c, IdleCall DEF LkInv, LkTypeOK, OwnersAreApart, OwnedIsOpen
  <1>5. CallsAreInOrder'
    <2>1. CallIsInOrder(t)'
      BY <1>c, IdleCall DEF CallIsInOrder
    <2>2. ASSUME NEW u \in LinkThreads, u # t PROVE CallIsInOrder(u)'
      BY <1>c, <2>2 DEF LkInv, CallsAreInOrder, CallIsInOrder
    <2>3. QED
      BY <2>1, <2>2 DEF CallsAreInOrder
  <1>6. LinksRunTheirPrograms'
    BY DEF LkInv, LinksRunTheirPrograms
  <1>7. NoProgramIsLeft'
    BY <1>c DEF LkInv, LkTypeOK, OwnersAreApart, NoProgramIsLeft
  <1>8. QED
    BY <1>1, <1>3, <1>4, <1>5, <1>6, <1>7 DEF LkInv

\* At first there is no event and no call.
LEMMA LkInvInit == LkInit => LkInv
  <1> SUFFICES ASSUME LkInit PROVE LkInv
    OBVIOUS
  <1>1. Closed \in Events /\ Closed.what = "closed"
    BY DEF Closed, Events, LkProgs, Whats
  <1>2. LkTypeOK
    BY <1>1, IdleCall DEF LkInit, LkTypeOK
  <1>3. \A t \in LinkThreads : lk_calls[t] = LkIdle
    BY DEF LkInit
  <1>4. \A fd \in LinkFds : lk_events[fd] = Closed
    BY DEF LkInit
  <1>5. CallsAreInOrder
    BY <1>3, IdleCall DEF CallsAreInOrder, CallIsInOrder
  <1>6. ClosedIsMarked /\ OwnersAreApart /\ OwnedIsOpen
    BY <1>1, <1>3, <1>4, IdleCall DEF LkInit, ClosedIsMarked, OwnersAreApart, OwnedIsOpen
  <1>7. LinksRunTheirPrograms /\ NoProgramIsLeft
    BY DEF LkInit, LinksRunTheirPrograms, NoProgramIsLeft
  <1>8. QED
    BY <1>2, <1>5, <1>6, <1>7 DEF LkInv

\* A thread that was idle begins a call without a descriptor.
LEMMA CallBegins ==
  ASSUME LkInv, NEW t \in LinkThreads, NEW call \in Calls, LkCall(t, call),
         call.fd = -1, call.what # "misread",
         \/ call.pc \in {"type", "id"} /\ call.kind \in Probes
         \/ call.pc = "raw" /\ call.kind = "raw"
         \/ call.pc = "checks" /\ call.kind = "perf_event"
  PROVE  LkInv'
  <1>1. /\ lk_calls' \in [LinkThreads -> Calls] /\ lk_calls'[t] = call
        /\ \A u \in LinkThreads : u # t => lk_calls'[u] = lk_calls[u]
    BY CallUpdate DEF LkInv, LkCall
  <1>2. lk_calls[t].fd = -1
    BY DEF LkInv, CallsAreInOrder, CallIsInOrder, LkCall, LkAt
  <1>3. CallIsInOrder(t)'
    BY <1>1 DEF CallIsInOrder
  <1>4. QED
    BY <1>1, <1>2, <1>3, CallSteps DEF LkCall, LkInv, LkTypeOK

\* The call that parses a file goes on, misread or not, or returns.
LEMMA ParsedKeeps ==
  ASSUME LkInv, NEW t \in LinkThreads, NEW pc \in {"retprobe", "open"},
         lk_calls[t].pc \in {"type", "retprobe", "id"}, Parsed(t, pc),
         UNCHANGED <<lk_events, lk_links, lk_own, lk_half>>
  PROVE  LkInv'
  <1>t. LkTypeOK /\ lk_calls[t] \in Calls /\ CallIsInOrder(t)
    BY DEF LkInv, LkTypeOK, CallsAreInOrder
  <1>f. lk_calls[t].fd = -1 /\ lk_calls[t].kind \in Probes
    BY <1>t DEF CallIsInOrder
  <1>1. CASE LkReturn(t) /\ UNCHANGED lk_misread
    <2>1. /\ lk_calls' \in [LinkThreads -> Calls] /\ lk_calls'[t] = LkIdle
          /\ \A u \in LinkThreads : u # t => lk_calls'[u] = lk_calls[u]
      BY <1>1, <1>t, CallUpdate, IdleCall DEF LkReturn
    <2>2. CallIsInOrder(t)'
      BY <2>1, IdleCall DEF CallIsInOrder
    <2>3. QED
      BY <1>1, <1>t, <1>f, <2>1, <2>2, IdleCall, CallSteps DEF LkTypeOK
  <1>2. ASSUME NEW what \in Whats,
               lk_calls' = [lk_calls EXCEPT ![t] = [lk_calls[t] EXCEPT !.pc = pc, !.what = what]],
               lk_misread' \in BOOLEAN, lk_misread => lk_misread',
               what = "misread" => lk_misread'
        PROVE  LkInv'
    <2> DEFINE call == [lk_calls[t] EXCEPT !.pc = pc, !.what = what]
    <2>1. call \in Calls
      BY <1>t DEF Calls, LkPcs
    <2>2. /\ call.fd = -1 /\ call.pc = pc /\ call.what = what
          /\ call.kind = lk_calls[t].kind /\ call.prog = lk_calls[t].prog
      BY <1>t, <1>f DEF Calls
    <2>3. /\ lk_calls' \in [LinkThreads -> Calls] /\ lk_calls'[t] = call
          /\ \A u \in LinkThreads : u # t => lk_calls'[u] = lk_calls[u]
      BY <1>2, <1>t, <2>1, CallUpdate
    <2> HIDE DEF call
    <2>4. CallIsInOrder(t)'
      BY <1>2, <1>f, <2>2, <2>3 DEF CallIsInOrder
    <2>5. QED
      BY <1>2, <1>f, <2>2, <2>3, <2>4, CallSteps
  <1>3. CASE LkGoto(t, pc) /\ UNCHANGED lk_misread
    <2>1. lk_calls[t].what \in Whats /\ lk_misread \in BOOLEAN
      BY <1>t DEF Calls, LkTypeOK
    <2>2. lk_calls[t].what = "misread" => lk_misread
      BY <1>t DEF CallIsInOrder
    <2>3. lk_calls' = [lk_calls EXCEPT ![t] = [lk_calls[t] EXCEPT !.pc = pc,
                                                                   !.what = lk_calls[t].what]]
      BY <1>3, <1>t DEF LkGoto, LkTypeOK, Calls
    <2>4. QED
      BY <1>3, <1>2, <2>1, <2>2, <2>3
  <1>4. CASE /\ lk_misread' = TRUE
             /\ lk_calls' = [lk_calls EXCEPT ![t].pc = pc, ![t].what = "misread"]
    <2>1. lk_calls' = [lk_calls EXCEPT ![t] = [lk_calls[t] EXCEPT !.pc = pc, !.what = "misread"]]
      BY <1>4, <1>t DEF LkTypeOK, Calls
    <2>2. "misread" \in Whats
      BY DEF Whats
    <2>3. QED
      BY <1>2, <1>4, <2>1, <2>2
  <1>5. QED
    BY <1>1, <1>3, <1>4 DEF Parsed

-----------------------------------------------------------------------------
(* The actions that open, change or close an event.                        *)

\* A caller opens an event of its own.
LEMMA UserOpensKeeps ==
  ASSUME LkInv, UserOpens
  PROVE  LkInv'
  <1> DEFINE new == Min(FreeFds)
  <1>1. PICK what \in LinkWhats : OpenFd(NewEvent(what))
    BY DEF UserOpens
  <1>2. new \in LinkFds /\ lk_events[new] = Closed
    BY <1>1, LowestIsFree DEF OpenFd
  <1>3. /\ new \notin lk_own
        /\ \A link \in lk_links : link.fd # new
        /\ \A t \in LinkThreads : lk_calls[t].fd # new
    BY <1>2, FreeHasNoOwner
  <1>4. NewEvent(what) \in Events /\ NewEvent(what).what = what /\ NewEvent(what).prog = "none"
    BY <1>1, Marks DEF NewEvent, Events, LkProgs
  <1>5. /\ lk_events' \in [LinkFds -> Events] /\ lk_events'[new] = NewEvent(what)
        /\ \A f \in LinkFds : f # new => lk_events'[f] = lk_events[f]
    BY <1>1, <1>2, <1>4, EventUpdate DEF LkInv, OpenFd
  <1>6. lk_own' = lk_own \cup {new} /\ UNCHANGED <<lk_links, lk_calls, lk_misread, lk_half>>
    BY DEF UserOpens
  <1> HIDE DEF new
  <1>7. \A link \in lk_links : link.fd \in LinkFds
    BY LinksHaveFds DEF LkInv
  <1>8. \A t \in LinkThreads : lk_calls[t].fd \in LinkFds \cup {-1}
    BY DEF LkInv, LkTypeOK, Calls
  <1>9. LkTypeOK' /\ ClosedIsMarked'
    BY <1>1, <1>2, <1>4, <1>5, <1>6, Marks DEF LkInv, LkTypeOK, ClosedIsMarked
  <1>10. OwnersAreApart' /\ OwnedIsOpen'
    BY <1>1, <1>2, <1>3, <1>4, <1>5, <1>6, <1>7, <1>8, Marks
    DEF LkInv, OwnersAreApart, OwnedIsOpen, LkTypeOK
  <1>11. CallsAreInOrder'
    BY <1>3, <1>5, <1>6, <1>8 DEF LkInv, CallsAreInOrder, CallIsInOrder
  <1>12. LinksRunTheirPrograms' /\ NoProgramIsLeft'
    BY <1>3, <1>4, <1>5, <1>6, <1>7
    DEF LkInv, LkTypeOK, LinksRunTheirPrograms, NoProgramIsLeft
  <1>13. QED
    BY <1>9, <1>10, <1>11, <1>12 DEF LkInv

\* Closing what nobody else has.
LEMMA UserClosesKeeps ==
  ASSUME LkInv, UserCloses
  PROVE  LkInv'
  <1>1. PICK fd \in lk_own :
          /\ \A t \in LinkThreads : lk_calls[t].fd # fd
          /\ lk_events' = [lk_events EXCEPT ![fd] = Closed]
          /\ lk_own' = lk_own \ {fd} /\ lk_half' = lk_half \ {fd}
    BY DEF UserCloses
  <1>2. fd \in LinkFds /\ Closed \in Events /\ Closed.what = "closed"
    BY DEF LkInv, LkTypeOK, Closed, Events, LkProgs
  <1>3. /\ lk_events' \in [LinkFds -> Events] /\ lk_events'[fd] = Closed
        /\ \A f \in LinkFds : f # fd => lk_events'[f] = lk_events[f]
    BY <1>1, <1>2, EventUpdate DEF LkInv
  <1>4. UNCHANGED <<lk_links, lk_calls, lk_misread>>
    BY DEF UserCloses
  <1>5. \A link \in lk_links : link.fd \in LinkFds /\ link.fd # fd
    BY LinksHaveFds DEF LkInv, OwnersAreApart
  <1>6. \A t \in LinkThreads : lk_calls[t].fd \in LinkFds \cup {-1}
    BY DEF LkInv, LkTypeOK, Calls
  <1>7. LkTypeOK' /\ ClosedIsMarked'
    BY <1>1, <1>2, <1>3, <1>4 DEF LkInv, LkTypeOK, ClosedIsMarked
  <1>8. OwnersAreApart' /\ OwnedIsOpen'
    BY <1>1, <1>2, <1>3, <1>4, <1>5, <1>6 DEF LkInv, LkTypeOK, OwnersAreApart, OwnedIsOpen
  <1>9. CallsAreInOrder'
    BY <1>1, <1>3, <1>4, <1>6 DEF LkInv, CallsAreInOrder, CallIsInOrder
  <1>10. LinksRunTheirPrograms' /\ NoProgramIsLeft'
    BY <1>1, <1>3, <1>4, <1>5 DEF LkInv, LkTypeOK, LinksRunTheirPrograms, NoProgramIsLeft
  <1>11. QED
    BY <1>7, <1>8, <1>9, <1>10 DEF LkInv

\* bpf_program__attach_perf_event borrows the caller's descriptor.
LEMMA AttachOwnKeeps ==
  ASSUME LkInv, NEW t \in LinkThreads, AttachOwn(t)
  PROVE  LkInv'
  <1>1. PICK prog \in DOMAIN LinkProgs, fd \in lk_own \cup {-1} :
          /\ \A u \in LinkThreads : fd = -1 \/ lk_calls[u].fd # fd
          /\ LkCall(t, [pc |-> "checks", kind |-> "perf_event", prog |-> prog, ret |-> FALSE,
                        fd |-> fd, what |-> IF fd = -1 THEN "none" ELSE lk_events[fd].what])
    BY DEF AttachOwn
  <1> DEFINE call == [pc |-> "checks", kind |-> "perf_event", prog |-> prog, ret |-> FALSE,
                      fd |-> fd, what |-> IF fd = -1 THEN "none" ELSE lk_events[fd].what]
  <1>2. fd # -1 => fd \in lk_own /\ fd \in LinkFds /\ lk_events[fd].what \in LinkWhats
    BY <1>1 DEF LkInv, LkTypeOK, OwnedIsOpen
  <1>3. call \in Calls
    BY <1>1, <1>2, Marks DEF Calls, LkPcs, LkKinds, LkProgs, Whats
  <1>4. /\ call.pc = "checks" /\ call.kind = "perf_event" /\ call.fd = fd
        /\ call.what = IF fd = -1 THEN "none" ELSE lk_events[fd].what
    OBVIOUS
  <1>5. LkCall(t, call)
    BY <1>1
  <1> HIDE DEF call
  <1>6. CASE fd = -1
    BY <1>3, <1>4, <1>5, <1>6, CallBegins
  <1>7. CASE fd # -1
    <2>1. /\ lk_calls' \in [LinkThreads -> Calls] /\ lk_calls'[t] = call
          /\ \A u \in LinkThreads : u # t => lk_calls'[u] = lk_calls[u]
      BY <1>3, <1>5, CallUpdate DEF LkInv, LkCall
    <2>2. lk_calls[t].fd = -1 /\ UNCHANGED <<lk_events, lk_links, lk_own, lk_misread, lk_half>>
      BY <1>5 DEF LkInv, CallsAreInOrder, CallIsInOrder, LkCall, LkAt
    <2>3. \A u \in LinkThreads : lk_calls[u].fd # fd
      BY <1>1, <1>7
    <2>4. LkTypeOK' /\ ClosedIsMarked'
      BY <2>1, <2>2 DEF LkInv, LkTypeOK, ClosedIsMarked
    <2>5. OwnersAreApart' /\ OwnedIsOpen'
      BY <1>2, <1>4, <1>7, <2>1, <2>2, <2>3, Marks DEF LkInv, OwnersAreApart, OwnedIsOpen
    <2>6. CallsAreInOrder'
      <3>1. CallIsInOrder(t)'
        BY <1>2, <1>4, <1>7, <2>1, <2>2, <2>3, Marks
        DEF LkInv, NoProgramIsLeft, CallIsInOrder
      <3>2. ASSUME NEW u \in LinkThreads, u # t PROVE CallIsInOrder(u)'
        BY <2>1, <2>2, <3>2 DEF LkInv, CallsAreInOrder, CallIsInOrder
      <3>3. QED
        BY <3>1, <3>2 DEF CallsAreInOrder
    <2>7. LinksRunTheirPrograms'
      BY <2>2 DEF LkInv, LinksRunTheirPrograms
    <2>8. NoProgramIsLeft'
      BY <2>1, <2>2, Marks DEF LkInv, LkTypeOK, NoProgramIsLeft
    <2>9. QED
      BY <2>4, <2>5, <2>6, <2>7, <2>8 DEF LkInv
  <1>8. QED
    BY <1>6, <1>7

\* A thread ends a call that has no descriptor.
LEMMA ReturnKeeps ==
  ASSUME LkInv, NEW t \in LinkThreads, lk_calls[t].fd = -1, LkReturn(t),
         UNCHANGED <<lk_events, lk_links, lk_own, lk_misread, lk_half>>
  PROVE  LkInv'
  <1>1. /\ lk_calls' \in [LinkThreads -> Calls] /\ lk_calls'[t] = LkIdle
        /\ \A u \in LinkThreads : u # t => lk_calls'[u] = lk_calls[u]
    BY CallUpdate, IdleCall DEF LkInv, LkReturn
  <1>2. CallIsInOrder(t)'
    BY <1>1, IdleCall DEF CallIsInOrder
  <1>3. QED
    BY <1>1, <1>2, IdleCall, CallSteps DEF LkInv, LkTypeOK

\* A call goes on with its descriptor.
LEMMA GotoKeeps ==
  ASSUME LkInv, NEW t \in LinkThreads, NEW pc \in {"set", "close"}, LkGoto(t, pc),
         lk_calls[t].fd # -1, lk_calls[t].pc \in {"checks", "set", "enable"},
         pc = "set" => lk_calls[t].pc = "checks" /\ LinkProgs[lk_calls[t].prog],
         pc = "close" => lk_calls[t].kind # "perf_event",
         UNCHANGED <<lk_events, lk_links, lk_own, lk_misread>>, lk_half \subseteq lk_half'
  PROVE  LkInv'
  <1> DEFINE call == [lk_calls[t] EXCEPT !.pc = pc]
  <1>t. LkTypeOK /\ lk_calls[t] \in Calls /\ CallIsInOrder(t)
    BY DEF LkInv, LkTypeOK, CallsAreInOrder
  <1>1. call \in Calls
    BY <1>t DEF Calls, LkPcs
  <1>2. /\ call.fd = lk_calls[t].fd /\ call.pc = pc /\ call.what = lk_calls[t].what
        /\ call.kind = lk_calls[t].kind /\ call.prog = lk_calls[t].prog
    BY <1>t DEF Calls
  <1>3. lk_calls' = [lk_calls EXCEPT ![t] = call]
    BY <1>t DEF LkGoto, LkTypeOK, Calls
  <1>4. /\ lk_calls' \in [LinkThreads -> Calls] /\ lk_calls'[t] = call
        /\ \A u \in LinkThreads : u # t => lk_calls'[u] = lk_calls[u]
    BY <1>t, <1>1, <1>3, CallUpdate
  <1> HIDE DEF call
  <1>5. CallIsInOrder(t)'
    BY <1>t, <1>2, <1>4 DEF CallIsInOrder
  <1>6. QED
    BY <1>t, <1>2, <1>4, <1>5, CallSteps DEF LkTypeOK

\* The ways out of bpf_program__attach_perf_event: the caller's descriptor goes
\* back to him, another is about to be closed.
LEMMA AttachFailedKeeps ==
  ASSUME LkInv, NEW t \in LinkThreads, AttachFailed(t),
         lk_calls[t].pc \in {"checks", "set", "enable"},
         UNCHANGED <<lk_events, lk_links, lk_own, lk_misread>>,
         IF lk_calls[t].pc = "enable" THEN lk_half' = lk_half \cup {lk_calls[t].fd}
         ELSE lk_half' = lk_half
  PROVE  LkInv'
  <1>t. lk_calls[t] \in Calls /\ CallIsInOrder(t)
    BY DEF LkInv, LkTypeOK, CallsAreInOrder
  <1>1. CASE lk_calls[t].kind \in Probes
    <2>1. LkGoto(t, "close") /\ lk_calls[t].kind # "perf_event"
      BY <1>1 DEF AttachFailed, Probes
    <2>2. lk_calls[t].fd # -1
      BY <1>t, <2>1 DEF CallIsInOrder
    <2>3. QED
      BY <2>1, <2>2, GotoKeeps
  <1>2. CASE lk_calls[t].kind \notin Probes
    <2>1. LkReturn(t) /\ lk_calls[t].kind = "perf_event"
      BY <1>2, <1>t DEF AttachFailed, CallIsInOrder
    <2>2. CASE lk_calls[t].fd = -1
      <3>1. lk_half' = lk_half
        BY <1>t, <2>2 DEF CallIsInOrder
      <3>2. QED
        BY <2>1, <2>2, <3>1, ReturnKeeps
    <2>3. CASE lk_calls[t].fd # -1
      <3>1. lk_events[lk_calls[t].fd].prog # "none" => lk_calls[t].fd \in lk_half'
        <4>1. CASE lk_calls[t].pc \in {"checks", "set"}
          BY <1>t, <2>1, <2>3, <4>1 DEF CallIsInOrder
        <4>2. CASE lk_calls[t].pc = "enable" /\ lk_half' = lk_half \cup {lk_calls[t].fd}
          BY <4>2
        <4>3. QED
          BY <4>1, <4>2
      <3>2. QED
        BY <2>1, <2>3, <3>1, GivesBack DEF LkReturn
    <2>4. QED
      BY <2>2, <2>3
  <1>3. QED
    BY <1>1, <1>2

\* perf_event_open gives the call a descriptor that nobody has.
LEMMA OpenProbeKeeps ==
  ASSUME LkInv, NEW t \in LinkThreads, OpenProbe(t)
  PROVE  LkInv'
  <1>t. LkTypeOK /\ lk_calls[t] \in Calls /\ CallIsInOrder(t)
    BY DEF LkInv, LkTypeOK, CallsAreInOrder
  <1>f. lk_calls[t].fd = -1 /\ lk_calls[t].kind \in Probes
    BY <1>t DEF OpenProbe, LkAt, CallIsInOrder
  <1>r. UNCHANGED <<lk_links, lk_own, lk_misread, lk_half>>
    BY DEF OpenProbe, lkRest
  <1>1. CASE LkReturn(t) /\ UNCHANGED lk_events
    BY <1>1, <1>f, <1>r, ReturnKeeps
  <1>2. CASE /\ OpenFd(NewEvent(lk_calls[t].what))
             /\ lk_calls' = [lk_calls EXCEPT ![t].pc = "checks", ![t].fd = Min(FreeFds)]
    <2> DEFINE new == Min(FreeFds)
               event == NewEvent(lk_calls[t].what)
               call == [lk_calls[t] EXCEPT !.pc = "checks", !.fd = new]
    <2>1. new \in LinkFds /\ lk_events[new] = Closed
      BY <1>2, LowestIsFree DEF OpenFd
    <2>2. /\ new \notin lk_own
          /\ \A link \in lk_links : link.fd # new
          /\ \A u \in LinkThreads : lk_calls[u].fd # new
      BY <2>1, FreeHasNoOwner
    <2>3. lk_calls[t].what \in Whats
      BY <1>t DEF Calls
    <2>4. event \in Events /\ event.what = lk_calls[t].what /\ event.what # "closed"
      BY <2>3, Marks DEF NewEvent, Events, LkProgs
    <2>5. /\ lk_events' \in [LinkFds -> Events] /\ lk_events'[new] = event
          /\ \A f \in LinkFds : f # new => lk_events'[f] = lk_events[f]
      BY <1>2, <1>t, <2>1, <2>4, EventUpdate DEF OpenFd
    <2>6. call \in Calls
      BY <1>t, <2>1 DEF Calls, LkPcs
    <2>7. /\ call.fd = new /\ call.pc = "checks" /\ call.what = lk_calls[t].what
          /\ call.kind = lk_calls[t].kind /\ call.prog = lk_calls[t].prog
      BY <1>t DEF Calls
    <2>8. lk_calls' = [lk_calls EXCEPT ![t] = call]
      BY <1>2, <1>t DEF LkTypeOK, Calls
    <2>9. /\ lk_calls' \in [LinkThreads -> Calls] /\ lk_calls'[t] = call
          /\ \A u \in LinkThreads : u # t => lk_calls'[u] = lk_calls[u]
      BY <1>t, <2>6, <2>8, CallUpdate
    <2> HIDE DEF new, event, call
    <2>10. \A link \in lk_links : link.fd \in LinkFds
      BY <1>t, LinksHaveFds
    <2>11. \A u \in LinkThreads : lk_calls[u].fd \in LinkFds \cup {-1}
      BY DEF LkInv, LkTypeOK, Calls
    <2>12. LkTypeOK' /\ ClosedIsMarked'
      BY <1>r, <2>4, <2>5, <2>9 DEF LkInv, LkTypeOK, ClosedIsMarked
    <2>13. OwnersAreApart'
      BY <1>f, <1>r, <2>1, <2>2, <2>7, <2>9, Marks DEF LkInv, OwnersAreApart, Probes
    <2>14. OwnedIsOpen'
      BY <1>f, <1>r, <2>1, <2>2, <2>4, <2>5, <2>7, <2>9, <2>10, <2>11, Marks
      DEF LkInv, LkTypeOK, OwnedIsOpen
    <2>15. CallsAreInOrder'
      <3>1. CallIsInOrder(t)'
        BY <1>f, <1>r, <1>t, <2>1, <2>4, <2>5, <2>7, <2>9, Marks DEF CallIsInOrder, Probes
      <3>2. ASSUME NEW u \in LinkThreads, u # t PROVE CallIsInOrder(u)'
        BY <1>r, <2>2, <2>5, <2>9, <2>11, <3>2 DEF LkInv, CallsAreInOrder, CallIsInOrder
      <3>3. QED
        BY <3>1, <3>2 DEF CallsAreInOrder
    <2>16. LinksRunTheirPrograms'
      BY <1>r, <2>2, <2>5, <2>10 DEF LkInv, LinksRunTheirPrograms
    <2>17. NoProgramIsLeft'
      BY <1>f, <1>r, <2>2, <2>5, <2>9, Marks DEF LkInv, LkTypeOK, NoProgramIsLeft
    <2>18. QED
      BY <2>12, <2>13, <2>14, <2>15, <2>16, <2>17 DEF LkInv
  <1>3. QED
    BY <1>1, <1>2 DEF OpenProbe

\* The checks of the two descriptors and the allocation of the link: they pass or fail.
LEMMA AttachChecksKeeps ==
  ASSUME LkInv, NEW t \in LinkThreads, AttachChecks(t)
  PROVE  LkInv'
  <1>r. /\ UNCHANGED <<lk_events, lk_links, lk_own, lk_misread, lk_half>>
        /\ lk_calls[t].pc = "checks"
    BY DEF AttachChecks, lkRest, LkAt
  <1>1. CASE AttachFailed(t)
    BY <1>1, <1>r, AttachFailedKeeps
  <1>2. CASE lk_calls[t].fd >= 0 /\ LinkProgs[lk_calls[t].prog] /\ LkGoto(t, "set")
    <2>1. lk_calls[t].fd # -1
      BY <1>2
    <2>2. QED
      BY <1>2, <1>r, <2>1, GotoKeeps
  <1>3. QED
    BY <1>1, <1>2 DEF AttachChecks

\* The program is set on an event that the call has, its own or the caller's.
LEMMA SetBpfKeeps ==
  ASSUME LkInv, NEW t \in LinkThreads, SetBpf(t)
  PROVE  LkInv'
  <1>t. LkTypeOK /\ lk_calls[t] \in Calls /\ CallIsInOrder(t)
    BY DEF LkInv, LkTypeOK, CallsAreInOrder
  <1>r. UNCHANGED <<lk_links, lk_own, lk_misread, lk_half>> /\ lk_calls[t].pc = "set"
    BY DEF SetBpf, lkRest, LkAt
  <1>1. CASE AttachFailed(t) /\ UNCHANGED lk_events
    BY <1>1, <1>r, AttachFailedKeeps
  <1>2. CASE /\ lk_events' = [lk_events EXCEPT ![lk_calls[t].fd].prog = lk_calls[t].prog]
             /\ LkGoto(t, "enable")
    <2> DEFINE fd == lk_calls[t].fd
               event == [lk_events[fd] EXCEPT !.prog = lk_calls[t].prog]
               call == [lk_calls[t] EXCEPT !.pc = "enable"]
    <2>1. fd \in LinkFds /\ fd # -1 /\ lk_events[fd] \in Events /\ lk_calls[t].prog \in LkProgs
      BY <1>t, <1>r DEF CallIsInOrder, LkTypeOK, Calls
    <2>2. /\ event \in Events /\ event.what = lk_events[fd].what
          /\ event.prog = lk_calls[t].prog /\ event.on = lk_events[fd].on
      BY <2>1 DEF Events
    <2>3. lk_events' = [lk_events EXCEPT ![fd] = event]
      BY <1>2, <1>t, <2>1 DEF LkTypeOK, Events
    <2>4. /\ lk_events' \in [LinkFds -> Events] /\ lk_events'[fd] = event
          /\ \A f \in LinkFds : f # fd => lk_events'[f] = lk_events[f]
      BY <1>t, <2>1, <2>2, <2>3, EventUpdate
    <2>5. call \in Calls
      BY <1>t DEF Calls, LkPcs
    <2>6. /\ call.fd = fd /\ call.pc = "enable" /\ call.what = lk_calls[t].what
          /\ call.kind = lk_calls[t].kind /\ call.prog = lk_calls[t].prog
      BY <1>t DEF Calls
    <2>7. lk_calls' = [lk_calls EXCEPT ![t] = call]
      BY <1>2, <1>t DEF LkGoto, LkTypeOK, Calls
    <2>8. /\ lk_calls' \in [LinkThreads -> Calls] /\ lk_calls'[t] = call
          /\ \A u \in LinkThreads : u # t => lk_calls'[u] = lk_calls[u]
      BY <1>t, <2>5, <2>7, CallUpdate
    <2> HIDE DEF event, call
    <2>9. \A f \in LinkFds : lk_events'[f].what = lk_events[f].what
      BY <2>2, <2>4
    <2>10. \A u \in LinkThreads : /\ lk_calls'[u].fd = lk_calls[u].fd
                                   /\ lk_calls'[u].kind = lk_calls[u].kind
      BY <2>6, <2>8
    <2>11. \A u \in LinkThreads : lk_calls[u].fd \in LinkFds \cup {-1}
      BY DEF LkInv, LkTypeOK, Calls
    <2>12. \A link \in lk_links : link.fd \in LinkFds /\ link.fd # fd
      BY <1>t, <2>1, LinksHaveFds DEF LkInv, OwnersAreApart
    <2>13. LkTypeOK' /\ ClosedIsMarked'
      <3>1. lk_events[fd].what # "closed"
        BY <2>1 DEF LkInv, OwnedIsOpen
      <3>2. QED
        BY <1>r, <2>2, <2>4, <2>8, <3>1 DEF LkInv, LkTypeOK, ClosedIsMarked
    <2>14. OwnersAreApart'
      BY <1>r, <2>10 DEF LkInv, OwnersAreApart
    <2>15. OwnedIsOpen'
      BY <1>r, <2>9, <2>10, <2>11, <2>12 DEF LkInv, LkTypeOK, OwnedIsOpen
    <2>16. CallsAreInOrder'
      <3>1. CallIsInOrder(t)'
        BY <1>r, <1>t, <2>1, <2>2, <2>4, <2>6, <2>8 DEF CallIsInOrder
      <3>2. ASSUME NEW u \in LinkThreads, u # t PROVE CallIsInOrder(u)'
        <4>1. lk_calls[u].fd # fd
          BY <2>1, <3>2 DEF LkInv, OwnersAreApart
        <4>2. QED
          BY <1>r, <2>4, <2>8, <2>11, <3>2, <4>1 DEF LkInv, CallsAreInOrder, CallIsInOrder
      <3>3. QED
        BY <3>1, <3>2 DEF CallsAreInOrder
    <2>17. LinksRunTheirPrograms'
      BY <1>r, <2>4, <2>12 DEF LkInv, LinksRunTheirPrograms
    <2>18. NoProgramIsLeft'
      BY <1>r, <2>4, <2>10 DEF LkInv, LkTypeOK, NoProgramIsLeft
    <2>19. QED
      BY <2>13, <2>14, <2>15, <2>16, <2>17, <2>18 DEF LkInv
  <1>3. QED
    BY <1>1, <1>2 DEF SetBpf

\* A link takes the descriptor over: from the call, or through it from the caller.
LEMMA EnableKeeps ==
  ASSUME LkInv, NEW t \in LinkThreads, Enable(t)
  PROVE  LkInv'
  <1> DEFINE fd == lk_calls[t].fd
  <1>t. LkTypeOK /\ lk_calls[t] \in Calls /\ CallIsInOrder(t)
    BY DEF LkInv, LkTypeOK, CallsAreInOrder
  <1>r. UNCHANGED lk_misread /\ lk_calls[t].pc = "enable"
    BY DEF Enable, LkAt
  <1>1. CASE AttachFailed(t) /\ lk_half' = lk_half \cup {fd} /\ UNCHANGED <<lk_events, lk_links, lk_own>>
    BY <1>1, <1>r, AttachFailedKeeps
  <1>2. CASE /\ lk_events' = [lk_events EXCEPT ![fd].on = TRUE]
             /\ NewLink(t, fd) /\ lk_own' = lk_own \ {fd} /\ LkReturn(t) /\ UNCHANGED lk_half
    <2> DEFINE event == [lk_events[fd] EXCEPT !.on = TRUE]
               new == [fd |-> fd, kind |-> lk_calls[t].kind, prog |-> lk_calls[t].prog,
                       what |-> lk_calls[t].what]
    <2>1. fd \in LinkFds /\ fd # -1 /\ lk_events[fd] \in Events
      BY <1>t, <1>r DEF CallIsInOrder, LkTypeOK, Calls
    <2>2. /\ event \in Events /\ event.what = lk_events[fd].what
          /\ event.prog = lk_events[fd].prog /\ event.on
      BY <2>1 DEF Events
    <2>3. lk_events' = [lk_events EXCEPT ![fd] = event]
      BY <1>2, <1>t, <2>1 DEF LkTypeOK, Events
    <2>4. /\ lk_events' \in [LinkFds -> Events] /\ lk_events'[fd] = event
          /\ \A f \in LinkFds : f # fd => lk_events'[f] = lk_events[f]
      BY <1>t, <2>1, <2>2, <2>3, EventUpdate
    <2>5. /\ lk_calls' \in [LinkThreads -> Calls] /\ lk_calls'[t] = LkIdle
          /\ \A u \in LinkThreads : u # t => lk_calls'[u] = lk_calls[u]
      BY <1>2, <1>t, CallUpdate, IdleCall DEF LkReturn
    <2>6. /\ new \in [fd : LinkFds, kind : LkKinds, prog : LkProgs, what : Whats]
          /\ new.fd = fd /\ new.prog = lk_calls[t].prog /\ new.what = lk_calls[t].what
      BY <1>t, <2>1 DEF Calls
    <2>7. lk_links' = lk_links \cup {new} /\ lk_own' = lk_own \ {fd} /\ lk_half' = lk_half
      BY <1>2 DEF NewLink
    <2> HIDE DEF event, new
    <2>8. \A link \in lk_links : link.fd \in LinkFds /\ link.fd # fd
      BY <1>t, LinksHaveFds DEF LkInv, OwnersAreApart
    <2>9. \A u \in LinkThreads : lk_calls[u].fd \in LinkFds \cup {-1}
      BY DEF LkInv, LkTypeOK, Calls
    <2>10. \A u \in LinkThreads : u # t => lk_calls[u].fd # fd
      BY <2>1 DEF LkInv, OwnersAreApart
    <2>11. lk_calls'[t].fd = -1
      BY <2>5, IdleCall
    <2>12. lk_events[fd].what # "closed"
      BY <2>1 DEF LkInv, OwnedIsOpen
    <2>13. LkTypeOK' /\ ClosedIsMarked'
      BY <1>r, <2>2, <2>4, <2>5, <2>6, <2>7, <2>12 DEF LkInv, LkTypeOK, ClosedIsMarked
    <2>14. OwnersAreApart'
      <3>1. \A link \in lk_links' :
              link.fd \notin lk_own' /\ \A u \in LinkThreads : lk_calls'[u].fd # link.fd
        BY <2>1, <2>5, <2>6, <2>7, <2>8, <2>10, <2>11, Marks DEF LkInv, OwnersAreApart
      <3>2. \A l1, l2 \in lk_links' : l1.fd = l2.fd => l1 = l2
        BY <2>6, <2>7, <2>8 DEF LkInv, OwnersAreApart
      <3>3. \A u, v \in LinkThreads :
              lk_calls'[u].fd # -1 /\ lk_calls'[u].fd = lk_calls'[v].fd => u = v
        BY <2>5, <2>11 DEF LkInv, OwnersAreApart
      <3>4. \A u \in LinkThreads :
              lk_calls'[u].fd # -1 => (lk_calls'[u].fd \in lk_own' <=> lk_calls'[u].kind = "perf_event")
        BY <2>5, <2>7, <2>10, <2>11 DEF LkInv, OwnersAreApart
      <3>5. QED
        BY <3>1, <3>2, <3>3, <3>4 DEF OwnersAreApart
    <2>15. OwnedIsOpen'
      <3>1. \A f \in LinkFds : lk_events'[f].what = lk_events[f].what
        BY <2>2, <2>4
      <3>2. QED
        BY <2>1, <2>5, <2>6, <2>7, <2>8, <2>9, <2>11, <2>12, <3>1, SMTT(30)
        DEF LkInv, LkTypeOK, OwnedIsOpen
    <2>16. CallsAreInOrder'
      <3>1. CallIsInOrder(t)'
        BY <2>5, IdleCall DEF CallIsInOrder
      <3>2. ASSUME NEW u \in LinkThreads, u # t PROVE CallIsInOrder(u)'
        BY <1>r, <2>4, <2>5, <2>7, <2>9, <2>10, <3>2 DEF LkInv, CallsAreInOrder, CallIsInOrder
      <3>3. QED
        BY <3>1, <3>2 DEF CallsAreInOrder
    <2>17. LinksRunTheirPrograms'
      <3>1. /\ lk_events'[new.fd].on /\ lk_events'[new.fd].prog = new.prog /\ LinkProgs[new.prog]
            /\ lk_events'[new.fd].what = new.what
            /\ ~ lk_misread => new.what # "misread"
        BY <1>r, <1>t, <2>1, <2>2, <2>4, <2>6 DEF CallIsInOrder
      <3>2. QED
        BY <1>r, <2>4, <2>7, <2>8, <3>1 DEF LkInv, LinksRunTheirPrograms
    <2>18. NoProgramIsLeft'
      BY <2>4, <2>5, <2>7, Marks DEF LkInv, LkTypeOK, NoProgramIsLeft
    <2>19. QED
      BY <2>13, <2>14, <2>15, <2>16, <2>17, <2>18 DEF LkInv
  <1>3. QED
    BY <1>1, <1>2 DEF Enable

\* A failing attach function closes the event it has opened.
LEMMA CloseEventKeeps ==
  ASSUME LkInv, NEW t \in LinkThreads, CloseEvent(t)
  PROVE  LkInv'
  <1> DEFINE fd == lk_calls[t].fd
  <1>t. LkTypeOK /\ lk_calls[t] \in Calls /\ CallIsInOrder(t)
    BY DEF LkInv, LkTypeOK, CallsAreInOrder
  <1>r. /\ UNCHANGED <<lk_misread, lk_links, lk_own>> /\ lk_calls[t].pc = "close"
        /\ lk_half' = lk_half \ {fd} /\ lk_events' = [lk_events EXCEPT ![fd] = Closed]
    BY DEF CloseEvent, LkAt
  <1>1. fd \in LinkFds /\ fd # -1 /\ lk_calls[t].kind # "perf_event"
    BY <1>t, <1>r DEF CallIsInOrder, Calls
  <1>2. Closed \in Events /\ Closed.what = "closed"
    BY DEF Closed, Events, LkProgs
  <1>3. /\ lk_events' \in [LinkFds -> Events] /\ lk_events'[fd] = Closed
        /\ \A f \in LinkFds : f # fd => lk_events'[f] = lk_events[f]
    BY <1>t, <1>r, <1>1, <1>2, EventUpdate
  <1>4. /\ lk_calls' \in [LinkThreads -> Calls] /\ lk_calls'[t] = LkIdle
        /\ \A u \in LinkThreads : u # t => lk_calls'[u] = lk_calls[u]
    BY <1>t, CallUpdate, IdleCall DEF CloseEvent, LkReturn
  <1>5. fd \notin lk_own /\ \A link \in lk_links : link.fd \in LinkFds /\ link.fd # fd /\ link.fd # -1
    BY <1>t, <1>1, LinksHaveFds DEF LkInv, OwnersAreApart
  <1>6. \A u \in LinkThreads : lk_calls[u].fd \in LinkFds \cup {-1} /\ (u # t => lk_calls[u].fd # fd)
    BY <1>1 DEF LkInv, LkTypeOK, Calls, OwnersAreApart
  <1>7. lk_calls'[t].fd = -1
    BY <1>4, IdleCall
  <1>8. LkTypeOK' /\ ClosedIsMarked'
    BY <1>r, <1>2, <1>3, <1>4 DEF LkInv, LkTypeOK, ClosedIsMarked
  <1>9. OwnersAreApart'
    BY <1>r, <1>4, <1>5, <1>7 DEF LkInv, OwnersAreApart
  <1>10. OwnedIsOpen'
    BY <1>r, <1>2, <1>3, <1>4, <1>5, <1>6, <1>7 DEF LkInv, LkTypeOK, OwnedIsOpen
  <1>11. CallsAreInOrder'
    <2>1. CallIsInOrder(t)'
      BY <1>4, IdleCall DEF CallIsInOrder
    <2>2. ASSUME NEW u \in LinkThreads, u # t PROVE CallIsInOrder(u)'
      BY <1>r, <1>3, <1>4, <1>6, <2>2 DEF LkInv, CallsAreInOrder, CallIsInOrder
    <2>3. QED
      BY <2>1, <2>2 DEF CallsAreInOrder
  <1>12. LinksRunTheirPrograms'
    BY <1>r, <1>3, <1>5 DEF LkInv, LinksRunTheirPrograms
  <1>13. NoProgramIsLeft'
    BY <1>r, <1>3, <1>4, <1>5 DEF LkInv, LkTypeOK, NoProgramIsLeft
  <1>14. QED
    BY <1>8, <1>9, <1>10, <1>11, <1>12, <1>13 DEF LkInv

\* A raw tracepoint is opened with its program, as the event of a new link.
LEMMA OpenRawKeeps ==
  ASSUME LkInv, NEW t \in LinkThreads, OpenRaw(t)
  PROVE  LkInv'
  <1>t. LkTypeOK /\ lk_calls[t] \in Calls /\ CallIsInOrder(t)
    BY DEF LkInv, LkTypeOK, CallsAreInOrder
  <1>r. /\ UNCHANGED <<lk_own, lk_misread, lk_half>>
        /\ lk_calls[t].pc = "raw" /\ lk_calls[t].fd = -1 /\ LkReturn(t)
    BY <1>t DEF OpenRaw, LkAt, CallIsInOrder
  <1>1. CASE UNCHANGED <<lk_events, lk_links>>
    BY <1>1, <1>r, ReturnKeeps
  <1>2. CASE /\ LinkProgs[lk_calls[t].prog]
             /\ OpenFd([what |-> lk_calls[t].what, prog |-> lk_calls[t].prog, on |-> TRUE])
             /\ NewLink(t, Min(FreeFds))
    <2> DEFINE fd == Min(FreeFds)
               event == [what |-> lk_calls[t].what, prog |-> lk_calls[t].prog, on |-> TRUE]
               new == [fd |-> fd, kind |-> lk_calls[t].kind, prog |-> lk_calls[t].prog,
                       what |-> lk_calls[t].what]
    <2>1. fd \in LinkFds /\ lk_events[fd] = Closed
      BY <1>2, LowestIsFree DEF OpenFd
    <2>2. /\ fd \notin lk_own
          /\ \A link \in lk_links : link.fd # fd
          /\ \A u \in LinkThreads : lk_calls[u].fd # fd
      BY <2>1, FreeHasNoOwner
    <2>3. lk_calls[t].what \in Whats /\ lk_calls[t].prog \in LkProgs
      BY <1>t DEF Calls
    <2>4. /\ event \in Events /\ event.what = lk_calls[t].what /\ event.what # "closed"
          /\ event.prog = lk_calls[t].prog /\ event.on
      BY <2>3, Marks DEF Events
    <2>5. /\ lk_events' \in [LinkFds -> Events] /\ lk_events'[fd] = event
          /\ \A f \in LinkFds : f # fd => lk_events'[f] = lk_events[f]
      BY <1>2, <1>t, <2>1, <2>4, EventUpdate DEF OpenFd
    <2>6. /\ lk_calls' \in [LinkThreads -> Calls] /\ lk_calls'[t] = LkIdle
          /\ \A u \in LinkThreads : u # t => lk_calls'[u] = lk_calls[u]
      BY <1>r, <1>t, CallUpdate, IdleCall DEF LkReturn
    <2>7. /\ new \in [fd : LinkFds, kind : LkKinds, prog : LkProgs, what : Whats]
          /\ new.fd = fd /\ new.prog = lk_calls[t].prog /\ new.what = lk_calls[t].what
      BY <1>t, <2>1 DEF Calls
    <2>8. lk_links' = lk_links \cup {new}
      BY <1>2 DEF NewLink
    <2> HIDE DEF fd, event, new
    <2>9. \A link \in lk_links : link.fd \in LinkFds
      BY <1>t, LinksHaveFds
    <2>10. \A u \in LinkThreads : lk_calls[u].fd \in LinkFds \cup {-1}
      BY DEF LkInv, LkTypeOK, Calls
    <2>11. lk_calls'[t].fd = -1
      BY <2>6, IdleCall
    <2>12. LkTypeOK' /\ ClosedIsMarked'
      BY <1>r, <2>4, <2>5, <2>6, <2>7, <2>8 DEF LkInv, LkTypeOK, ClosedIsMarked
    <2>13. OwnersAreApart'
      BY <1>r, <2>1, <2>2, <2>6, <2>7, <2>8, <2>11, Marks DEF LkInv, OwnersAreApart
    <2>14. OwnedIsOpen'
      BY <1>r, <2>1, <2>2, <2>4, <2>5, <2>6, <2>7, <2>8, <2>9, <2>10, <2>11, Marks
      DEF LkInv, LkTypeOK, OwnedIsOpen
    <2>15. CallsAreInOrder'
      <3>1. CallIsInOrder(t)'
        BY <2>6, IdleCall DEF CallIsInOrder
      <3>2. ASSUME NEW u \in LinkThreads, u # t PROVE CallIsInOrder(u)'
        BY <1>r, <2>2, <2>5, <2>6, <2>10, <3>2 DEF LkInv, CallsAreInOrder, CallIsInOrder
      <3>3. QED
        BY <3>1, <3>2 DEF CallsAreInOrder
    <2>16. LinksRunTheirPrograms'
      BY <1>2, <1>r, <1>t, <2>2, <2>4, <2>5, <2>7, <2>8, <2>9
      DEF LkInv, LinksRunTheirPrograms, CallIsInOrder
    <2>17. NoProgramIsLeft'
      BY <1>r, <2>2, <2>5, <2>6, Marks DEF LkInv, LkTypeOK, NoProgramIsLeft
    <2>18. QED
      BY <2>12, <2>13, <2>14, <2>15, <2>16, <2>17 DEF LkInv
  <1>3. QED
    BY <1>1, <1>2 DEF OpenRaw

\* bpf_link__destroy takes the descriptor from the link to close it.
LEMMA DestroyLinkKeeps ==
  ASSUME LkInv, NEW t \in LinkThreads, DestroyLink(t)
  PROVE  LkInv'
  <1>t. LkTypeOK /\ CallIsInOrder(t)
    BY DEF LkInv, CallsAreInOrder
  <1>1. PICK link \in lk_links :
          /\ lk_calls[t].pc = "idle"
          /\ lk_calls' = [lk_calls EXCEPT ![t] = [LkIdle EXCEPT !.pc = "close", !.fd = link.fd]]
          /\ lk_links' = lk_links \ {link}
          /\ lk_events' = lk_events \/ lk_events' = [lk_events EXCEPT ![link.fd].on = FALSE]
          /\ UNCHANGED <<lk_own, lk_misread, lk_half>>
    BY DEF DestroyLink, LkAt
  <1> DEFINE fd == link.fd
             call == [LkIdle EXCEPT !.pc = "close", !.fd = fd]
             event == [lk_events[fd] EXCEPT !.on = FALSE]
  <1>2. fd \in LinkFds /\ fd # -1 /\ lk_events[fd] \in Events /\ lk_calls[t].fd = -1
    BY <1>t, <1>1, LinksHaveFds DEF LkTypeOK, CallIsInOrder
  <1>3. /\ call \in Calls /\ call.fd = fd /\ call.pc = "close" /\ call.kind = "none"
        /\ call.what = "none"
    BY <1>2 DEF LkIdle, Calls, LkPcs, LkKinds, LkProgs, Whats
  <1>4. /\ lk_calls' \in [LinkThreads -> Calls] /\ lk_calls'[t] = call
        /\ \A u \in LinkThreads : u # t => lk_calls'[u] = lk_calls[u]
    BY <1>t, <1>1, <1>3, CallUpdate
  <1>5. /\ lk_events' \in [LinkFds -> Events]
        /\ lk_events'[fd].what = lk_events[fd].what
        /\ \A f \in LinkFds : f # fd => lk_events'[f] = lk_events[f]
    <2>1. event \in Events /\ event.what = lk_events[fd].what
      BY <1>2 DEF Events
    <2>2. CASE lk_events' = lk_events
      BY <1>t, <2>2 DEF LkTypeOK
    <2>3. CASE lk_events' = [lk_events EXCEPT ![link.fd].on = FALSE]
      <3>1. lk_events' = [lk_events EXCEPT ![fd] = event]
        BY <1>t, <1>2, <2>3 DEF LkTypeOK, Events
      <3>2. QED
        BY <1>t, <1>2, <2>1, <3>1, EventUpdate
    <2>4. QED
      BY <1>1, <2>2, <2>3
  <1> HIDE DEF call, event
  <1>6. /\ fd \notin lk_own /\ \A u \in LinkThreads : lk_calls[u].fd # fd
        /\ \A l \in lk_links' : l.fd \in LinkFds /\ l.fd # fd /\ l \in lk_links
    BY <1>t, <1>1, LinksHaveFds DEF LkInv, OwnersAreApart
  <1>7. \A u \in LinkThreads : lk_calls[u].fd \in LinkFds \cup {-1}
    BY DEF LkInv, LkTypeOK, Calls
  <1>8. lk_events[fd].what # "closed"
    BY <1>1 DEF LkInv, OwnedIsOpen
  <1>9. LkTypeOK' /\ ClosedIsMarked'
    BY <1>1, <1>4, <1>5, <1>8 DEF LkInv, LkTypeOK, ClosedIsMarked
  <1>10. OwnersAreApart'
    <2>1. \A l \in lk_links' :
            l.fd \notin lk_own' /\ \A u \in LinkThreads : lk_calls'[u].fd # l.fd
      BY <1>1, <1>3, <1>4, <1>6 DEF LkInv, OwnersAreApart
    <2>2. \A l1, l2 \in lk_links' : l1.fd = l2.fd => l1 = l2
      BY <1>6 DEF LkInv, OwnersAreApart
    <2>3. \A u, v \in LinkThreads :
            lk_calls'[u].fd # -1 /\ lk_calls'[u].fd = lk_calls'[v].fd => u = v
      BY <1>2, <1>3, <1>4, <1>6 DEF LkInv, OwnersAreApart
    <2>4. \A u \in LinkThreads :
            lk_calls'[u].fd # -1 => (lk_calls'[u].fd \in lk_own' <=> lk_calls'[u].kind = "perf_event")
      <3>1. lk_calls'[t].fd \notin lk_own' /\ lk_calls'[t].kind # "perf_event"
        <4>1. lk_own' = lk_own
          BY <1>1
        <4>2. lk_calls'[t].fd = fd /\ lk_calls'[t].kind = "none"
          BY <1>3, <1>4
        <4>3. QED
          BY <1>6, <4>1, <4>2
      <3>2. \A u \in LinkThreads : lk_calls[u].fd # -1 =>
              (lk_calls[u].fd \in lk_own <=> lk_calls[u].kind = "perf_event")
        BY DEF LkInv, OwnersAreApart
      <3>3. QED
        <4>1. lk_own' = lk_own
          BY <1>1
        <4>2. QED
          BY <1>4, <3>1, <3>2, <4>1
    <2>5. QED
      BY <2>1, <2>2, <2>3, <2>4 DEF OwnersAreApart
  <1>11. OwnedIsOpen'
    <2>e. \A f \in LinkFds : lk_events'[f].what = lk_events[f].what
      BY <1>5
    <2>1. \A l \in lk_links' : lk_events'[l.fd].what # "closed"
      BY <1>6, <2>e DEF LkInv, OwnedIsOpen
    <2>2. \A u \in LinkThreads :
            lk_calls'[u].fd # -1 => lk_events'[lk_calls'[u].fd].what # "closed"
      BY <1>2, <1>3, <1>4, <1>7, <1>8, <2>e DEF LkInv, OwnedIsOpen
    <2>3. \A f \in lk_own' : lk_events'[f].what \in LinkWhats
      BY <1>1, <2>e DEF LkInv, LkTypeOK, OwnedIsOpen
    <2>4. ASSUME NEW f \in LinkFds, lk_events'[f].what # "closed"
          PROVE  \/ f \in lk_own'
                 \/ \E l \in lk_links' : l.fd = f
                 \/ \E u \in LinkThreads : lk_calls'[u].fd = f
      <3>1. CASE f = fd
        BY <1>3, <1>4, <3>1
      <3>2. CASE f # fd
        <4>1. \/ f \in lk_own
              \/ \E l \in lk_links : l.fd = f
              \/ \E u \in LinkThreads : lk_calls[u].fd = f
          BY <2>4, <2>e DEF LkInv, OwnedIsOpen
        <4>2. \A l \in lk_links : l.fd = f => l \in lk_links'
          BY <1>1, <3>2
        <4>3. \A u \in LinkThreads : lk_calls[u].fd = f => lk_calls'[u].fd = f
          BY <1>2, <1>4, Marks
        <4>4. QED
          BY <1>1, <4>1, <4>2, <4>3
      <3>3. QED
        BY <3>1, <3>2
    <2>5. QED
      BY <2>1, <2>2, <2>3, <2>4 DEF OwnedIsOpen
  <1>12. CallsAreInOrder'
    <2>1. CallIsInOrder(t)'
      BY <1>2, <1>3, <1>4 DEF CallIsInOrder
    <2>2. ASSUME NEW u \in LinkThreads, u # t PROVE CallIsInOrder(u)'
      BY <1>1, <1>4, <1>5, <1>6, <1>7, <2>2 DEF LkInv, CallsAreInOrder, CallIsInOrder
    <2>3. QED
      BY <2>1, <2>2 DEF CallsAreInOrder
  <1>13. LinksRunTheirPrograms'
    BY <1>1, <1>5, <1>6 DEF LkInv, LinksRunTheirPrograms
  <1>14. NoProgramIsLeft'
    BY <1>1, <1>2, <1>4, <1>5, <1>6, Marks DEF LkInv, LkTypeOK, NoProgramIsLeft
  <1>15. QED
    BY <1>9, <1>10, <1>11, <1>12, <1>13, <1>14 DEF LkInv

-----------------------------------------------------------------------------
(* The theorems.                                                           *)

\* Every step of the attach functions keeps the invariant.
LEMMA LkInvStep == LkInv /\ [LkNext]_lkVars => LkInv'
  <1> SUFFICES ASSUME LkInv, [LkNext]_lkVars PROVE LkInv'
    OBVIOUS
  <1>1. CASE UserOpens
    BY <1>1, UserOpensKeeps
  <1>2. CASE UserCloses
    BY <1>2, UserClosesKeeps
  <1>3. ASSUME NEW t \in LinkThreads, AttachProbe(t) PROVE LkInv'
    <2>1. PICK kind \in {"kprobe", "uprobe"}, prog \in DOMAIN LinkProgs, what \in LinkWhats,
               ret \in BOOLEAN :
            LkCall(t, [pc |-> "type", kind |-> kind, prog |-> prog, what |-> what, ret |-> ret,
                       fd |-> -1])
      BY <1>3 DEF AttachProbe
    <2>2. [pc |-> "type", kind |-> kind, prog |-> prog, what |-> what, ret |-> ret, fd |-> -1]
            \in Calls
      BY Marks DEF Calls, LkPcs, LkKinds, LkProgs, Probes
    <2>3. QED
      BY <2>1, <2>2, CallBegins, Marks DEF Probes
  <1>4. ASSUME NEW t \in LinkThreads, AttachTracepoint(t) PROVE LkInv'
    <2>1. PICK prog \in DOMAIN LinkProgs, what \in LinkWhats :
            LkCall(t, [pc |-> "id", kind |-> "tracepoint", prog |-> prog, what |-> what,
                       ret |-> FALSE, fd |-> -1])
      BY <1>4 DEF AttachTracepoint
    <2>2. [pc |-> "id", kind |-> "tracepoint", prog |-> prog, what |-> what, ret |-> FALSE,
           fd |-> -1] \in Calls
      BY Marks DEF Calls, LkPcs, LkKinds, LkProgs, Probes
    <2>3. QED
      BY <2>1, <2>2, CallBegins, Marks DEF Probes
  <1>5. ASSUME NEW t \in LinkThreads, AttachRaw(t) PROVE LkInv'
    <2>1. PICK prog \in DOMAIN LinkProgs, what \in LinkWhats :
            LkCall(t, [pc |-> "raw", kind |-> "raw", prog |-> prog, what |-> what,
                       ret |-> FALSE, fd |-> -1])
      BY <1>5 DEF AttachRaw
    <2>2. [pc |-> "raw", kind |-> "raw", prog |-> prog, what |-> what, ret |-> FALSE,
           fd |-> -1] \in Calls
      BY Marks DEF Calls, LkPcs, LkKinds, LkProgs
    <2>3. QED
      BY <2>1, <2>2, CallBegins, Marks
  <1>6. ASSUME NEW t \in LinkThreads, ReadType(t) \/ ReadRetprobeBit(t) \/ ReadTracepointId(t)
        PROVE  LkInv'
    <2>1. CASE ReadType(t)
      BY <2>1, ParsedKeeps DEF ReadType, LkAt
    <2>2. CASE ReadRetprobeBit(t)
      BY <2>2, ParsedKeeps DEF ReadRetprobeBit, LkAt
    <2>3. CASE ReadTracepointId(t)
      BY <2>3, ParsedKeeps DEF ReadTracepointId, LkAt
    <2>4. QED
      BY <1>6, <2>1, <2>2, <2>3
  <1>7. ASSUME NEW t \in LinkThreads, LkStep(t) PROVE LkInv'
    BY <1>3, <1>4, <1>5, <1>6, <1>7, AttachOwnKeeps, OpenProbeKeeps, AttachChecksKeeps,
       SetBpfKeeps, EnableKeeps, CloseEventKeeps, OpenRawKeeps, DestroyLinkKeeps
    DEF LkStep
  <1>8. CASE UNCHANGED lkVars
    BY <1>8
    DEF lkVars, LkInv, LkTypeOK, ClosedIsMarked, OwnersAreApart, OwnedIsOpen,
        CallsAreInOrder, CallIsInOrder, LinksRunTheirPrograms, NoProgramIsLeft
  <1>9. QED
    BY <1>1, <1>2, <1>7, <1>8 DEF LkNext

\* Owners and events are as the invariant says in every reachable state.
THEOREM LinksInvariant == LkSpec => []LkInv
  <1>1. LkInit => LkInv
    BY LkInvInit
  <1>2. LkInv /\ [LkNext]_lkVars => LkInv'
    BY LkInvStep
  <1>3. QED
    BY <1>1, <1>2, PTL DEF LkSpec

\* The attach functions and bpf_link__destroy: every open event has one owner, a
\* link runs the program and the event it was made for, and a failed attach leaves
\* no program behind, whatever other threads do between two system calls.
THEOREM LinksAlwaysOwn == LkSpec => []LinksOwnTheirEvents
  <1>1. LkInv => LinksOwnTheirEvents
    <2> SUFFICES ASSUME LkInv PROVE EventsHaveOneOwner
      BY DEF LinksOwnTheirEvents, LkInv
    <2> SUFFICES ASSUME NEW fd \in LinkFds
                 PROVE  LET links == {link \in lk_links : link.fd = fd}
                            calls == {t \in LinkThreads : lk_calls[t].fd = fd}
                        IN /\ lk_events[fd] = Closed => links = {} /\ calls = {} /\ fd \notin lk_own
                           /\ lk_events[fd] # Closed =>
                                Cardinality(links) + (IF fd \in lk_own THEN 1 ELSE Cardinality(calls)) = 1
      BY DEF EventsHaveOneOwner
    <2> DEFINE links == {link \in lk_links : link.fd = fd}
               calls == {t \in LinkThreads : lk_calls[t].fd = fd}
    <2>1. lk_events[fd] = Closed => links = {} /\ calls = {} /\ fd \notin lk_own
      BY FreeHasNoOwner
    <2>2. ASSUME lk_events[fd] # Closed
          PROVE  Cardinality(links) + (IF fd \in lk_own THEN 1 ELSE Cardinality(calls)) = 1
      <3>0. fd # -1 /\ lk_events[fd].what # "closed"
        BY <2>2, Marks DEF LkInv, ClosedIsMarked
      <3>1. Cardinality({}) = 0 /\ \A x : Cardinality({x}) = 1
        BY FS_EmptySet, FS_Singleton
      <3>2. CASE fd \in lk_own
        <4>1. links = {}
          BY <3>2 DEF LkInv, OwnersAreApart
        <4>2. QED
          BY <3>1, <3>2, <4>1
      <3>3. CASE fd \notin lk_own /\ \E link \in lk_links : link.fd = fd
        <4>1. PICK link \in lk_links : link.fd = fd
          BY <3>3
        <4>2. links = {link}
          BY <4>1 DEF LkInv, OwnersAreApart
        <4>3. calls = {}
          BY <4>1 DEF LkInv, OwnersAreApart
        <4>4. Cardinality(links) = 1 /\ Cardinality(calls) = 0
          BY <3>1, <4>2, <4>3
        <4>5. QED
          BY <3>3, <4>4
      <3>4. CASE fd \notin lk_own /\ ~ \E link \in lk_links : link.fd = fd
        <4>1. PICK t \in LinkThreads : lk_calls[t].fd = fd
          BY <3>0, <3>4 DEF LkInv, OwnedIsOpen
        <4>2. calls = {t}
          BY <3>0, <4>1 DEF LkInv, OwnersAreApart
        <4>3. links = {}
          BY <3>4
        <4>4. Cardinality(links) = 0 /\ Cardinality(calls) = 1
          BY <3>1, <4>2, <4>3
        <4>5. QED
          BY <3>4, <4>4
      <3>5. QED
        BY <3>2, <3>3, <3>4
    <2>3. QED
      BY <2>1, <2>2
  <1>2. QED
    BY LinksInvariant, <1>1, PTL

-----------------------------------------------------------------------------
(* Pinning.                                                                *)

SameName(f, g) == f[1] = g[1] /\ f[2] = g[2] /\ f[3] = g[3] /\ f[4] = g[4]
Dirs == PinDirs \cup {Autodir, "none"}
MapStates == [1 .. PinMaps -> [dir : Dirs, pinned : BOOLEAN]]
Files == Dirs \X {"map", "prog"} \X Nat \X Nat \X {"own", "other"}
OpPcs == {"idle", "map", "unpin", "unmap", "prog", "unpin_inst", "unpin_prog", "unprog"}
UndoingPrograms == {"unpin_inst", "unpin_prog"}
OpPlaces == [pc : OpPcs, call : PinCalls \cup {"unpin_maps", "unpin_programs", "none"}, dir : Dirs,
             i : Nat, k : Nat]

OpTypeOK ==
  /\ op_map \in MapStates /\ op_files \subseteq Files /\ op \in OpPlaces
  /\ op_before \in [files : SUBSET Files, map : MapStates]

\* Two files never have one name.
NamesApart == \A f, g \in op_files : SameName(f, g) => f = g

\* Where each call may be.
OpPlace ==
  /\ op.pc \in {"map", "unpin"} => op.call \in {"pin", "pin_maps"}
  /\ op.pc = "unmap" => op.call \in {"pin", "unpin_maps"}
  /\ op.pc \in {"map", "unmap"} => op.i \in 1 .. PinMaps
  /\ op.pc = "unpin" => op.i \in 0 .. PinMaps
  /\ op.pc = "unprog" => op.call = "unpin_programs"
  /\ op.pc \in {"prog"} \cup UndoingPrograms => op.call \in {"pin", "pin_programs"}
  /\ op.pc \in {"prog", "unpin_inst", "unprog"} => op.i \in Progs /\ op.k \in 0 .. Instances[op.i] - 1
  /\ op.pc = "unpin_prog" /\ op.i # 0 => op.i \in Progs /\ op.k \in 0 .. Instances[op.i] - 1
  /\ op.call \in {"pin", "pin_programs"} => op.dir # "none"

\* The maps that the call would unpin again if it failed now, and the programs' files.
UndoMaps(pc, call, i) ==
  {m \in 1 .. PinMaps : \/ pc = "map" /\ m < i
                        \/ pc = "unpin" /\ m <= i
                        \/ pc = "unmap" /\ m >= i
                        \/ pc \in {"prog"} \cup UndoingPrograms /\ call = "pin"}
MapsToUndo == UndoMaps(op.pc, op.call, op.i)
\* The files of a program before instance k, and from it on; those of the programs before program p.
FilesOf(dir, q, k) == {ProgFile(dir, q, j, "own") : j \in 0 .. k - 1}
FilesFrom(dir, q, k) == {ProgFile(dir, q, j, "own") : j \in k .. Instances[q] - 1}
FilesEarlier(dir, p) == UNION {FilesOf(dir, q, Instances[q]) : q \in 1 .. p - 1}
FilesBefore(dir, p, k) == FilesOf(dir, p, k) \cup FilesEarlier(dir, p)
FilesAhead(dir, p, k) == IF p = 0 THEN {} ELSE FilesFrom(dir, p, k) \cup FilesEarlier(dir, p)
ProgsToUndo ==
  IF op.pc \in {"prog", "unpin_inst"} THEN FilesBefore(op.dir, op.i, op.k)
  ELSE IF op.pc = "unpin_prog" THEN FilesAhead(op.dir, op.i, op.k) ELSE {}
OwnFile(m) == MapFile(op_map[m].dir, m, "own")

\* All that a failure would undo is there, ...
Held ==
  /\ \A m \in MapsToUndo :
       IF op.dir = "none" THEN op_map[m].pinned \/ op_map[m].dir = "none"
       ELSE op_map[m].pinned /\ op_map[m].dir = op.dir
  /\ ProgsToUndo \subseteq op_files
\* ... and was not there before, or belongs to a map that was pinned then.
Known ==
  /\ \A m \in MapsToUndo : op_map[m].pinned /\ OwnFile(m) \in op_before.files =>
                              op_before.map[m] = op_map[m]
  /\ op.pc = "map" => \A m \in op.i .. PinMaps : op_before.map[m] = op_map[m]
  /\ ProgsToUndo \cap op_before.files = {}

\* What the call has added since it began is what it would undo, or could not, ...
Added ==
  op.pc # "idle" \/ op_ret = "error" =>
    \A f \in op_files : \/ f \in op_before.files \cup ProgsToUndo \/ NotUndone(f)
                        \/ \E m \in MapsToUndo : op_map[m].pinned /\ f = OwnFile(m)
\* ... and what it has removed are the pins of maps that were pinned before.
Gone ==
  /\ op.pc \in {"map", "prog"} \cup UndoingPrograms => op_before.files \subseteq op_files
  /\ \A f \in op_before.files \ op_files :
       f[5] = "own" /\ f[2] = "map" /\ op_before.map[f[3]] = [dir |-> f[1], pinned |-> TRUE]

PinnedHasDir == \A m \in 1 .. PinMaps : op_map[m].pinned => op_map[m].dir # "none"

\* The inductive invariant.
OpBase == OpTypeOK /\ NamesApart /\ OpPlace /\ PinnedIsThere /\ PinnedHasDir
OpUndo == op.call \in PinCalls => Held /\ Known /\ Added /\ Gone
OpInv == OpBase /\ OpUndo

-----------------------------------------------------------------------------

\* The object has maps and programs, and each program has instances.
LEMMA ProgramsThere ==
  /\ PinMaps \in Nat \ {0} /\ Len(Instances) \in Nat \ {0} /\ Progs = 1 .. Len(Instances)
  /\ \A p \in Progs : Instances[p] \in Nat \ {0}
  <1>1. Instances \in Seq(Nat \ {0}) /\ Instances # <<>> /\ PinMaps \in Nat \ {0}
    BY ObjectPinAssumption
  <1>2. \A T, s : s \in Seq(T) /\ s # <<>> =>
          Len(s) \in Nat \ {0} /\ DOMAIN s = 1 .. Len(s) /\ \A p \in DOMAIN s : s[p] \in T
    OBVIOUS
  <1>. QED BY ONLY <1>1, <1>2 DEF Progs

\* A file's fields are what it was named by.
LEMMA FileFields ==
  /\ \A d, m, o : LET f == MapFile(d, m, o)
                  IN f[1] = d /\ f[2] = "map" /\ f[3] = m /\ f[4] = 0 /\ f[5] = o
  /\ \A d, p, k, o : LET f == ProgFile(d, p, k, o)
                     IN f[1] = d /\ f[2] = "prog" /\ f[3] = p /\ f[4] = k /\ f[5] = o
  /\ \A d \in Dirs, m \in Nat, o \in {"own", "other"} : MapFile(d, m, o) \in Files
  /\ \A d \in Dirs, p \in Nat, k \in Nat, o \in {"own", "other"} : ProgFile(d, p, k, o) \in Files
  BY DEF MapFile, ProgFile, Files

\* Files of the same name and owner are the same.
LEMMA FilesAreTheirFields ==
  ASSUME NEW f \in Files, NEW g \in Files, SameName(f, g), f[5] = g[5]
  PROVE  f = g
  BY DEF Files, SameName

\* What a name that is taken, and the files without a name, come to.
LEMMA NamesMean ==
  ASSUME NEW file
  PROVE  /\ Taken(file) <=> \E f \in op_files : SameName(f, file)
         /\ Without(file) = {f \in op_files : ~ SameName(f, file)}
  BY DEF Taken, Without, SameName

\* The name of a file that is there is that file's alone.
LEMMA WithoutOne ==
  ASSUME NamesApart, NEW file \in op_files
  PROVE  Without(file) = op_files \ {file} /\ Taken(file)
  <1>1. SameName(file, file)
    BY DEF SameName
  <1>. QED BY <1>1, NamesMean DEF NamesApart

\* A file under a free name is new, and leaves names apart.
LEMMA NewName ==
  ASSUME NamesApart, NEW file, ~ Taken(file)
  PROVE  /\ file \notin op_files
         /\ \A f, g \in op_files \cup {file} : SameName(f, g) => f = g
  <1>1. SameName(file, file) /\ \A f, g : SameName(f, g) => SameName(g, f)
    BY DEF SameName
  <1>. QED BY <1>1, NamesMean DEF NamesApart

\* What was left behind stays so.
LEMMA StaysLeft ==
  ASSUME op_stuck \subseteq op_stuck', op'.call = op.call
  PROVE  \A f : NotUndone(f) => NotUndone(f)'
  <1> QED BY DEF NotUndone

\* The place of the call after a step.
LEMMA OpMoves ==
  ASSUME OpTypeOK
  PROVE  /\ \A pc \in OpPcs, i \in Nat, k \in Nat : OpAt(pc, i, k) =>
              op' \in OpPlaces /\ op'.pc = pc /\ op'.i = i /\ op'.k = k
              /\ op'.call = op.call /\ op'.dir = op.dir
         /\ \A ret : OpReturn(ret) =>
              op' \in OpPlaces /\ op'.pc = "idle" /\ op'.call = op.call /\ op'.dir = op.dir /\ op_ret' = ret
  BY ZenonT(60) DEF OpTypeOK, OpPlaces, OpAt, OpReturn, OpPcs

-----------------------------------------------------------------------------
(* Maps.                                                                   *)

\* After map m of a call that pins: the next map, the first program or the end.
LEMMA NextMapMoves ==
  ASSUME OpTypeOK, OpPlace, op.pc = "map", NextMapToPin(op.i)
  PROVE  /\ op' \in OpPlaces /\ OpPlace' /\ op'.call = op.call /\ op'.dir = op.dir
         /\ ProgsToUndo' = {}
         /\ \/ op'.pc = "idle" /\ op_ret' = "0" /\ MapsToUndo' = {}
            \/ op'.pc \in {"map", "prog"} /\ MapsToUndo' = MapsToUndo \cup {op.i}
         /\ op'.pc = "map" => op'.i = op.i + 1
  <1>. PICK m \in 1 .. PinMaps : m = op.i
    BY DEF OpPlace
  <1>0. m \in Nat /\ PinMaps \in Nat \ {0} /\ MapsToUndo = {x \in 1 .. PinMaps : x < m}
    BY ProgramsThere DEF UndoingPrograms, MapsToUndo, UndoMaps
  <1>1. CASE m < PinMaps /\ OpAt("map", m + 1, 0)
    <2>1. op' \in OpPlaces /\ op'.pc = "map" /\ op'.i = m + 1 /\ op'.call = op.call /\ op'.dir = op.dir
      BY <1>0, <1>1, OpMoves DEF OpPcs
    <2>2. MapsToUndo' = MapsToUndo \cup {m}
      BY <1>0, <2>1 DEF MapsToUndo, UndoMaps
    <2>3. OpPlace'
      BY <1>0, <1>1, <2>1 DEF OpPlace
    <2>. QED BY <2>1, <2>2, <2>3 DEF ProgsToUndo
  <1>2. CASE m = PinMaps /\ op.call = "pin" /\ OpAt("prog", 1, 0)
    <2>1. op' \in OpPlaces /\ op'.pc = "prog" /\ op'.i = 1 /\ op'.k = 0 /\ op'.call = "pin"
          /\ op'.dir = op.dir
      BY <1>0, <1>2, OpMoves DEF OpPcs
    <2>2. MapsToUndo' = MapsToUndo \cup {m}
      BY <1>0, <1>2, <2>1 DEF MapsToUndo, UndoMaps
    <2>3. OpPlace'
      BY <1>2, <2>1, ProgramsThere DEF OpPlace
    <2>4. ProgsToUndo' = {}
      BY <2>1 DEF ProgsToUndo, FilesBefore, FilesEarlier, FilesOf
    <2>. QED BY <1>2, <2>1, <2>2, <2>3, <2>4
  <1>3. CASE m = PinMaps /\ OpReturn("0")
    <2>1. op' \in OpPlaces /\ op'.pc = "idle" /\ op'.call = op.call /\ op'.dir = op.dir /\ op_ret' = "0"
      BY <1>3, OpMoves
    <2>2. MapsToUndo' = {} /\ ProgsToUndo' = {}
      BY <2>1 DEF UndoingPrograms, MapsToUndo, UndoMaps, ProgsToUndo
    <2>. QED BY <2>1, <2>2 DEF UndoingPrograms, OpPlace
  <1>. QED BY <1>0, <1>1, <1>2, <1>3 DEF NextMapToPin

\* A failure goes back to the map before.
LEMMA UnpinMoves ==
  ASSUME OpTypeOK, OpPlace, op.pc \in {"map", "unpin"}, op.i > 0, OpAt("unpin", op.i - 1, 0)
  PROVE  /\ op' \in OpPlaces /\ OpPlace' /\ op'.call = op.call /\ op'.dir = op.dir /\ op'.pc = "unpin"
         /\ ProgsToUndo' = {} /\ MapsToUndo' = MapsToUndo \ {op.i} /\ op.i \in 1 .. PinMaps
         /\ op.pc = "map" => op.i \notin MapsToUndo
  <1>. PICK m \in 1 .. PinMaps : m = op.i
    BY DEF OpPlace
  <1>0. m - 1 \in Nat /\ PinMaps \in Nat \ {0}
    BY ProgramsThere
  <1>1. op' \in OpPlaces /\ op'.pc = "unpin" /\ op'.i = m - 1 /\ op'.call = op.call /\ op'.dir = op.dir
    BY <1>0, OpMoves DEF OpPcs
  <1>2. MapsToUndo' = MapsToUndo \ {m} /\ (op.pc = "map" => m \notin MapsToUndo)
    BY <1>0, <1>1 DEF UndoingPrograms, MapsToUndo, UndoMaps
  <1>3. OpPlace'
    BY <1>0, <1>1 DEF UndoingPrograms, OpPlace
  <1>. QED BY <1>1, <1>2, <1>3 DEF ProgsToUndo

\* bpf_object__pin_maps pins one map, or fails to.
LEMMA PinOneMapKeeps == OpInv /\ PinOneMap => OpInv'
  <1>. SUFFICES ASSUME OpInv, PinOneMap PROVE OpInv'
    OBVIOUS
  <1>. PICK m \in 1 .. PinMaps : m = op.i
    BY DEF OpInv, OpBase, OpPlace, PinOneMap
  <1>. PICK dir : dir = IF op_map[m].dir # "none" THEN op_map[m].dir ELSE op.dir
    OBVIOUS
  <1>0. /\ op.pc = "map" /\ op.call \in {"pin", "pin_maps"} /\ op.call \in PinCalls /\ op_before' = op_before
        /\ PinMaps \in Nat \ {0} /\ dir \in Dirs /\ op_stuck' = op_stuck
        /\ MapsToUndo \subseteq 1 .. PinMaps /\ m \notin MapsToUndo /\ ProgsToUndo = {}
    BY ProgramsThere
    DEF UndoingPrograms, PinOneMap, OpInv, OpBase, OpPlace, MapsToUndo, UndoMaps, ProgsToUndo, PinCalls,
                         OpTypeOK, MapStates, OpPlaces
  <1>1. OpBase /\ Held /\ Known /\ Added /\ Gone
    BY <1>0 DEF OpInv, OpUndo
  <1>2. ASSUME UNCHANGED <<op_map, op_files>>, NextMapToPin(m),
               \/ op.dir = "none" /\ op_map[m].dir = "none"
               \/ dir # "none" /\ op.dir \in {"none", dir} /\ op_map[m].pinned
        PROVE  OpInv'
    <2>1. /\ op' \in OpPlaces /\ OpPlace' /\ op'.call = op.call /\ op'.dir = op.dir
          /\ ProgsToUndo' = {}
          /\ \/ op'.pc = "idle" /\ op_ret' = "0" /\ MapsToUndo' = {}
             \/ op'.pc \in {"map", "prog"} /\ MapsToUndo' = MapsToUndo \cup {m}
          /\ op'.pc = "map" => op'.i = m + 1
      BY <1>0, <1>1, <1>2, NextMapMoves DEF OpBase
    <2>2. OpBase'
      BY <1>0, <1>1, <1>2, <2>1 DEF OpBase, OpTypeOK, NamesApart, PinnedIsThere, PinnedHasDir
    <2>3. IF op.dir = "none" THEN op_map[m].pinned \/ op_map[m].dir = "none"
          ELSE op_map[m].pinned /\ op_map[m].dir = op.dir
      BY <1>1, <1>2 DEF OpBase, PinnedHasDir
    <2>4. Held'
      BY <1>1, <1>2, <2>1, <2>3 DEF Held
    <2>5. op_before.map[m] = op_map[m] /\ \A x \in m + 1 .. PinMaps : op_before.map[x] = op_map[x]
      BY <1>0, <1>1 DEF Known
    <2>6. Known'
      BY <1>0, <1>1, <1>2, <2>1, <2>5 DEF Known, OwnFile
    <2>7. Added'
      BY <1>0, <1>1, <1>2, <2>1, StaysLeft DEF Added, OwnFile
    <2>8. Gone'
      BY <1>0, <1>1, <1>2, <2>1 DEF Gone
    <2>. QED BY <2>2, <2>4, <2>6, <2>7, <2>8 DEF OpInv, OpUndo
  <1>3. ASSUME op_files' = op_files, OpAt("unpin", m - 1, 0), UNCHANGED op_ret,
               \/ op_map' = op_map
               \/ op_map' = [op_map EXCEPT ![m].dir = dir] /\ ~ op_map[m].pinned
        PROVE  OpInv'
    <2>1. /\ op' \in OpPlaces /\ OpPlace' /\ op'.call = op.call /\ op'.dir = op.dir /\ op'.pc = "unpin"
          /\ ProgsToUndo' = {} /\ MapsToUndo' = MapsToUndo
      <3>1. op.i > 0 /\ OpAt("unpin", op.i - 1, 0)
        BY <1>3
      <3>. QED BY <1>0, <1>1, <3>1, UnpinMoves DEF OpBase
    <2>2. /\ op_map' \in MapStates /\ \A x \in 1 .. PinMaps : x # m => op_map'[x] = op_map[x]
          /\ op_map'[m].pinned = op_map[m].pinned
          /\ op_map[m].pinned => op_map'[m] = op_map[m]
      <3>1. op_map \in MapStates /\ op_map[m] \in [dir : Dirs, pinned : BOOLEAN]
        BY <1>1 DEF OpBase, OpTypeOK, MapStates
      <3>2. CASE op_map' = op_map
        BY <3>1, <3>2
      <3>3. CASE op_map' = [op_map EXCEPT ![m].dir = dir] /\ ~ op_map[m].pinned
        <4>. PICK new : new = [op_map[m] EXCEPT !.dir = dir]
          OBVIOUS
        <4>1. new \in [dir : Dirs, pinned : BOOLEAN] /\ new.pinned = op_map[m].pinned
          BY <1>0, <3>1
        <4>2. op_map' = [op_map EXCEPT ![m] = new]
          BY <3>3
        <4>. QED BY <3>1, <3>3, <4>1, <4>2 DEF MapStates
      <3>. QED BY <1>3, <3>2, <3>3
    <2>3. OpBase'
      BY <1>0, <1>1, <1>3, <2>1, <2>2 DEF OpBase, OpTypeOK, NamesApart, PinnedIsThere, PinnedHasDir
    <2>4. \A x \in MapsToUndo : x \in 1 .. PinMaps /\ op_map'[x] = op_map[x]
      BY <1>0, <2>2
    <2>5. Held'
      BY <1>1, <1>3, <2>1, <2>4 DEF Held
    <2>6. Known'
      BY <1>0, <1>1, <1>3, <2>1, <2>4 DEF Known, OwnFile
    <2>7. Added'
      BY <1>0, <1>1, <1>3, <2>1, <2>4, StaysLeft DEF Added, OwnFile
    <2>8. Gone'
      BY <1>0, <1>1, <1>3, <2>1 DEF Gone
    <2>. QED BY <2>3, <2>5, <2>6, <2>7, <2>8 DEF OpInv, OpUndo
  <1>4. ASSUME dir # "none", op.dir \in {"none", dir}, ~ op_map[m].pinned,
               ~ Taken(MapFile(dir, m, "own")), NextMapToPin(m),
               op_files' = op_files \cup {MapFile(dir, m, "own")},
               op_map' = [op_map EXCEPT ![m] = [dir |-> dir, pinned |-> TRUE]]
        PROVE  OpInv'
    <2>1. /\ op' \in OpPlaces /\ OpPlace' /\ op'.call = op.call /\ op'.dir = op.dir
          /\ ProgsToUndo' = {}
          /\ \/ op'.pc = "idle" /\ op_ret' = "0" /\ MapsToUndo' = {}
             \/ op'.pc \in {"map", "prog"} /\ MapsToUndo' = MapsToUndo \cup {m}
          /\ op'.pc = "map" => op'.i = m + 1
      BY <1>0, <1>1, <1>4, NextMapMoves DEF OpBase
    <2>. PICK file : file = MapFile(dir, m, "own")
      OBVIOUS
    <2>2. /\ op_map' \in MapStates /\ \A x \in 1 .. PinMaps : x # m => op_map'[x] = op_map[x]
          /\ op_map'[m].pinned /\ op_map'[m].dir = dir
      BY <1>0, <1>1, <1>4 DEF OpBase, OpTypeOK, MapStates
    <2>3. file \in Files /\ file \notin op_files
          /\ \A f, g \in op_files \cup {file} : SameName(f, g) => f = g
      BY <1>0, <1>1, <1>4, FileFields, NewName DEF OpBase
    <2>4. OpBase'
      <3>1. OpTypeOK' /\ NamesApart'
        BY <1>0, <1>1, <1>4, <2>1, <2>2, <2>3 DEF OpBase, OpTypeOK, NamesApart
      <3>2. PinnedIsThere' /\ PinnedHasDir'
        BY <1>1, <1>4, <2>2 DEF OpBase, PinnedIsThere, PinnedHasDir
      <3>. QED BY <2>1, <3>1, <3>2 DEF OpBase
    <2>5. \A x \in MapsToUndo : x \in 1 .. PinMaps /\ op_map'[x] = op_map[x]
      BY <1>0, <2>2
    <2>6. Held'
      BY <1>1, <1>4, <2>1, <2>2, <2>5 DEF Held
    <2>7. file \notin op_before.files /\ OwnFile(m)' = file
      BY <1>0, <1>1, <2>2, <2>3 DEF Gone, OwnFile
    <2>8. Known'
      <3>1. \A x \in MapsToUndo' : op_map'[x].pinned /\ OwnFile(x)' \in op_before.files =>
                                      op_before.map[x] = op_map'[x]
        BY <1>1, <2>1, <2>5, <2>7 DEF Known, OwnFile
      <3>2. op'.pc = "map" => \A x \in op'.i .. PinMaps : op_before.map[x] = op_map'[x]
        BY <1>0, <1>1, <2>1, <2>2 DEF Known
      <3>. QED BY <1>0, <2>1, <3>1, <3>2 DEF Known
    <2>9. Added'
      <3>1. \A f \in op_files : \/ f \in op_before.files \/ NotUndone(f)'
                                \/ \E x \in MapsToUndo : op_map'[x].pinned /\ f = OwnFile(x)'
        BY <1>0, <1>1, <2>1, <2>5, StaysLeft DEF Added, OwnFile
      <3>. QED BY <1>0, <1>4, <2>1, <2>2, <2>7, <3>1 DEF Added
    <2>10. Gone'
      BY <1>0, <1>1, <1>4, <2>1 DEF Gone
    <2>. QED BY <2>4, <2>6, <2>8, <2>9, <2>10 DEF OpInv, OpUndo
  <1>. DEFINE file == MapFile(dir, m, "own")
  <1>5. \/ /\ op.dir = "none" /\ op_map[m].dir = "none"
           /\ NextMapToPin(m) /\ UNCHANGED <<op_map, op_files>>
        \/ OpAt("unpin", m - 1, 0) /\ UNCHANGED <<op_ret, op_map, op_files>>
        \/ /\ dir # "none" /\ op.dir \in {"none", dir} /\ op_map[m].pinned
           /\ NextMapToPin(m) /\ UNCHANGED <<op_map, op_files>>
        \/ /\ dir # "none" /\ op.dir \in {"none", dir} /\ ~ op_map[m].pinned
           /\ \/ /\ ~ Taken(file)
                 /\ op_files' = op_files \cup {file}
                 /\ op_map' = [op_map EXCEPT ![m] = [dir |-> dir, pinned |-> TRUE]]
                 /\ NextMapToPin(m)
              \/ /\ op_map' = [op_map EXCEPT ![m].dir = dir]
                 /\ OpAt("unpin", m - 1, 0) /\ UNCHANGED <<op_ret, op_files>>
    BY Zenon DEF PinOneMap
  <1>. QED BY <1>2, <1>3, <1>4, <1>5


\* A map that counts as pinned loses its file and its mark, and no other file goes.
LEMMA UnpinnedWhole ==
  ASSUME OpBase, NEW m \in 1 .. PinMaps, op_map[m].pinned
  PROVE  Without(OwnFile(m)) = op_files \ {OwnFile(m)} /\ Taken(OwnFile(m)) /\ op_map[m].dir # "none"
  BY WithoutOne DEF OpBase, PinnedIsThere, PinnedHasDir, OwnFile

\* A map of those to be undone is unpinned: the rest is still to be undone.
LEMMA OneUnpinned ==
  ASSUME OpInv, op.call \in PinCalls, op.pc # "idle", op_before' = op_before,
         NEW m \in 1 .. PinMaps, m \in MapsToUndo, op_map[m].pinned, ProgsToUndo = {}, op_stuck' = op_stuck,
         op_files' = op_files \ {OwnFile(m)}, op_map' = [op_map EXCEPT ![m].pinned = FALSE],
         op' \in OpPlaces, OpPlace', op'.call = op.call, op'.dir = op.dir,
         op'.pc \in {"unpin", "unmap", "idle"}, ProgsToUndo' = {}, MapsToUndo' = MapsToUndo \ {m}
  PROVE  OpInv'
  <1>1. OpBase /\ Held /\ Known /\ Added /\ Gone
    BY DEF OpInv, OpUndo
  <1>2. op_map \in MapStates /\ op_map[m] \in [dir : Dirs, pinned : BOOLEAN]
    BY <1>1 DEF OpBase, OpTypeOK, MapStates
  <1>3. /\ op_map' \in MapStates /\ \A x \in 1 .. PinMaps : x # m => op_map'[x] = op_map[x]
        /\ ~ op_map'[m].pinned /\ op_map'[m].dir = op_map[m].dir
    <2>. PICK new : new = [op_map[m] EXCEPT !.pinned = FALSE]
      OBVIOUS
    <2>1. new \in [dir : Dirs, pinned : BOOLEAN] /\ ~ new.pinned /\ new.dir = op_map[m].dir
      BY <1>2
    <2>2. op_map' = [op_map EXCEPT ![m] = new]
      OBVIOUS
    <2>. QED BY <1>2, <2>1, <2>2 DEF MapStates
  <1>4. \A x \in 1 .. PinMaps : OwnFile(x)' = OwnFile(x)
    BY <1>3 DEF OwnFile
  <1>5. \A x \in 1 .. PinMaps : x # m => OwnFile(x) # OwnFile(m)
    BY FileFields DEF OwnFile
  <1>6. MapsToUndo \subseteq 1 .. PinMaps
    BY DEF MapsToUndo, UndoMaps
  <1>7. OpBase'
    <2>1. OpTypeOK'
      BY <1>1, <1>3 DEF OpBase, OpTypeOK
    <2>2. NamesApart'
      BY <1>1 DEF OpBase, NamesApart
    <2>3. PinnedIsThere'
      <3>1. \A x \in 1 .. PinMaps : op_map'[x].pinned => OwnFile(x)' \in op_files'
        BY <1>1, <1>3, <1>4, <1>5 DEF OpBase, PinnedIsThere, OwnFile
      <3>. QED BY <3>1 DEF PinnedIsThere, OwnFile
    <2>4. PinnedHasDir'
      BY <1>1, <1>3 DEF OpBase, PinnedHasDir
    <2>. QED BY <2>1, <2>2, <2>3, <2>4 DEF OpBase
  <1>8. Held'
    BY <1>1, <1>3, <1>6 DEF Held
  <1>9. Known'
    BY <1>1, <1>3, <1>4, <1>6 DEF Known
  <1>10. Added'
    <2>1. \A f \in op_files : \/ f \in op_before.files \/ f = OwnFile(m) \/ NotUndone(f)'
                              \/ \E x \in MapsToUndo' : op_map'[x].pinned /\ f = OwnFile(x)'
      BY <1>1, <1>3, <1>4, <1>6, StaysLeft DEF Added
    <2>. QED BY <2>1 DEF Added
  <1>11. Gone'
    <2>1. OwnFile(m) \in op_before.files => op_before.map[m] = [dir |-> op_map[m].dir, pinned |-> TRUE]
      BY <1>1, <1>2 DEF Known
    <2>2. OwnFile(m)[5] = "own" /\ OwnFile(m)[2] = "map" /\ OwnFile(m)[3] = m
          /\ OwnFile(m)[1] = op_map[m].dir
      BY FileFields DEF OwnFile
    <2>. QED BY <1>1, <2>1, <2>2, ZenonT(60) DEF UndoingPrograms, Gone
  <1>. QED BY <1>7, <1>8, <1>9, <1>10, <1>11 DEF OpInv, OpUndo

\* Maps that are no longer to be undone without having been unpinned: they were not pinned, or
\* are left behind.
LEMMA MapsLeft ==
  ASSUME OpInv, op.call \in PinCalls, op.pc \in {"unpin", "unmap"}, op_before' = op_before,
         UNCHANGED <<op_map, op_files>>, op_stuck \subseteq op_stuck', ProgsToUndo = {},
         op' \in OpPlaces, OpPlace', op'.call = op.call, op'.dir = op.dir,
         op'.pc \in {"unpin", "unmap", "idle"}, ProgsToUndo' = {}, MapsToUndo' \subseteq MapsToUndo,
         \A x \in MapsToUndo \ MapsToUndo' : op_map[x].pinned => NotUndone(OwnFile(x))'
  PROVE  OpInv'
  <1>1. OpBase /\ Held /\ Known /\ Added /\ Gone
    BY DEF OpInv, OpUndo
  <1>2. OpBase'
    BY <1>1 DEF OpBase, OpTypeOK, NamesApart, PinnedIsThere, PinnedHasDir
  <1>3. Added'
    <2>1. \A f \in op_files : \/ f \in op_before.files \/ NotUndone(f)'
                              \/ \E x \in MapsToUndo' : op_map[x].pinned /\ f = OwnFile(x)
      <3>. TAKE f \in op_files
      <3>1. CASE f \in op_before.files \cup ProgsToUndo \/ NotUndone(f)
        BY <3>1, StaysLeft
      <3>2. CASE \E x \in MapsToUndo : op_map[x].pinned /\ f = OwnFile(x)
        <4>. PICK x \in MapsToUndo : op_map[x].pinned /\ f = OwnFile(x)
          BY <3>2
        <4>1. CASE x \in MapsToUndo'
          BY <4>1
        <4>2. CASE x \notin MapsToUndo'
          <5>1. op_map[x].pinned /\ x \in MapsToUndo \ MapsToUndo' => NotUndone(OwnFile(x))'
            OBVIOUS
          <5>2. NotUndone(OwnFile(x))' => NotUndone(f)'
            BY DEF NotUndone, OwnFile
          <5>. QED BY <4>2, <5>1, <5>2
        <4>. QED BY <4>1, <4>2
      <3>. QED BY <1>1, <3>1, <3>2 DEF Added
    <2>. QED BY <2>1 DEF Added, OwnFile
  <1>4. Held' /\ Known' /\ Gone'
    BY <1>1 DEF Held, Known, Gone, OwnFile, UndoingPrograms
  <1>. QED BY <1>2, <1>3, <1>4 DEF OpInv, OpUndo

\* bpf_object__pin_maps, having failed, unpins one map it had pinned, or fails to.
LEMMA RollBackMapKeeps == OpInv /\ RollBackMap => OpInv'
  <1>. SUFFICES ASSUME OpInv, RollBackMap PROVE OpInv'
    OBVIOUS
  <1>0. /\ op.pc = "unpin" /\ op.call \in {"pin", "pin_maps"} /\ op.call \in PinCalls /\ op_before' = op_before
        /\ PinMaps \in Nat \ {0} /\ MapsToUndo \subseteq 1 .. PinMaps /\ ProgsToUndo = {}
        /\ op.i \in 0 .. PinMaps /\ MapsToUndo = {x \in 1 .. PinMaps : x <= op.i}
    BY ProgramsThere
    DEF RollBackMap, OpInv, OpBase, OpPlace, MapsToUndo, UndoMaps, ProgsToUndo, PinCalls, UndoingPrograms
  <1>1. OpBase /\ Held
    BY <1>0 DEF OpInv, OpUndo
  <1>2. CASE op.i = 0
    <2>1. OpReturn("error") /\ UNCHANGED <<op_map, op_files, op_stuck>>
      BY <1>2 DEF RollBackMap
    <2>2. op' \in OpPlaces /\ op'.pc = "idle" /\ op'.call = op.call /\ op'.dir = op.dir
      BY <1>1, <2>1, OpMoves DEF OpBase
    <2>3. MapsToUndo = {} /\ MapsToUndo' = {} /\ ProgsToUndo' = {}
      BY <1>0, <1>2, <2>2 DEF MapsToUndo, UndoMaps, ProgsToUndo, UndoingPrograms
    <2>4. OpPlace'
      BY <1>1, <2>2 DEF OpBase, OpPlace, UndoingPrograms
    <2>. QED BY <1>0, <2>1, <2>2, <2>3, <2>4, MapsLeft
  <1>3. CASE op.i # 0
    <2>. PICK m \in 1 .. PinMaps : m = op.i
      BY <1>0, <1>3
    <2>1. /\ \/ op_map[m].dir = "none" /\ UNCHANGED <<op_map, op_files, op_stuck>>
             \/ op_map[m].dir # "none" /\ UnpinMap(m, OwnFile(m))
             \/ op_map[m].dir # "none" /\ MapStaysPinned(OwnFile(m))
          /\ OpAt("unpin", m - 1, 0) /\ UNCHANGED op_ret
      BY <1>3 DEF RollBackMap, OwnFile
    <2>2. /\ op' \in OpPlaces /\ OpPlace' /\ op'.call = op.call /\ op'.dir = op.dir /\ op'.pc = "unpin"
          /\ ProgsToUndo' = {} /\ MapsToUndo' = MapsToUndo \ {m} /\ m \in MapsToUndo
      <3>1. op.i > 0 /\ OpAt("unpin", op.i - 1, 0) /\ m <= op.i
        BY <1>0, <1>3, <2>1
      <3>. QED BY <1>0, <1>1, <3>1, UnpinMoves DEF OpBase
    <2>3. CASE op_map[m].dir = "none" /\ UNCHANGED <<op_map, op_files, op_stuck>>
      <3>1. ~ op_map[m].pinned
        BY <1>1, <2>3 DEF OpBase, PinnedHasDir
      <3>. QED BY <1>0, <2>2, <2>3, <3>1, MapsLeft
    <2>4. CASE op_map[m].dir # "none" /\ UnpinMap(m, OwnFile(m))
      <3>1. op_map[m].pinned
        BY <1>1, <2>2, <2>4 DEF Held
      <3>2. op_files' = op_files \ {OwnFile(m)} /\ op_map' = [op_map EXCEPT ![m].pinned = FALSE] /\ op_stuck' = op_stuck
        BY <1>1, <2>4, <3>1, UnpinnedWhole DEF UnpinMap, Unlinked
      <3>. QED BY <1>0, <1>1, <2>2, <3>1, <3>2, OneUnpinned
    <2>5. CASE MapStaysPinned(OwnFile(m))
      <3>1. UNCHANGED <<op_map, op_files>> /\ op_stuck' = op_stuck \cup {OwnFile(m)}
        BY <2>5 DEF MapStaysPinned, NotUnlinked
      <3>2. NotUndone(OwnFile(m))'
        BY <3>1 DEF NotUndone, OwnFile
      <3>. QED BY <1>0, <2>2, <3>1, <3>2, MapsLeft
    <2>. QED BY <2>1, <2>3, <2>4, <2>5
  <1>. QED BY <1>2, <1>3

\* bpf_object__unpin_maps unpins one map, or fails to.
LEMMA UnpinOneMapKeeps == OpInv /\ UnpinOneMap => OpInv'
  <1>. SUFFICES ASSUME OpInv, UnpinOneMap PROVE OpInv'
    OBVIOUS
  <1>. PICK m \in 1 .. PinMaps : m = op.i
    BY DEF OpInv, OpBase, OpPlace, UnpinOneMap
  <1>. PICK dir : dir = IF op_map[m].dir # "none" THEN op_map[m].dir ELSE op.dir
    OBVIOUS
  <1>. PICK file : file = MapFile(dir, m, "own")
    OBVIOUS
  <1>0. /\ op.pc = "unmap" /\ op.call \in {"pin", "unpin_maps"} /\ op_before' = op_before
        /\ PinMaps \in Nat \ {0} /\ dir \in Dirs
    BY ProgramsThere DEF UnpinOneMap, OpInv, OpBase, OpPlace, OpTypeOK, MapStates, OpPlaces
  <1>. DEFINE next == IF m < PinMaps THEN OpAt("unmap", m + 1, 0) /\ UNCHANGED op_ret
                      ELSE OpReturn(IF op.call = "pin" THEN "error" ELSE "0")
  <1>1. \/ dir = "none" /\ next /\ UNCHANGED <<op_map, op_files, op_stuck>>
        \/ /\ dir # "none" /\ op.dir \notin {"none", dir}
           /\ OpReturn("error") /\ UNCHANGED <<op_map, op_files, op_stuck>>
        \/ UnpinMap(m, file) /\ next
        \/ MapStaysPinned(file) /\ OpReturn("error")
    BY Zenon DEF UnpinOneMap
  <1>2. OpBase
    BY DEF OpInv
  <1>3. ASSUME next PROVE
        /\ op' \in OpPlaces /\ op'.call = op.call /\ op'.dir = op.dir
        /\ \/ m = PinMaps /\ op'.pc = "idle"
           \/ m < PinMaps /\ op'.pc = "unmap" /\ op'.i = m + 1
    <2>1. CASE m < PinMaps
      <3>1. m + 1 \in Nat /\ "unmap" \in OpPcs /\ OpAt("unmap", m + 1, 0)
        BY <1>3, <2>1 DEF OpPcs
      <3>. QED BY <1>2, <2>1, <3>1, OpMoves DEF OpBase
    <2>2. CASE ~ (m < PinMaps)
      <3>. PICK ret : OpReturn(ret)
        BY <1>3, <2>2
      <3>. QED BY <1>0, <1>2, <2>2, OpMoves DEF OpBase
    <2>. QED BY <2>1, <2>2
  <1>. HIDE DEF next
  <1>4. OpReturn("error") =>
          op' \in OpPlaces /\ op'.call = op.call /\ op'.dir = op.dir /\ op'.pc = "idle"
    BY <1>2, OpMoves DEF OpBase
  <1>5. /\ op' \in OpPlaces /\ op'.call = op.call /\ op'.dir = op.dir /\ OpPlace'
        /\ op'.pc \in {"unmap", "idle"}
    <2>1. /\ op' \in OpPlaces /\ op'.call = op.call /\ op'.dir = op.dir
          /\ \/ op'.pc = "idle"
             \/ m < PinMaps /\ op'.pc = "unmap" /\ op'.i = m + 1
      BY <1>1, <1>3, <1>4
    <2>. QED BY <1>0, <1>2, <2>1 DEF OpBase, OpPlace, UndoingPrograms
  <1>6. CASE op.call = "unpin_maps"
    <2>1. /\ op_map' \in MapStates /\ \A x \in 1 .. PinMaps : x # m => op_map'[x] = op_map[x]
          /\ op_map'[m].pinned => op_map' = op_map /\ op_files' = op_files
          /\ op_files' = op_files \/ op_files' = Without(file)
      <3>1. op_map \in MapStates /\ op_map[m] \in [dir : Dirs, pinned : BOOLEAN]
        BY <1>2 DEF OpBase, OpTypeOK, MapStates
      <3>. PICK new : new = [op_map[m] EXCEPT !.pinned = FALSE]
        OBVIOUS
      <3>2. new \in [dir : Dirs, pinned : BOOLEAN] /\ ~ new.pinned
        BY <3>1
      <3>3. \/ UNCHANGED <<op_map, op_files>>
            \/ op_map' = [op_map EXCEPT ![m] = new] /\ op_files' = Without(file)
        BY <1>1 DEF UnpinMap, MapStaysPinned, Unlinked, NotUnlinked
      <3>4. CASE UNCHANGED <<op_map, op_files>>
        BY <3>1, <3>4
      <3>5. CASE op_map' = [op_map EXCEPT ![m] = new] /\ op_files' = Without(file)
        <4>1. op_map' \in MapStates /\ op_map'[m] = new /\ \A x \in 1 .. PinMaps : x # m => op_map'[x] = op_map[x]
          BY <3>1, <3>2, <3>5 DEF MapStates
        <4>. QED BY <3>2, <3>5, <4>1
      <3>. QED BY <3>3, <3>4, <3>5
    <2>2. Without(file) \subseteq op_files
      BY NamesMean
    <2>3. \A x \in 1 .. PinMaps : x # m /\ OwnFile(x) \in op_files => OwnFile(x) \in op_files'
      <3>1. \A x \in 1 .. PinMaps : x # m => ~ SameName(OwnFile(x), file)
        BY FileFields DEF SameName, OwnFile
      <3>. QED BY <2>1, <3>1, NamesMean
    <2>4. PinnedIsThere'
      BY <1>2, <2>1, <2>3 DEF OpBase, PinnedIsThere, OwnFile
    <2>5. PinnedHasDir'
      BY <1>2, <2>1 DEF OpBase, PinnedHasDir
    <2>6. OpTypeOK' /\ NamesApart'
      BY <1>0, <1>2, <1>5, <2>1, <2>2 DEF OpBase, OpTypeOK, NamesApart
    <2>7. op'.call \notin PinCalls
      BY <1>5, <1>6 DEF PinCalls
    <2>. QED BY <1>5, <2>4, <2>5, <2>6, <2>7 DEF OpInv, OpBase, OpUndo
  <1>7. CASE op.call = "pin"
    <2>1. op.call \in PinCalls /\ op.dir # "none" /\ ProgsToUndo = {} /\ m \in MapsToUndo
          /\ MapsToUndo = {x \in 1 .. PinMaps : x >= m} /\ op.pc # "idle"
      BY <1>0, <1>2, <1>7 DEF PinCalls, OpBase, OpPlace, ProgsToUndo, MapsToUndo, UndoMaps, UndoingPrograms
    <2>2. \A x \in MapsToUndo : op_map[x].pinned /\ op_map[x].dir = op.dir
      BY <2>1 DEF OpInv, OpUndo, Held
    <2>3. dir = op.dir /\ file = OwnFile(m)
      BY <2>1, <2>2 DEF OwnFile
    <2>4. ProgsToUndo' = {} /\ (op'.pc = "idle" => MapsToUndo' = {})
      BY <1>5 DEF ProgsToUndo, MapsToUndo, UndoMaps, UndoingPrograms
    <2>5. CASE UnpinMap(m, file) /\ next
      <3>1. op_files' = op_files \ {OwnFile(m)} /\ op_map' = [op_map EXCEPT ![m].pinned = FALSE] /\ op_stuck' = op_stuck
        BY <1>2, <2>1, <2>2, <2>3, <2>5, UnpinnedWhole DEF UnpinMap, Unlinked
      <3>2. MapsToUndo' = MapsToUndo \ {m}
        <4>1. CASE m = PinMaps /\ op'.pc = "idle"
          BY <1>0, <2>1, <2>4, <4>1
        <4>2. CASE m < PinMaps /\ op'.pc = "unmap" /\ op'.i = m + 1
          BY <1>0, <2>1, <4>2 DEF MapsToUndo, UndoMaps, UndoingPrograms
        <4>. QED BY <1>3, <2>5, <4>1, <4>2
      <3>. QED BY <1>0, <1>5, <2>1, <2>2, <2>4, <3>1, <3>2, OneUnpinned
    <2>6. CASE MapStaysPinned(file) /\ OpReturn("error")
      <3>1. UNCHANGED <<op_map, op_files>> /\ op_stuck' = op_stuck \cup {OwnFile(m)} /\ op'.pc = "idle" /\ op'.call = "pin"
        BY <1>4, <1>7, <2>3, <2>6 DEF MapStaysPinned, NotUnlinked
      <3>2. \A x \in MapsToUndo : NotUndone(OwnFile(x))'
        <4>. TAKE x \in MapsToUndo
        <4>1. x \in 1 .. PinMaps /\ (x = m \/ m < x) /\ op_map[x].dir = op_map[m].dir
          BY <2>1, <2>2
        <4>2. /\ OwnFile(m)[1] = OwnFile(x)[1] /\ OwnFile(m)[2] = "map" /\ OwnFile(x)[2] = "map"
              /\ OwnFile(m)[3] = m /\ OwnFile(x)[3] = x /\ OwnFile(x)' = OwnFile(x)
          BY <3>1, <4>1, FileFields DEF OwnFile
        <4>. QED BY <3>1, <4>1, <4>2 DEF NotUndone
      <3>. QED BY <1>0, <1>5, <2>1, <2>4, <3>1, <3>2, MapsLeft
    <2>. QED BY <1>1, <2>1, <2>3, <2>5, <2>6
  <1>. QED BY <1>0, <1>6, <1>7

-----------------------------------------------------------------------------
(* Programs.                                                               *)

\* The files before an instance and the instance's own are the files before the next.
LEMMA FilesBeforeGrow ==
  ASSUME NEW dir, NEW p \in Progs, NEW k \in 0 .. Instances[p] - 1
  PROVE  /\ FilesBefore(dir, p, k + 1) = FilesBefore(dir, p, k) \cup {ProgFile(dir, p, k, "own")}
         /\ k + 1 >= Instances[p] =>
              FilesBefore(dir, p + 1, 0) = FilesBefore(dir, p, k) \cup {ProgFile(dir, p, k, "own")}
         /\ FilesBefore(dir, 1, 0) = {}
  <1>0. p \in Nat \ {0} /\ Instances[p] \in Nat \ {0} /\ k \in Nat
    BY ProgramsThere
  <1>1. 0 .. k + 1 - 1 = (0 .. k - 1) \cup {k}
    BY <1>0
  <1>5. FilesOf(dir, p, k + 1) = FilesOf(dir, p, k) \cup {ProgFile(dir, p, k, "own")}
    BY <1>1 DEF FilesOf
  <1>2. FilesBefore(dir, p, k + 1) = FilesBefore(dir, p, k) \cup {ProgFile(dir, p, k, "own")}
    BY <1>5 DEF FilesBefore, FilesEarlier
  <1>3. ASSUME k + 1 >= Instances[p]
        PROVE  FilesBefore(dir, p + 1, 0) = FilesBefore(dir, p, k + 1)
    <2>1. k + 1 = Instances[p]
      BY <1>0, <1>3
    <2>2. 1 .. p + 1 - 1 = (1 .. p - 1) \cup {p}
      BY <1>0
    <2>3. FilesOf(dir, p + 1, 0) = {}
      BY DEF FilesOf
    <2>. QED BY <2>1, <2>2, <2>3 DEF FilesBefore, FilesEarlier
  <1>4. FilesBefore(dir, 1, 0) = {}
    BY DEF FilesBefore, FilesEarlier, FilesOf
  <1>. QED BY <1>2, <1>3, <1>4

\* The next instance, or the first of the next program, or the end.
LEMMA NextProgMoves ==
  ASSUME OpTypeOK, OpPlace, op.pc \in {"prog", "unprog"},
         \/ op.k + 1 < Instances[op.i] /\ OpAt(op.pc, op.i, op.k + 1)
         \/ op.k + 1 >= Instances[op.i] /\ op.i < Len(Instances) /\ OpAt(op.pc, op.i + 1, 0)
         \/ OpReturn("0")
  PROVE  /\ op' \in OpPlaces /\ OpPlace' /\ op'.call = op.call /\ op'.dir = op.dir
         /\ \/ op'.pc = "idle" /\ op_ret' = "0" /\ ProgsToUndo' = {} /\ MapsToUndo' = {}
            \/ /\ op'.pc = op.pc
               /\ op.pc = "prog" =>
                    /\ ProgsToUndo' = ProgsToUndo \cup {ProgFile(op.dir, op.i, op.k, "own")}
                    /\ MapsToUndo' = MapsToUndo
  <1>. PICK p \in Progs : p = op.i
    BY DEF OpPlace
  <1>. PICK k \in 0 .. Instances[p] - 1 : k = op.k
    BY DEF OpPlace
  <1>. PICK d : d = op.dir
    OBVIOUS
  <1>0. p \in Nat \ {0} /\ Instances[p] \in Nat \ {0} /\ k \in Nat /\ Progs = 1 .. Len(Instances)
        /\ Len(Instances) \in Nat /\ op.pc \in OpPcs
    BY ProgramsThere DEF OpPcs
  <1>1. CASE op.k + 1 < Instances[op.i] /\ OpAt(op.pc, op.i, op.k + 1)
    <2>1. op' \in OpPlaces /\ op'.pc = op.pc /\ op'.i = p /\ op'.k = k + 1 /\ op'.call = op.call
          /\ op'.dir = op.dir
      <3>1. OpAt(op.pc, p, k + 1) /\ k + 1 \in Nat /\ p \in Nat
        BY <1>0, <1>1
      <3>. QED BY <1>0, <3>1, OpMoves
    <2>2. OpPlace'
      BY <1>0, <1>1, <2>1 DEF OpPlace
    <2>3. op.pc = "prog" => ProgsToUndo' = FilesBefore(d, p, k + 1)
                            /\ ProgsToUndo = FilesBefore(d, p, k)
      BY <2>1 DEF ProgsToUndo
    <2>4. op.pc = "prog" => MapsToUndo' = MapsToUndo
      BY <2>1 DEF MapsToUndo, UndoMaps
    <2>5. FilesBefore(d, p, k + 1) = FilesBefore(d, p, k) \cup {ProgFile(d, p, k, "own")}
      BY FilesBeforeGrow, ZenonT(60)
    <2>. QED BY <2>1, <2>2, <2>3, <2>4, <2>5
  <1>2. CASE op.k + 1 >= Instances[op.i] /\ op.i < Len(Instances) /\ OpAt(op.pc, op.i + 1, 0)
    <2>1. op' \in OpPlaces /\ op'.pc = op.pc /\ op'.i = p + 1 /\ op'.k = 0 /\ op'.call = op.call
          /\ op'.dir = op.dir
      <3>1. OpAt(op.pc, p + 1, 0) /\ p + 1 \in Nat
        BY <1>0, <1>2
      <3>. QED BY <1>0, <3>1, OpMoves
    <2>2. OpPlace'
      <3>1. p + 1 \in Progs /\ Instances[p + 1] \in Nat \ {0}
        BY <1>0, <1>2, ProgramsThere
      <3>. QED BY <1>0, <2>1, <3>1, SMTT(30) DEF OpPlace
    <2>3. op.pc = "prog" => ProgsToUndo' = FilesBefore(d, p + 1, 0)
                            /\ ProgsToUndo = FilesBefore(d, p, k)
      BY <2>1 DEF ProgsToUndo
    <2>4. op.pc = "prog" => MapsToUndo' = MapsToUndo
      BY <2>1 DEF MapsToUndo, UndoMaps
    <2>. QED BY <1>2, <2>1, <2>2, <2>3, <2>4, FilesBeforeGrow
  <1>3. CASE OpReturn("0")
    <2>1. op' \in OpPlaces /\ op'.pc = "idle" /\ op'.call = op.call /\ op'.dir = op.dir /\ op_ret' = "0"
      BY <1>3, OpMoves
    <2>. QED BY <2>1 DEF UndoingPrograms, OpPlace, ProgsToUndo, MapsToUndo, UndoMaps
  <1>. QED BY <1>1, <1>2, <1>3

\* bpf_program__pin pins one instance, or fails to.
LEMMA PinInstanceKeeps == OpInv /\ PinInstance => OpInv'
  <1>. SUFFICES ASSUME OpInv, PinInstance PROVE OpInv'
    OBVIOUS
  <1>. PICK file : file = ProgFile(op.dir, op.i, op.k, "own")
    OBVIOUS
  <1>0. /\ op.pc = "prog" /\ op.call \in {"pin", "pin_programs"} /\ op.call \in PinCalls
        /\ UNCHANGED <<op_map, op_before>> /\ op.i \in Progs /\ op.k \in 0 .. Instances[op.i] - 1
        /\ op_stuck' = op_stuck
    BY DEF PinInstance, OpInv, OpBase, OpPlace, PinCalls, ProgsToUndo
  <1>1. OpBase /\ Held /\ Known /\ Added /\ Gone
    BY <1>0 DEF OpInv, OpUndo
  <1>2. op.i \in Nat /\ op.k \in Nat /\ op.dir \in Dirs /\ Instances[op.i] \in Nat
    BY <1>0, <1>1, ProgramsThere DEF OpBase, OpTypeOK, OpPlaces
  <1>3. CASE /\ ~ Taken(file) /\ op_files' = op_files \cup {file}
             /\ IF op.k + 1 < Instances[op.i] THEN OpAt("prog", op.i, op.k + 1) /\ UNCHANGED op_ret
                ELSE IF op.i < Len(Instances) THEN OpAt("prog", op.i + 1, 0) /\ UNCHANGED op_ret
                ELSE OpReturn("0")
    <2>1. \/ op.k + 1 < Instances[op.i] /\ OpAt(op.pc, op.i, op.k + 1)
          \/ op.k + 1 >= Instances[op.i] /\ op.i < Len(Instances) /\ OpAt(op.pc, op.i + 1, 0)
          \/ OpReturn("0")
      BY <1>0, <1>2, <1>3
    <2>2. /\ op' \in OpPlaces /\ OpPlace' /\ op'.call = op.call /\ op'.dir = op.dir
          /\ \/ op'.pc = "prog" /\ ProgsToUndo' = ProgsToUndo \cup {file} /\ MapsToUndo' = MapsToUndo
             \/ op'.pc = "idle" /\ op_ret' = "0" /\ ProgsToUndo' = {} /\ MapsToUndo' = {}
      BY <1>0, <1>1, <2>1, NextProgMoves DEF OpBase
    <2>3. file \in Files /\ file \notin op_files
          /\ \A f, g \in op_files \cup {file} : SameName(f, g) => f = g
      BY <1>1, <1>2, <1>3, FileFields, NewName DEF OpBase
    <2>4. OpBase'
      <3>1. OpTypeOK' /\ NamesApart'
        BY <1>0, <1>1, <1>3, <2>2, <2>3 DEF OpBase, OpTypeOK, NamesApart
      <3>2. PinnedIsThere' /\ PinnedHasDir'
        BY <1>0, <1>1, <1>3 DEF OpBase, PinnedIsThere, PinnedHasDir
      <3>. QED BY <2>2, <3>1, <3>2 DEF OpBase
    <2>5. Held'
      BY <1>0, <1>1, <1>3, <2>2 DEF Held
    <2>6. file \notin op_before.files
      BY <1>0, <1>1, <2>3 DEF Gone
    <2>7. Known'
      BY <1>0, <1>1, <2>2, <2>6 DEF Known, OwnFile
    <2>8. Added'
      BY <1>0, <1>1, <1>3, <2>2, StaysLeft DEF Added, OwnFile
    <2>9. Gone'
      BY <1>0, <1>1, <1>3, <2>2 DEF Gone
    <2>. QED BY <2>4, <2>5, <2>7, <2>8, <2>9 DEF OpInv, OpUndo
  <1>4. CASE OpAt("unpin_inst", op.i, op.k) /\ UNCHANGED <<op_ret, op_files>>
    <2>1. /\ op' \in OpPlaces /\ op'.pc = "unpin_inst" /\ op'.call = op.call /\ op'.dir = op.dir
          /\ op'.i = op.i /\ op'.k = op.k
      BY <1>1, <1>2, <1>4, OpMoves DEF OpBase, OpPcs
    <2>2. OpPlace' /\ ProgsToUndo' = ProgsToUndo /\ MapsToUndo' = MapsToUndo
      <3>1. OpPlace'
        BY <1>0, <1>1, <2>1 DEF OpBase, OpPlace, UndoingPrograms
      <3>2. ProgsToUndo' = ProgsToUndo
        BY <1>0, <2>1 DEF ProgsToUndo
      <3>3. MapsToUndo' = MapsToUndo
        BY <1>0, <2>1 DEF MapsToUndo, UndoMaps, UndoingPrograms
      <3>. QED BY <3>1, <3>2, <3>3
    <2>3. OpBase'
      BY <1>0, <1>1, <1>4, <2>1, <2>2 DEF OpBase, OpTypeOK, NamesApart, PinnedIsThere, PinnedHasDir
    <2>4. Held' /\ Known' /\ Gone'
      BY <1>0, <1>1, <1>4, <2>1, <2>2 DEF Held, Known, Gone, OwnFile, UndoingPrograms
    <2>5. Added'
      BY <1>0, <1>1, <1>4, <2>1, <2>2, StaysLeft DEF Added, OwnFile
    <2>. QED BY <2>3, <2>4, <2>5 DEF OpInv, OpUndo
  <1>. QED BY <1>3, <1>4 DEF PinInstance

\* Going back through the instances of a program, and through the programs.
LEMMA FilesAheadShrink ==
  ASSUME NEW dir, NEW p \in Progs, NEW k \in 0 .. Instances[p] - 1
  PROVE  /\ FilesBefore(dir, p, 0) = FilesAhead(dir, p - 1, 0)
         /\ k > 0 => FilesBefore(dir, p, k - 1) = FilesBefore(dir, p, k) \ {ProgFile(dir, p, k - 1, "own")}
                     /\ ProgFile(dir, p, k - 1, "own") \in FilesBefore(dir, p, k)
         /\ FilesFrom(dir, p, k + 1) \cup FilesEarlier(dir, p) = FilesAhead(dir, p, k) \ {ProgFile(dir, p, k, "own")}
         /\ FilesAhead(dir, p, k) = FilesFrom(dir, p, k) \cup FilesEarlier(dir, p)
         /\ ProgFile(dir, p, k, "own") \in FilesFrom(dir, p, k)
         /\ k + 1 >= Instances[p] => FilesFrom(dir, p, k) = {ProgFile(dir, p, k, "own")}
         /\ FilesAhead(dir, p - 1, 0) = FilesEarlier(dir, p) /\ FilesEarlier(dir, p) \cap FilesFrom(dir, p, k) = {}
  <1>0. p \in Nat \ {0} /\ Instances[p] \in Nat \ {0} /\ k \in Nat /\ p \in 1 .. Len(Instances)
        /\ Len(Instances) \in Nat
    BY ProgramsThere
  <1>1. \A q, r, i, j : ProgFile(dir, q, i, "own") = ProgFile(dir, r, j, "own") => q = r /\ i = j
    BY FileFields
  <1>2. \A f \in FilesEarlier(dir, p) : \E q \in 1 .. p - 1, j \in Nat : f = ProgFile(dir, q, j, "own")
    BY DEF FilesEarlier, FilesOf
  <1>3. \A j : ProgFile(dir, p, j, "own") \notin FilesEarlier(dir, p)
    <2>1. p \notin 1 .. p - 1
      BY <1>0
    <2>. QED BY <1>1, <1>2, <2>1
  <1>4. FilesEarlier(dir, p) \cap FilesFrom(dir, p, k) = {}
    BY <1>3 DEF FilesFrom
  <1>5. FilesAhead(dir, p - 1, 0) = FilesEarlier(dir, p)
    <2>1. CASE p = 1
      BY <2>1 DEF FilesAhead, FilesEarlier
    <2>2. CASE p # 1
      <3>1. 1 .. p - 1 = (1 .. p - 1 - 1) \cup {p - 1} /\ p - 1 # 0
        BY <1>0, <2>2
      <3>2. FilesFrom(dir, p - 1, 0) = FilesOf(dir, p - 1, Instances[p - 1])
        BY DEF FilesFrom, FilesOf
      <3>3. FilesEarlier(dir, p) = FilesOf(dir, p - 1, Instances[p - 1]) \cup FilesEarlier(dir, p - 1)
        BY <3>1 DEF FilesEarlier
      <3>. QED BY <3>1, <3>2, <3>3 DEF FilesAhead
    <2>. QED BY <2>1, <2>2
  <1>6. FilesBefore(dir, p, 0) = FilesEarlier(dir, p)
    BY DEF FilesBefore, FilesOf
  <1>7. ASSUME k > 0
        PROVE  FilesBefore(dir, p, k - 1) = FilesBefore(dir, p, k) \ {ProgFile(dir, p, k - 1, "own")}
               /\ ProgFile(dir, p, k - 1, "own") \in FilesBefore(dir, p, k)
    <2>1. 0 .. k - 1 = (0 .. k - 1 - 1) \cup {k - 1} /\ k - 1 \notin 0 .. k - 1 - 1
      BY <1>0, <1>7
    <2>2. FilesOf(dir, p, k) = FilesOf(dir, p, k - 1) \cup {ProgFile(dir, p, k - 1, "own")}
      BY <2>1 DEF FilesOf
    <2>3. ProgFile(dir, p, k - 1, "own") \notin FilesOf(dir, p, k - 1)
      BY <1>1, <2>1, Zenon DEF FilesOf
    <2>. QED BY <1>3, <2>2, <2>3 DEF FilesBefore
  <1>8. k .. Instances[p] - 1 = {k} \cup (k + 1 .. Instances[p] - 1) /\ k \notin k + 1 .. Instances[p] - 1
    BY <1>0
  <1>9. FilesFrom(dir, p, k) = {ProgFile(dir, p, k, "own")} \cup FilesFrom(dir, p, k + 1)
    BY <1>8 DEF FilesFrom
  <1>10. ProgFile(dir, p, k, "own") \notin FilesFrom(dir, p, k + 1)
    <2>1. \A j \in k + 1 .. Instances[p] - 1 : ProgFile(dir, p, j, "own") # ProgFile(dir, p, k, "own")
      BY <1>0, FileFields
    <2>. QED BY <2>1 DEF FilesFrom
  <1>11. FilesAhead(dir, p, k) = FilesFrom(dir, p, k) \cup FilesEarlier(dir, p)
    BY <1>0 DEF FilesAhead
  <1>12. FilesFrom(dir, p, k + 1) \cup FilesEarlier(dir, p) = FilesAhead(dir, p, k) \ {ProgFile(dir, p, k, "own")}
    BY <1>3, <1>9, <1>10, <1>11
  <1>13. k + 1 >= Instances[p] => FilesFrom(dir, p, k) = {ProgFile(dir, p, k, "own")}
    <2>1. k + 1 >= Instances[p] => k .. Instances[p] - 1 = {k}
      BY <1>0
    <2>. QED BY <2>1 DEF FilesFrom
  <1>. QED BY <1>4, <1>5, <1>6, <1>7, <1>9, <1>11, <1>12, <1>13

\* A step that undoes programs: it removes one of the files that the call has made, ...
LEMMA OneUnlinked ==
  ASSUME OpInv, op.call \in PinCalls, op.pc \in UndoingPrograms, UNCHANGED <<op_map, op_before>>,
         NEW file \in ProgsToUndo, Unlinked(file),
         op' \in OpPlaces, OpPlace', op'.call = op.call, op'.dir = op.dir, op'.pc \in UndoingPrograms,
         MapsToUndo' = MapsToUndo, ProgsToUndo' = ProgsToUndo \ {file}
  PROVE  OpInv'
  <1>1. OpBase /\ Held /\ Known /\ Added /\ Gone
    BY DEF OpInv, OpUndo
  <1>2. file \in op_files /\ op_files' = op_files \ {file} /\ op_stuck' = op_stuck
    BY <1>1, WithoutOne DEF OpBase, Held, Unlinked
  <1>3. \A f \in ProgsToUndo : f[2] = "prog"
    BY FileFields DEF ProgsToUndo, FilesBefore, FilesAhead, FilesFrom, FilesEarlier, FilesOf
  <1>4. OpBase'
    <2>1. OpTypeOK' /\ NamesApart'
      BY <1>1, <1>2 DEF OpBase, OpTypeOK, NamesApart
    <2>2. PinnedIsThere'
      <3>1. \A m \in 1 .. PinMaps : OwnFile(m) # file
        BY <1>3, FileFields DEF OwnFile
      <3>. QED BY <1>1, <1>2, <3>1 DEF OpBase, PinnedIsThere, OwnFile
    <2>3. PinnedHasDir'
      BY <1>1 DEF OpBase, PinnedHasDir
    <2>. QED BY <2>1, <2>2, <2>3 DEF OpBase
  <1>5. Held'
    BY <1>1, <1>2 DEF Held
  <1>6. Known'
    BY <1>1 DEF Known, OwnFile, UndoingPrograms
  <1>7. Added'
    BY <1>1, <1>2, StaysLeft DEF Added, OwnFile, UndoingPrograms
  <1>8. Gone'
    <2>1. op_before.files \subseteq op_files /\ file \notin op_before.files
      BY <1>1 DEF Gone, Known, UndoingPrograms
    <2>2. op_before.files \subseteq op_files'
      BY <1>2, <2>1
    <2>. QED BY <2>2 DEF Gone
  <1>. QED BY <1>4, <1>5, <1>6, <1>7, <1>8 DEF OpInv, OpUndo

\* ... or it leaves some behind.
LEMMA ProgramsLeft ==
  ASSUME OpInv, op.call \in PinCalls, op.pc \in UndoingPrograms, UNCHANGED <<op_map, op_before, op_files>>,
         op_stuck \subseteq op_stuck',
         op' \in OpPlaces, OpPlace', op'.call = op.call, op'.dir = op.dir,
         op'.pc \in UndoingPrograms \cup {"unmap", "idle"},
         MapsToUndo' = MapsToUndo, ProgsToUndo' \subseteq ProgsToUndo,
         \A f \in ProgsToUndo \ ProgsToUndo' : NotUndone(f)'
  PROVE  OpInv'
  <1>1. OpBase /\ Held /\ Known /\ Added /\ Gone
    BY DEF OpInv, OpUndo
  <1>2. OpBase'
    BY <1>1 DEF OpBase, OpTypeOK, NamesApart, PinnedIsThere, PinnedHasDir
  <1>3. Held' /\ Known' /\ Gone'
    BY <1>1 DEF Held, Known, Gone, OwnFile, UndoingPrograms
  <1>4. Added'
    BY <1>1, StaysLeft DEF Added, OwnFile, UndoingPrograms
  <1>. QED BY <1>2, <1>3, <1>4 DEF OpInv, OpUndo

\* bpf_program__pin, having failed, unpins one instance, or fails to.
LEMMA RollBackInstanceKeeps == OpInv /\ RollBackInstance => OpInv'
  <1>. SUFFICES ASSUME OpInv, RollBackInstance PROVE OpInv'
    OBVIOUS
  <1>. PICK p \in Progs : p = op.i
    BY DEF RollBackInstance, OpInv, OpBase, OpPlace
  <1>. PICK k \in 0 .. Instances[p] - 1 : k = op.k
    BY DEF RollBackInstance, OpInv, OpBase, OpPlace
  <1>. PICK d : d = op.dir
    OBVIOUS
  <1>0. /\ op.pc = "unpin_inst" /\ op.call \in {"pin", "pin_programs"} /\ op.call \in PinCalls
        /\ UNCHANGED <<op_map, op_before>> /\ ProgsToUndo = FilesBefore(d, p, k) /\ op.pc \in UndoingPrograms
        /\ OpBase
    BY DEF RollBackInstance, OpInv, OpBase, OpPlace, PinCalls, ProgsToUndo, UndoingPrograms
  <1>1. p \in Nat \ {0} /\ Instances[p] \in Nat \ {0} /\ k \in Nat /\ Progs = 1 .. Len(Instances) /\ p - 1 \in Nat
        /\ Len(Instances) \in Nat /\ {"unpin_inst", "unpin_prog"} \subseteq OpPcs
    BY ProgramsThere DEF OpPcs
  <1>2. CASE k = 0
    <2>1. OpAt("unpin_prog", p - 1, 0) /\ UNCHANGED <<op_files, op_stuck>>
      BY <1>2 DEF RollBackInstance, ProgramBefore
    <2>2. /\ op' \in OpPlaces /\ op'.pc = "unpin_prog" /\ op'.i = p - 1 /\ op'.k = 0
          /\ op'.call = op.call /\ op'.dir = d
      BY <1>0, <1>1, <2>1, OpMoves DEF OpBase
    <2>3. OpPlace'
      <3>1. p - 1 # 0 => p - 1 \in Progs /\ Instances[p - 1] \in Nat \ {0}
        BY <1>1, ProgramsThere
      <3>2. p - 1 # 0 => 0 \in 0 .. Instances[p - 1] - 1
        BY <3>1
      <3>. QED BY <1>0, <2>2, <3>1, <3>2 DEF OpBase, OpPlace, UndoingPrograms
    <2>4. ProgsToUndo' = ProgsToUndo
      BY <1>0, <1>2, <2>2, FilesAheadShrink DEF ProgsToUndo
    <2>5. MapsToUndo' = MapsToUndo
      BY <1>0, <2>2 DEF MapsToUndo, UndoMaps, UndoingPrograms
    <2>6. op'.pc \in UndoingPrograms
      BY <2>2 DEF UndoingPrograms
    <2>. QED BY <1>0, <2>1, <2>2, <2>3, <2>4, <2>5, <2>6, ProgramsLeft
  <1>3. CASE k # 0
    <2>. PICK file : file = ProgFile(d, p, k - 1, "own")
      OBVIOUS
    <2>1. (Unlinked(file) \/ NotUnlinked(file)) /\ OpAt("unpin_inst", p, k - 1)
      BY <1>3 DEF RollBackInstance
    <2>2. /\ op' \in OpPlaces /\ op'.pc = "unpin_inst" /\ op'.i = p /\ op'.k = k - 1
          /\ op'.call = op.call /\ op'.dir = d /\ k - 1 \in 0 .. Instances[p] - 1
      BY <1>0, <1>1, <1>3, <2>1, OpMoves DEF OpBase
    <2>3. OpPlace'
      BY <1>0, <2>2 DEF OpBase, OpPlace, UndoingPrograms
    <2>4. ProgsToUndo' = ProgsToUndo \ {file} /\ file \in ProgsToUndo
      <3>1. ProgsToUndo' = FilesBefore(d, p, k - 1) /\ k > 0
        BY <1>1, <1>3, <2>2 DEF ProgsToUndo
      <3>. QED BY <1>0, <3>1, FilesAheadShrink
    <2>5. MapsToUndo' = MapsToUndo /\ op'.pc \in UndoingPrograms
      BY <1>0, <2>2 DEF MapsToUndo, UndoMaps, UndoingPrograms
    <2>6. CASE Unlinked(file)
      BY <1>0, <2>2, <2>3, <2>4, <2>5, <2>6, OneUnlinked
    <2>7. CASE NotUnlinked(file)
      <3>1. op_files' = op_files /\ op_stuck' = op_stuck \cup {file}
        BY <2>7 DEF NotUnlinked
      <3>2. NotUndone(file)'
        BY <3>1 DEF NotUndone
      <3>. QED BY <1>0, <2>2, <2>3, <2>4, <2>5, <3>1, <3>2, ProgramsLeft
    <2>. QED BY <2>1, <2>6, <2>7
  <1>. QED BY <1>2, <1>3

\* bpf_object__pin_programs, having failed, unpins one instance of the programs before, or gives
\* their program up.
LEMMA RollBackProgramKeeps == OpInv /\ RollBackProgram => OpInv'
  <1>. SUFFICES ASSUME OpInv, RollBackProgram PROVE OpInv'
    OBVIOUS
  <1>. PICK d : d = op.dir
    OBVIOUS
  <1>0. /\ op.pc = "unpin_prog" /\ op.call \in {"pin", "pin_programs"} /\ op.call \in PinCalls
        /\ UNCHANGED <<op_map, op_before>> /\ ProgsToUndo = FilesAhead(d, op.i, op.k) /\ op.pc \in UndoingPrograms
        /\ OpBase /\ op.dir # "none"
    BY DEF RollBackProgram, OpInv, OpBase, OpPlace, PinCalls, ProgsToUndo, UndoingPrograms
  <1>1. CASE op.i = 0
    <2>1. /\ op' \in OpPlaces /\ op'.call = op.call /\ op'.dir = op.dir /\ OpPlace'
          /\ op'.pc \in {"idle", "unmap"} /\ MapsToUndo' = MapsToUndo
      <3>1. CASE op.call = "pin"
        <4>1. op' \in OpPlaces /\ op'.call = op.call /\ op'.dir = op.dir /\ op'.pc = "unmap" /\ op'.i = 1
          <5>1. OpAt("unmap", 1, 0)
            BY <1>1, <3>1 DEF RollBackProgram
          <5>. QED BY <1>0, <5>1, OpMoves DEF OpBase, OpPcs
        <4>2. OpPlace'
          BY <1>0, <3>1, <4>1, ProgramsThere DEF OpBase, OpPlace, UndoingPrograms
        <4>3. MapsToUndo' = MapsToUndo
          BY <1>0, <3>1, <4>1 DEF MapsToUndo, UndoMaps, UndoingPrograms
        <4>. QED BY <4>1, <4>2, <4>3
      <3>2. CASE op.call = "pin_programs"
        <4>1. op' \in OpPlaces /\ op'.call = op.call /\ op'.dir = op.dir /\ op'.pc = "idle"
          <5>1. OpReturn("error")
            BY <1>1, <3>2 DEF RollBackProgram
          <5>. QED BY <1>0, <5>1, OpMoves DEF OpBase
        <4>2. OpPlace'
          BY <1>0, <3>2, <4>1 DEF OpBase, OpPlace, UndoingPrograms
        <4>3. MapsToUndo' = MapsToUndo
          BY <1>0, <3>2, <4>1 DEF MapsToUndo, UndoMaps, UndoingPrograms
        <4>. QED BY <4>1, <4>2, <4>3
      <3>. QED BY <1>0, <3>1, <3>2
    <2>2. ProgsToUndo = {} /\ ProgsToUndo' = {} /\ UNCHANGED <<op_files, op_stuck>>
      BY <1>0, <1>1, <2>1 DEF ProgsToUndo, FilesAhead, RollBackProgram
    <2>. QED BY <1>0, <2>1, <2>2, ProgramsLeft
  <1>2. CASE op.i # 0
    <2>. PICK p \in Progs : p = op.i
      BY <1>0, <1>2 DEF OpBase, OpPlace
    <2>. PICK k \in 0 .. Instances[p] - 1 : k = op.k
      BY <1>0, <1>2 DEF OpBase, OpPlace
    <2>. PICK file : file = ProgFile(d, p, k, "own")
      OBVIOUS
    <2>1. p \in Nat \ {0} /\ Instances[p] \in Nat \ {0} /\ k \in Nat /\ Progs = 1 .. Len(Instances) /\ p - 1 \in Nat
          /\ Len(Instances) \in Nat /\ "unpin_prog" \in OpPcs
      BY ProgramsThere DEF OpPcs
    <2>2. \/ Unlinked(file) /\ k + 1 < Instances[p] /\ OpAt("unpin_prog", p, k + 1)
          \/ Unlinked(file) /\ ~ (k + 1 < Instances[p]) /\ OpAt("unpin_prog", p - 1, 0)
          \/ NotUnlinked(file) /\ OpAt("unpin_prog", p - 1, 0)
      BY <1>2 DEF RollBackProgram, ProgramBefore
    <2>3. ProgsToUndo = FilesFrom(d, p, k) \cup FilesEarlier(d, p) /\ file \in ProgsToUndo
      <3>1. ProgsToUndo = FilesAhead(d, p, k)
        BY <1>0 DEF ProgsToUndo
      <3>2. FilesAhead(d, p, k) = FilesFrom(d, p, k) \cup FilesEarlier(d, p) /\ file \in FilesFrom(d, p, k)
        BY FilesAheadShrink
      <3>. QED BY <3>1, <3>2
    <2>4. CASE Unlinked(file) /\ k + 1 < Instances[p] /\ OpAt("unpin_prog", p, k + 1)
      <3>1. /\ op' \in OpPlaces /\ op'.pc = "unpin_prog" /\ op'.i = p /\ op'.k = k + 1
            /\ op'.call = op.call /\ op'.dir = d /\ k + 1 \in 0 .. Instances[p] - 1
        BY <1>0, <2>1, <2>4, OpMoves DEF OpBase
      <3>2. OpPlace'
        BY <1>0, <3>1 DEF OpBase, OpPlace, UndoingPrograms
      <3>3. ProgsToUndo' = ProgsToUndo \ {file}
        <4>1. ProgsToUndo' = FilesFrom(d, p, k + 1) \cup FilesEarlier(d, p)
          BY <2>1, <3>1 DEF ProgsToUndo, FilesAhead
        <4>. QED BY <1>0, <4>1, FilesAheadShrink
      <3>4. MapsToUndo' = MapsToUndo /\ op'.pc \in UndoingPrograms
        BY <1>0, <3>1 DEF MapsToUndo, UndoMaps, UndoingPrograms
      <3>. QED BY <1>0, <2>3, <2>4, <3>1, <3>2, <3>3, <3>4, OneUnlinked
    <2>5. CASE OpAt("unpin_prog", p - 1, 0)
      <3>1. /\ op' \in OpPlaces /\ op'.pc = "unpin_prog" /\ op'.i = p - 1 /\ op'.k = 0
            /\ op'.call = op.call /\ op'.dir = d
        BY <1>0, <2>1, <2>5, OpMoves DEF OpBase
      <3>2. OpPlace'
        <4>1. p - 1 # 0 => p - 1 \in Progs /\ Instances[p - 1] \in Nat \ {0}
          BY <2>1, ProgramsThere
        <4>2. p - 1 # 0 => 0 \in 0 .. Instances[p - 1] - 1
          BY <4>1
        <4>. QED BY <1>0, <3>1, <4>1, <4>2 DEF OpBase, OpPlace, UndoingPrograms
      <3>3. ProgsToUndo' = FilesEarlier(d, p)
        <4>1. ProgsToUndo' = FilesAhead(d, p - 1, 0)
          BY <3>1 DEF ProgsToUndo
        <4>. QED BY <4>1, FilesAheadShrink
      <3>4. MapsToUndo' = MapsToUndo /\ op'.pc \in UndoingPrograms
        BY <1>0, <3>1 DEF MapsToUndo, UndoMaps, UndoingPrograms
      <3>5. CASE Unlinked(file) /\ ~ (k + 1 < Instances[p])
        <4>1. FilesFrom(d, p, k) = {file} /\ FilesEarlier(d, p) \cap FilesFrom(d, p, k) = {}
          <5>1. k + 1 >= Instances[p]
            BY <2>1, <3>5
          <5>. QED BY <5>1, FilesAheadShrink
        <4>2. ProgsToUndo' = ProgsToUndo \ {file}
          BY <2>3, <3>3, <4>1
        <4>. QED BY <1>0, <2>3, <3>1, <3>2, <3>4, <3>5, <4>2, OneUnlinked
      <3>6. CASE NotUnlinked(file)
        <4>1. op_files' = op_files /\ op_stuck' = op_stuck \cup {file}
          BY <3>6 DEF NotUnlinked
        <4>2. \A f \in FilesFrom(d, p, k) : NotUndone(f)'
          <5>. TAKE f \in FilesFrom(d, p, k)
          <5>. PICK j \in k .. Instances[p] - 1 : f = ProgFile(d, p, j, "own")
            BY DEF FilesFrom
          <5>1. j = k \/ k < j
            BY <2>1
          <5>2. f[1] = d /\ f[2] = "prog" /\ f[3] = p /\ f[4] = j
                /\ file[1] = d /\ file[2] = "prog" /\ file[3] = p /\ file[4] = k
            BY FileFields
          <5>. QED BY <4>1, <5>1, <5>2 DEF NotUndone
        <4>. QED BY <1>0, <2>3, <3>1, <3>2, <3>3, <3>4, <4>1, <4>2, ProgramsLeft
      <3>. QED BY <2>1, <2>2, <2>5, <3>5, <3>6, <2>4
    <2>. QED BY <2>2, <2>4, <2>5
  <1>. QED BY <1>1, <1>2

\* bpf_object__unpin_programs unpins one instance, or fails to.
LEMMA UnpinInstanceKeeps == OpInv /\ UnpinInstance => OpInv'
  <1>. SUFFICES ASSUME OpInv, UnpinInstance PROVE OpInv'
    OBVIOUS
  <1>. PICK file : file = ProgFile(op.dir, op.i, op.k, "own")
    OBVIOUS
  <1>0. op.pc = "unprog" /\ op.call = "unpin_programs" /\ UNCHANGED <<op_map, op_before>> /\ OpBase
        /\ op.i \in Progs /\ op.k \in 0 .. Instances[op.i] - 1
    BY DEF UnpinInstance, OpInv, OpBase, OpPlace
  <1>1. Instances[op.i] \in Nat /\ op.k \in Nat
    BY <1>0, ProgramsThere
  <1>2. \/ OpReturn("error") /\ (UNCHANGED op_files \/ op_files' = Without(file))
        \/ /\ op_files' = Without(file)
           /\ \/ op.k + 1 < Instances[op.i] /\ OpAt(op.pc, op.i, op.k + 1)
              \/ op.k + 1 >= Instances[op.i] /\ op.i < Len(Instances) /\ OpAt(op.pc, op.i + 1, 0)
              \/ OpReturn("0")
    BY <1>0, <1>1 DEF UnpinInstance, Unlinked, NotUnlinked
  <1>3. op' \in OpPlaces /\ OpPlace' /\ op'.call = op.call
    <2>1. CASE OpReturn("error")
      <3>1. op' \in OpPlaces /\ op'.pc = "idle" /\ op'.call = op.call /\ op'.dir = op.dir
        BY <1>0, <2>1, OpMoves DEF OpBase
      <3>. QED BY <1>0, <3>1 DEF OpBase, OpPlace, UndoingPrograms
    <2>2. CASE \/ op.k + 1 < Instances[op.i] /\ OpAt(op.pc, op.i, op.k + 1)
               \/ op.k + 1 >= Instances[op.i] /\ op.i < Len(Instances) /\ OpAt(op.pc, op.i + 1, 0)
               \/ OpReturn("0")
      BY <1>0, <2>2, NextProgMoves DEF OpBase
    <2>. QED BY <1>2, <2>1, <2>2
  <1>4. op_files' \subseteq op_files
    BY <1>2, NamesMean
  <1>5. \A m \in 1 .. PinMaps : OwnFile(m) \in op_files => OwnFile(m) \in op_files'
    <2>1. \A m \in 1 .. PinMaps : ~ SameName(OwnFile(m), file)
      BY FileFields DEF SameName, OwnFile
    <2>. QED BY <1>2, <2>1, NamesMean
  <1>6. OpBase'
    <2>1. OpTypeOK' /\ NamesApart'
      BY <1>0, <1>3, <1>4 DEF OpBase, OpTypeOK, NamesApart
    <2>2. PinnedIsThere' /\ PinnedHasDir'
      BY <1>0, <1>5 DEF OpBase, PinnedIsThere, PinnedHasDir, OwnFile
    <2>. QED BY <1>3, <2>1, <2>2 DEF OpBase
  <1>7. op'.call \notin PinCalls
    BY <1>0, <1>3 DEF PinCalls
  <1>. QED BY <1>6, <1>7 DEF OpInv, OpUndo

-----------------------------------------------------------------------------

\* Somebody else creates a file under a free name.
LEMMA OtherFileKeeps ==
  ASSUME OpInv, NEW file \in Files, file[5] = "other", OtherFile(file)
  PROVE  OpInv'
  <1>0. ~ Taken(file) /\ op_files' = op_files \cup {file} /\ UNCHANGED <<op_map, op, op_ret, op_stuck>>
        /\ op_before' = [op_before EXCEPT !.files = @ \cup {file}] /\ OpBase
    BY DEF OtherFile, OpInv
  <1>1. /\ op_before' \in [files : SUBSET Files, map : MapStates] /\ op_before'.map = op_before.map
        /\ op_before'.files = op_before.files \cup {file}
    BY <1>0 DEF OpBase, OpTypeOK
  <1>2. file \notin op_files /\ \A f, g \in op_files \cup {file} : SameName(f, g) => f = g
    BY <1>0, NewName DEF OpBase
  <1>3. OpBase'
    BY <1>0, <1>1, <1>2 DEF OpBase, OpTypeOK, NamesApart, OpPlace, PinnedIsThere, PinnedHasDir
  <1>4. MapsToUndo' = MapsToUndo /\ ProgsToUndo' = ProgsToUndo /\ \A m : OwnFile(m)' = OwnFile(m)
    BY <1>0 DEF MapsToUndo, ProgsToUndo, OwnFile
  <1>5. \A m : OwnFile(m) # file
    BY FileFields DEF OwnFile
  <1>6. ASSUME op.call \in PinCalls PROVE Held' /\ Known' /\ Added' /\ Gone'
    <2>1. Held /\ Known /\ Added /\ Gone
      BY <1>6 DEF OpInv, OpUndo
    <2>2. Held'
      BY <1>0, <1>4, <2>1 DEF Held
    <2>3. file \notin ProgsToUndo
      BY <1>2, <2>1 DEF Held
    <2>4. Known'
      BY <1>0, <1>1, <1>4, <1>5, <2>1, <2>3 DEF Known
    <2>5. Added'
      BY <1>0, <1>1, <1>4, <2>1, StaysLeft DEF Added
    <2>6. Gone'
      BY <1>0, <1>1, <2>1 DEF Gone
    <2>. QED BY <2>2, <2>4, <2>5, <2>6
  <1>. QED BY <1>0, <1>3, <1>6 DEF OpInv, OpUndo

\* A call of the interface begins.
LEMMA BeginPinKeeps ==
  ASSUME OpInv, NEW call \in PinCalls \cup {"unpin_maps", "unpin_programs"},
         NEW dir \in PinDirs \cup {"none"}, BeginPin(call, dir)
  PROVE  OpInv'
  <1>. PICK pc : pc = CASE call \in {"pin", "pin_maps"} -> "map"
                        [] call = "pin_programs" -> "prog"
                        [] call = "unpin_maps" -> "unmap"
                        [] OTHER -> "unprog"
    OBVIOUS
  <1>0. UNCHANGED <<op_map, op_files>> /\ op_stuck' = {} /\ op_before' = [files |-> op_files, map |-> op_map]
        /\ op' = [OpIdle EXCEPT !.pc = pc, !.call = call, !.dir = dir] /\ op_ret' = "none"
        /\ (call \in {"pin", "pin_programs", "unpin_programs"} => dir # "none") /\ OpBase
    BY DEF BeginPin, OpInv
  <1>1. /\ op'.pc = pc /\ op'.call = call /\ op'.dir = dir /\ op'.i = 1 /\ op'.k = 0
        /\ op' \in OpPlaces
    BY <1>0 DEF OpIdle, OpPlaces, OpPcs, Dirs, PinCalls
  <1>2. OpPlace'
    BY <1>0, <1>1, ProgramsThere DEF UndoingPrograms, OpPlace, PinCalls
  <1>3. OpBase'
    BY <1>0, <1>1, <1>2 DEF OpBase, OpTypeOK, NamesApart, PinnedIsThere, PinnedHasDir
  <1>4. ASSUME call \in PinCalls PROVE MapsToUndo' = {} /\ ProgsToUndo' = {}
    <2>1. pc = "map" \/ (pc = "prog" /\ call = "pin_programs")
      BY <1>4 DEF PinCalls
    <2>2. MapsToUndo' = {}
      BY <1>1, <2>1 DEF UndoingPrograms, MapsToUndo, UndoMaps
    <2>3. ProgsToUndo' = {}
      BY <1>1, <2>1 DEF ProgsToUndo, FilesBefore, FilesEarlier, FilesOf
    <2>. QED BY <2>2, <2>3
  <1>5. ASSUME call \in PinCalls PROVE Held' /\ Known' /\ Added' /\ Gone'
    BY <1>0, <1>1, <1>4, <1>5 DEF Held, Known, Added, Gone
  <1>. QED BY <1>1, <1>3, <1>5 DEF OpInv, OpUndo

\* After the load only the maps with a path of their own are pinned.
LEMMA OpInvInit == OpInit => OpInv
  <1>. SUFFICES ASSUME OpInit PROVE OpInv
    OBVIOUS
  <1>1. AutoPinned \subseteq 1 .. PinMaps /\ PinMaps \in Nat
    BY ObjectPinAssumption
  <1>2. /\ op_map \in MapStates
        /\ \A m \in 1 .. PinMaps : op_map[m].pinned => m \in AutoPinned /\ op_map[m].dir = Autodir
    BY <1>1 DEF OpInit, MapStates, Dirs
  <1>3. \A m \in AutoPinned : MapFile(Autodir, m, "own") \in Files
    <2>1. AutoPinned \subseteq Nat /\ Autodir \in Dirs
      BY <1>1 DEF Dirs
    <2>. QED BY <2>1, FileFields
  <1>4. OpTypeOK
    BY <1>2, <1>3 DEF OpInit, OpTypeOK, OpIdle, OpPlaces, OpPcs, Dirs
  <1>5. NamesApart
    BY FileFields DEF OpInit, NamesApart, SameName
  <1>6. PinnedIsThere /\ PinnedHasDir
    BY <1>2 DEF OpInit, PinnedIsThere, PinnedHasDir, Autodir
  <1>7. OpPlace /\ OpUndo
    BY DEF UndoingPrograms, OpInit, OpIdle, OpPlace, OpUndo, PinCalls
  <1>. QED BY <1>4, <1>5, <1>6, <1>7 DEF OpInv, OpBase

\* The inductive invariant of pinning, whatever fails and whatever others pin meanwhile.
THEOREM PinningInvariant == OpSpec => []OpInv
  <1>1. OpInv /\ [OpNext]_opVars => OpInv'
    <2>. SUFFICES ASSUME OpInv, [OpNext]_opVars PROVE OpInv'
      OBVIOUS
    <2>1. ASSUME NEW c \in PinCalls \cup {"unpin_maps", "unpin_programs"}, NEW d \in PinDirs \cup {"none"},
                 BeginPin(c, d)
          PROVE  OpInv'
      BY <2>1, BeginPinKeeps
    <2>2. ASSUME NEW d \in PinDirs, NEW m \in 1 .. PinMaps, OtherFile(MapFile(d, m, "other")) PROVE OpInv'
      <3>1. MapFile(d, m, "other") \in Files /\ MapFile(d, m, "other")[5] = "other"
        BY FileFields DEF Dirs
      <3>. QED BY <2>2, <3>1, OtherFileKeeps
    <2>3. ASSUME NEW d \in PinDirs, NEW p \in Progs, OtherFile(ProgFile(d, p, Instances[p] - 1, "other"))
          PROVE  OpInv'
      <3>1. p \in Nat /\ Instances[p] - 1 \in Nat
        BY ProgramsThere
      <3>2. ProgFile(d, p, Instances[p] - 1, "other") \in Files
            /\ ProgFile(d, p, Instances[p] - 1, "other")[5] = "other"
        BY <3>1, FileFields DEF Dirs
      <3>. QED BY <2>3, <3>2, OtherFileKeeps
    <2>4. CASE PinOneMap \/ RollBackMap \/ UnpinOneMap \/ PinInstance \/ RollBackInstance
               \/ RollBackProgram \/ UnpinInstance
      BY <2>4, PinOneMapKeeps, RollBackMapKeeps, UnpinOneMapKeeps, PinInstanceKeeps,
         RollBackInstanceKeeps, RollBackProgramKeeps, UnpinInstanceKeeps
    <2>5. CASE UNCHANGED opVars
      BY <2>5
      DEF opVars, OpInv, OpBase, OpUndo, OpTypeOK, NamesApart, OpPlace, PinnedIsThere, PinnedHasDir,
                  Held, Known, Added, Gone, MapsToUndo, ProgsToUndo, OwnFile, NotUndone
    <2>. QED BY <2>1, <2>2, <2>3, <2>4, <2>5 DEF OpNext
  <1>. QED BY <1>1, OpInvInit, PTL DEF OpSpec

\* A call that pins and fails leaves nothing of its own behind but what could not be unlinked and
\* what the code gives up for that, and removes nothing of others; a map that counts as pinned has
\* its file.
THEOREM PinsAlwaysKept == OpSpec => []PinsAreKept
  <1>1. OpInv => PinsAreKept
    <2>. SUFFICES ASSUME OpInv PROVE PinsAreKept
      OBVIOUS
    <2>1. ASSUME op.call \in PinCalls PROVE Added /\ Gone
      BY <2>1 DEF OpInv, OpUndo
    <2>2. FailedPinLeavesNothing
      <3>. SUFFICES ASSUME op.pc = "idle", op.call \in PinCalls, op_ret = "error"
                    PROVE  /\ \A f \in op_files \ op_before.files : NotUndone(f)
                           /\ \A f \in op_before.files \ op_files :
                                f[2] = "map" /\ op_before.map[f[3]] = [dir |-> f[1], pinned |-> TRUE]
        BY DEF FailedPinLeavesNothing
      <3>1. MapsToUndo = {} /\ ProgsToUndo = {}
        BY DEF MapsToUndo, UndoMaps, ProgsToUndo, UndoingPrograms
      <3>. QED BY <2>1, <3>1 DEF Added, Gone
    <2>3. OthersStayPinned
      BY <2>1 DEF OthersStayPinned, Gone
    <2>. QED BY <2>2, <2>3 DEF OpInv, OpBase, PinsAreKept
  <1>. QED BY <1>1, PinningInvariant, PTL

-----------------------------------------------------------------------------
(* AF_XDP sockets.                                                         *)

XsPcs == {"idle", "rings", "bind", "created", "get_id", "create", "attach", "lookup", "set"}
AllKinds == {"rx", "tx", "both"}
Umems == [alive : BOOLEAN, refcount : Nat, bound : BOOLEAN, lost : Nat]
Socks == [alive : BOOLEAN, own : BOOLEAN, kind : AllKinds, prog : Int]
Runs == [pc : XsPcs, slot : XskSlots \cup {0}, kind : AllKinds, inhibit : BOOLEAN, prog : Int]

XsTypeOK ==
  /\ xs_umem \in [XskThreads -> Umems] /\ xs_sock \in [XskThreads -> [XskSlots -> Socks]]
  /\ xs_run \in [XskThreads -> Runs]
  /\ xs_fds \subseteq XskThreads \X (XskSlots \cup {0}) \X {"sock", "prog", "map"}
  /\ xs_maps \subseteq XskThreads \X (XskSlots \cup {0}) \X {"rx", "tx", "fill", "comp"}
  /\ xs_entries \subseteq Int \X XskThreads \X XskSlots
  /\ xs_link \in Int /\ xs_loaded \in Nat /\ xs_noexist \in BOOLEAN

Running(t) == xs_run[t].pc # "idle"
\* A call that goes on to the library's program.
WithProgram(t) == Running(t) /\ ~ xs_run[t].inhibit

\* The call under way, and what it goes by.
RunOK(t) ==
  LET run == xs_run[t] IN
  /\ Running(t) => run.slot \in XskSlots /\ ~ xs_sock[t][run.slot].alive /\ xs_umem[t].alive
  /\ run.pc = "created" => run.inhibit
  /\ run.pc \in {"get_id", "create", "attach", "lookup", "set"} => ~ run.inhibit
  /\ WithProgram(t) => xs_umem[t].refcount = 1
  /\ run.pc \in {"attach", "lookup", "set"} => run.prog # 0

\* The call under way counts as well.
CountOK(t) ==
  xs_umem[t].refcount = Cardinality(LiveSlots(t)) + xs_umem[t].lost + (IF Running(t) THEN 1 ELSE 0)

\* The sockets: at most one of a thread uses the library's program.
SocksOK(t) ==
  /\ \A s \in XskSlots : /\ ~ xs_sock[t][s].alive => xs_sock[t][s] = NoSocket
                         /\ xs_sock[t][s].alive => xs_umem[t].alive
  /\ \A s, r \in XskSlots : xs_sock[t][s].prog # 0 /\ xs_sock[t][r].prog # 0 => s = r

\* The descriptors, one by one.
BpfThere(t, s) ==
  \/ xs_sock[t][s].prog # 0
  \/ xs_run[t].pc \in {"attach", "set"} /\ xs_run[t].slot = s
FdsOK(t) ==
  /\ \A w \in {"sock", "prog", "map"} : <<t, 0, w>> \in xs_fds <=> w = "sock" /\ xs_umem[t].alive
  /\ \A s \in XskSlots :
       /\ <<t, s, "sock">> \in xs_fds <=>
            xs_sock[t][s].own \/ (Running(t) /\ xs_run[t].slot = s /\ xs_umem[t].refcount > 1)
       /\ <<t, s, "prog">> \in xs_fds <=> BpfThere(t, s)
       /\ <<t, s, "map">> \in xs_fds <=> BpfThere(t, s)

\* The rings, one by one, but for those that were left.
RingThere(t, s, r) ==
  \/ xs_sock[t][s].alive /\ r \in Rings(xs_sock[t][s].kind)
  \/ /\ xs_run[t].pc \notin {"idle", "rings"} /\ xs_run[t].slot = s
     /\ r \in Rings(xs_run[t].kind)
RingsOK(t) ==
  \A r \in {"rx", "tx", "fill", "comp"} :
    /\ <<t, 0, r>> \notin xs_left =>
         (<<t, 0, r>> \in xs_maps <=> r \in {"fill", "comp"} /\ xs_umem[t].alive)
    /\ \A s \in XskSlots : <<t, s, r>> \notin xs_left =>
         (<<t, s, r>> \in xs_maps <=> RingThere(t, s, r))

ThreadOK(t) == RunOK(t) /\ CountOK(t) /\ SocksOK(t) /\ FdsOK(t) /\ RingsOK(t)

\* With XDP_FLAGS_UPDATE_IF_NOEXIST the program on the interface stays, and all go by it.
ReachOK ==
  xs_noexist => \A t \in XskThreads :
    /\ xs_run[t].pc \in {"lookup", "set"} => xs_run[t].prog = xs_link
    /\ \A s \in XskSlots : xs_sock[t][s].prog # 0 =>
         /\ xs_sock[t][s].prog = xs_link
         /\ xs_sock[t][s].kind # "tx" => <<xs_link, t, s>> \in xs_entries

EntriesOK == \A e \in xs_entries : /\ xs_sock[e[2]][e[3]].alive /\ xs_sock[e[2]][e[3]].prog = e[1]
                                   /\ e[1] # 0

\* The inductive invariant.
XsInv == XsTypeOK /\ (\A t \in XskThreads : ThreadOK(t)) /\ EntriesOK /\ ReachOK

-----------------------------------------------------------------------------

\* The live sockets of a umem can be counted.
LEMMA LiveCount ==
  ASSUME NEW t \in XskThreads
  PROVE  IsFiniteSet(LiveSlots(t)) /\ Cardinality(LiveSlots(t)) \in Nat
         /\ (Cardinality(LiveSlots(t)) = 0 <=> LiveSlots(t) = {})
  <1>1. LiveSlots(t) \subseteq XskSlots /\ IsFiniteSet(XskSlots)
    BY XskSocketAssumption DEF LiveSlots
  <1>2. IsFiniteSet(LiveSlots(t))
    BY <1>1, FS_Subset
  <1>. QED BY <1>2, FS_CardinalityType, FS_EmptySet

\* The parts of the state have their types.
LEMMA OfTheirTypes ==
  ASSUME XsTypeOK, NEW t \in XskThreads
  PROVE  /\ xs_umem[t] \in Umems /\ xs_run[t] \in Runs /\ xs_sock[t] \in [XskSlots -> Socks]
         /\ xs_umem[t].refcount \in Nat /\ xs_umem[t].lost \in Nat
         /\ xs_run[t].kind \in AllKinds /\ xs_run[t].prog \in Int /\ xs_run[t].pc \in XsPcs
         /\ \A s \in XskSlots : xs_sock[t][s] \in Socks /\ xs_sock[t][s].kind \in AllKinds
  BY DEF XsTypeOK, Umems, Runs, Socks

\* A call that goes on to the library's program is for the only socket of its umem.
LEMMA AloneWithProgram ==
  ASSUME XsInv, NEW t \in XskThreads, WithProgram(t)
  PROVE  LiveSlots(t) = {} /\ \A s \in XskSlots : xs_sock[t][s] = NoSocket
  <1>1. RunOK(t) /\ CountOK(t) /\ SocksOK(t) /\ XsTypeOK
    BY DEF XsInv, ThreadOK
  <1>2. xs_umem[t].refcount = 1 /\ xs_umem[t].lost \in Nat
        /\ xs_umem[t].refcount = Cardinality(LiveSlots(t)) + xs_umem[t].lost + 1
    BY <1>1, OfTheirTypes DEF RunOK, CountOK, WithProgram
  <1>3. LiveSlots(t) = {}
    BY <1>2, LiveCount
  <1>. QED BY <1>1, <1>3 DEF SocksOK, LiveSlots

\* A thread that keeps what is its own is as it was.
LEMMA OthersKept ==
  ASSUME NEW u \in XskThreads, ThreadOK(u),
         xs_umem'[u] = xs_umem[u], xs_sock'[u] = xs_sock[u], xs_run'[u] = xs_run[u],
         \A s, w : /\ <<u, s, w>> \in xs_fds' <=> <<u, s, w>> \in xs_fds
                   /\ <<u, s, w>> \in xs_maps' <=> <<u, s, w>> \in xs_maps
                   /\ <<u, s, w>> \in xs_left' <=> <<u, s, w>> \in xs_left
  PROVE  ThreadOK(u)'
  <1>1. RunOK(u)'
    BY DEF ThreadOK, RunOK, Running, WithProgram
  <1>2. LiveSlots(u)' = LiveSlots(u)
    BY DEF LiveSlots
  <1>3. CountOK(u)'
    BY <1>2 DEF ThreadOK, CountOK, Running
  <1>4. SocksOK(u)'
    BY DEF ThreadOK, SocksOK
  <1>5. FdsOK(u)'
    BY DEF ThreadOK, FdsOK, BpfThere, Running
  <1>6. RingsOK(u)'
    BY DEF ThreadOK, RingsOK, RingThere
  <1>. QED BY <1>1, <1>3, <1>4, <1>5, <1>6 DEF ThreadOK

\* The descriptor of the call under way: the socket's own where others count on the umem.
LEMMA DescriptorOfCall ==
  ASSUME XsInv, NEW t \in XskThreads, Running(t)
  PROVE  /\ xs_run[t].slot \in XskSlots /\ xs_run[t].slot # 0
         /\ xs_sock[t][xs_run[t].slot] = NoSocket
         /\ xs_umem[t].refcount > 1 <=> Sock_fd(t) # UmemFd(t)
         /\ xs_umem[t].refcount > 1 => Sock_fd(t) = <<t, xs_run[t].slot, "sock">>
         /\ xs_umem[t].refcount >= 1 /\ xs_umem[t].refcount \in Nat
  <1>1. RunOK(t) /\ CountOK(t) /\ SocksOK(t) /\ FdsOK(t) /\ XsTypeOK
    BY DEF XsInv, ThreadOK
  <1>2. xs_run[t].slot \in XskSlots /\ xs_run[t].slot # 0 /\ xs_sock[t][xs_run[t].slot] = NoSocket
    BY <1>1, XskSocketAssumption DEF RunOK, SocksOK
  <1>3. <<t, xs_run[t].slot, "sock">> \in xs_fds <=> xs_umem[t].refcount > 1
    <2>. PICK slot \in XskSlots : slot = xs_run[t].slot /\ xs_sock[t][slot] = NoSocket
      BY <1>2
    <2>1. ~ xs_sock[t][slot].own
      BY DEF NoSocket
    <2>2. <<t, slot, "sock">> \in xs_fds <=>
            xs_sock[t][slot].own \/ (Running(t) /\ xs_run[t].slot = slot /\ xs_umem[t].refcount > 1)
      BY <1>1 DEF FdsOK
    <2>. QED BY <2>1, <2>2
  <1>4. xs_umem[t].refcount >= 1 /\ xs_umem[t].refcount \in Nat
    BY <1>1, LiveCount, OfTheirTypes DEF CountOK
  <1>. QED BY <1>2, <1>3, <1>4 DEF Sock_fd, UmemFd

\* A call fails, at whatever step: the count and all that it had opened are given back.
LEMMA OutKeeps ==
  ASSUME XsInv, NEW t \in XskThreads, Running(t), NEW closed, OutSocket(t, closed),
         \/ closed = {} /\ xs_run[t].pc \notin {"attach", "set"}
         \/ closed = BpfFds(t, xs_run[t].slot),
         \/ xs_run[t].pc = "rings" /\ xs_maps' = xs_maps
         \/ xs_maps' = xs_maps \ RingsOf(t, xs_run[t].slot, xs_run[t].kind),
         UNCHANGED <<xs_sock, xs_noexist, xs_left, xs_link, xs_loaded>>,
         \/ xs_entries' = xs_entries
         \/ WithProgram(t) /\ xs_entries' = xsk_delete_bpf_maps(t, xs_run[t].prog)
  PROVE  XsInv'
  <1>0. XsTypeOK /\ ThreadOK(t) /\ RunOK(t) /\ CountOK(t) /\ SocksOK(t) /\ FdsOK(t) /\ RingsOK(t)
        /\ EntriesOK /\ ReachOK
    BY DEF XsInv, ThreadOK
  <1>. PICK slot \in XskSlots : slot = xs_run[t].slot
    BY DescriptorOfCall
  <1>. PICK kind \in AllKinds : kind = xs_run[t].kind
    BY <1>0, OfTheirTypes
  <1>1. slot # 0 /\ xs_sock[t][slot] = NoSocket /\ xs_umem[t].refcount \in Nat /\ xs_umem[t].refcount >= 1
        /\ (xs_umem[t].refcount > 1 => Sock_fd(t) = <<t, slot, "sock">>)
    BY DescriptorOfCall
  <1>2. /\ xs_umem' \in [XskThreads -> Umems]
        /\ xs_umem'[t].refcount = xs_umem[t].refcount - 1 /\ xs_umem'[t].lost = xs_umem[t].lost
        /\ xs_umem'[t].alive = xs_umem[t].alive
        /\ \A u \in XskThreads : u # t => xs_umem'[u] = xs_umem[u]
    <2>1. xs_umem \in [XskThreads -> Umems] /\ xs_umem[t] \in Umems
      BY <1>0, OfTheirTypes DEF XsTypeOK
    <2>. PICK new : new = [xs_umem[t] EXCEPT !.refcount = @ - 1]
      OBVIOUS
    <2>2. xs_umem' = [xs_umem EXCEPT ![t] = new]
      BY DEF OutSocket
    <2>3. new \in Umems /\ new.refcount = xs_umem[t].refcount - 1 /\ new.lost = xs_umem[t].lost
          /\ new.alive = xs_umem[t].alive
      BY <1>1, <2>1 DEF Umems
    <2>. QED BY <2>1, <2>2, <2>3
  <1>3. /\ xs_run' \in [XskThreads -> Runs] /\ xs_run'[t] = XsIdle
        /\ \A u \in XskThreads : u # t => xs_run'[u] = xs_run[u]
    BY <1>0 DEF OutSocket, XsTypeOK, XsIdle, Runs, XsPcs, AllKinds
  <1>4. \A u, s, w : <<u, s, w>> \in xs_fds' <=>
          /\ <<u, s, w>> \in xs_fds
          /\ ~ (u = t /\ s = slot /\ w = "sock" /\ xs_umem[t].refcount > 1)
          /\ ~ (u = t /\ s = slot /\ w \in {"prog", "map"} /\ closed # {})
    BY <1>1 DEF OutSocket, BpfFds
  <1>5. \A u, s, w : <<u, s, w>> \in xs_maps' <=>
          /\ <<u, s, w>> \in xs_maps
          /\ ~ (u = t /\ s = slot /\ w \in Rings(kind) /\ xs_maps' # xs_maps)
    BY DEF RingsOf
  <1>6. XsTypeOK'
    <2>1. xs_fds' \subseteq xs_fds /\ xs_maps' \subseteq xs_maps /\ xs_entries' \subseteq xs_entries
      BY DEF OutSocket, xsk_delete_bpf_maps
    <2>. QED BY <1>0, <1>2, <1>3, <2>1 DEF XsTypeOK
  <1>7. \A u \in XskThreads : u # t => ThreadOK(u)'
    BY <1>2, <1>3, <1>4, <1>5, OthersKept DEF XsInv
  <1>8. ThreadOK(t)'
    <2>1. RunOK(t)'
      BY <1>3 DEF RunOK, Running, WithProgram, XsIdle
    <2>2. CountOK(t)'
      <3>1. LiveSlots(t)' = LiveSlots(t)
        BY DEF LiveSlots
      <3>2. xs_umem[t].refcount = Cardinality(LiveSlots(t)) + xs_umem[t].lost + 1
        BY <1>0 DEF CountOK
      <3>3. ~ Running(t)'
        BY <1>3 DEF Running, XsIdle
      <3>4. Cardinality(LiveSlots(t)) \in Nat /\ xs_umem[t].lost \in Nat
        BY <1>0, LiveCount, OfTheirTypes
      <3>. QED BY <1>1, <1>2, <3>1, <3>2, <3>3, <3>4 DEF CountOK
    <2>3. SocksOK(t)'
      BY <1>0, <1>2 DEF SocksOK
    <2>4. FdsOK(t)'
      <3>1. \A s \in XskSlots : xs_sock[t][s].own /\ s = slot => FALSE
        BY <1>1 DEF NoSocket
      <3>2. \A s \in XskSlots : xs_sock[t][s].prog # 0 /\ s = slot => FALSE
        BY <1>1 DEF NoSocket
      <3>3. xs_run'[t].pc = "idle" /\ ~ Running(t)'
        BY <1>3 DEF XsIdle, Running
      <3>4. closed = {} => xs_run[t].pc \notin {"attach", "set"}
        BY DEF BpfFds
      <3>5. \A s \in XskSlots : s # 0
        BY XskSocketAssumption
      <3>. QED BY <1>0, <1>1, <1>2, <1>4, <3>1, <3>2, <3>3, <3>4, <3>5 DEF FdsOK, BpfThere
    <2>5. RingsOK(t)'
      <3>1. xs_run'[t].pc = "idle" /\ ~ xs_sock[t][slot].alive
        BY <1>1, <1>3 DEF XsIdle, NoSocket
      <3>2. xs_maps' = xs_maps => xs_run[t].pc = "rings" \/ \A w \in Rings(kind) : <<t, slot, w>> \notin xs_maps
        BY DEF RingsOf
      <3>3. \A s \in XskSlots : s # 0
        BY XskSocketAssumption
      <3>. QED BY <1>0, <1>1, <1>2, <1>5, <3>1, <3>2, <3>3 DEF RingsOK, RingThere
    <2>. QED BY <2>1, <2>2, <2>3, <2>4, <2>5 DEF ThreadOK
  <1>9. EntriesOK'
    BY <1>0 DEF EntriesOK, xsk_delete_bpf_maps
  <1>10. ReachOK'
    <2>1. ASSUME NEW u \in XskThreads, NEW s \in XskSlots, xs_sock[u][s].prog # 0,
                 <<xs_link, u, s>> \in xs_entries
          PROVE  <<xs_link, u, s>> \in xs_entries'
      <3>1. WithProgram(t) => u # t
        BY <2>1, AloneWithProgram DEF NoSocket
      <3>. QED BY <2>1, <3>1 DEF xsk_delete_bpf_maps
    <2>2. \A u \in XskThreads : xs_run'[u].pc \in {"lookup", "set"} => xs_run'[u] = xs_run[u]
      BY <1>3 DEF XsIdle
    <2>. QED BY <1>0, <2>1, <2>2 DEF ReachOK
  <1>. QED BY <1>6, <1>7, <1>8, <1>9, <1>10 DEF XsInv

\* A call goes on, at whatever step: what it opens and maps is what it has by its new place.
LEMMA GoKeeps ==
  ASSUME XsInv, NEW t \in XskThreads, Running(t), NEW pc \in XsPcs \ {"idle", "rings"}, NEW prog \in Int,
         xs_run' = [xs_run EXCEPT ![t].pc = pc, ![t].prog = prog],
         xs_umem' = xs_umem \/ xs_umem' = [xs_umem EXCEPT ![t].bound = TRUE],
         xs_fds' = IF pc \in {"attach", "set"} THEN xs_fds \cup BpfFds(t, xs_run[t].slot) ELSE xs_fds,
         xs_run[t].pc \in {"attach", "set"} => pc \in {"attach", "set"},
         xs_maps' = IF xs_run[t].pc = "rings"
                    THEN xs_maps \cup RingsOf(t, xs_run[t].slot, xs_run[t].kind) ELSE xs_maps,
         UNCHANGED <<xs_sock, xs_noexist, xs_left, xs_entries>>,
         xs_link' \in Int, xs_loaded' \in Nat,
         xs_link' # xs_link => (xs_noexist => xs_link = 0),
         pc = "created" => xs_run[t].inhibit,
         pc \in {"get_id", "create", "attach", "lookup", "set"} => ~ xs_run[t].inhibit,
         pc \in {"attach", "lookup", "set"} => prog # 0,
         xs_noexist /\ pc \in {"lookup", "set"} => prog = xs_link'
  PROVE  XsInv'
  <1>0. XsTypeOK /\ ThreadOK(t) /\ RunOK(t) /\ CountOK(t) /\ SocksOK(t) /\ FdsOK(t) /\ RingsOK(t)
        /\ EntriesOK /\ ReachOK
    BY DEF XsInv, ThreadOK
  <1>. PICK slot \in XskSlots : slot = xs_run[t].slot
    BY DescriptorOfCall
  <1>. PICK kind \in AllKinds : kind = xs_run[t].kind
    BY <1>0, OfTheirTypes
  <1>1. slot # 0 /\ xs_sock[t][slot] = NoSocket
    BY DescriptorOfCall
  <1>2. /\ xs_umem' \in [XskThreads -> Umems]
        /\ xs_umem'[t].refcount = xs_umem[t].refcount /\ xs_umem'[t].lost = xs_umem[t].lost
        /\ xs_umem'[t].alive = xs_umem[t].alive
        /\ \A u \in XskThreads : u # t => xs_umem'[u] = xs_umem[u]
    <2>1. xs_umem \in [XskThreads -> Umems] /\ xs_umem[t] \in Umems
      BY <1>0, OfTheirTypes DEF XsTypeOK
    <2>. PICK new : new = [xs_umem[t] EXCEPT !.bound = TRUE]
      OBVIOUS
    <2>2. xs_umem' = xs_umem \/ xs_umem' = [xs_umem EXCEPT ![t] = new]
      OBVIOUS
    <2>3. new \in Umems /\ new.refcount = xs_umem[t].refcount /\ new.lost = xs_umem[t].lost
          /\ new.alive = xs_umem[t].alive
      BY <2>1 DEF Umems
    <2>. QED BY <2>1, <2>2, <2>3
  <1>3. /\ xs_run' \in [XskThreads -> Runs] /\ xs_run'[t].pc = pc /\ xs_run'[t].prog = prog
        /\ xs_run'[t].slot = slot /\ xs_run'[t].kind = kind /\ xs_run'[t].inhibit = xs_run[t].inhibit
        /\ \A u \in XskThreads : u # t => xs_run'[u] = xs_run[u]
    <2>1. xs_run \in [XskThreads -> Runs] /\ xs_run[t] \in Runs
      BY <1>0, OfTheirTypes DEF XsTypeOK
    <2>. PICK new : new = [xs_run[t] EXCEPT !.pc = pc, !.prog = prog]
      OBVIOUS
    <2>2. xs_run' = [xs_run EXCEPT ![t] = new]
      OBVIOUS
    <2>3. new \in Runs /\ new.pc = pc /\ new.prog = prog /\ new.slot = slot /\ new.kind = kind
          /\ new.inhibit = xs_run[t].inhibit
      BY <2>1 DEF Runs
    <2>. QED BY <2>1, <2>2, <2>3
  <1>4. \A u, s, w : <<u, s, w>> \in xs_fds' <=>
          \/ <<u, s, w>> \in xs_fds
          \/ u = t /\ s = slot /\ w \in {"prog", "map"} /\ pc \in {"attach", "set"}
    BY DEF BpfFds
  <1>5. \A u, s, w : <<u, s, w>> \in xs_maps' <=>
          \/ <<u, s, w>> \in xs_maps
          \/ u = t /\ s = slot /\ w \in Rings(kind) /\ xs_run[t].pc = "rings"
    BY DEF RingsOf
  <1>6. XsTypeOK'
    <2>1. xs_fds' \subseteq XskThreads \X (XskSlots \cup {0}) \X {"sock", "prog", "map"}
      BY <1>0 DEF XsTypeOK, BpfFds
    <2>2. xs_maps' \subseteq XskThreads \X (XskSlots \cup {0}) \X {"rx", "tx", "fill", "comp"}
      BY <1>0 DEF XsTypeOK, RingsOf, Rings, AllKinds
    <2>. QED BY <1>0, <1>2, <1>3, <2>1, <2>2 DEF XsTypeOK
  <1>7. \A u \in XskThreads : u # t => ThreadOK(u)'
    BY <1>2, <1>3, <1>4, <1>5, OthersKept DEF XsInv
  <1>8. ThreadOK(t)'
    <2>0. Running(t)'
      BY <1>3 DEF Running
    <2>1. RunOK(t)'
      BY <1>0, <1>2, <1>3 DEF RunOK, Running, WithProgram
    <2>2. CountOK(t)'
      <3>1. LiveSlots(t)' = LiveSlots(t)
        BY DEF LiveSlots
      <3>. QED BY <1>0, <1>2, <2>0, <3>1 DEF CountOK
    <2>3. SocksOK(t)'
      BY <1>0, <1>2 DEF SocksOK
    <2>4. FdsOK(t)'
      <3>1. \A s \in XskSlots : BpfThere(t, s)' <=>
              BpfThere(t, s) \/ (s = slot /\ pc \in {"attach", "set"})
        BY <1>3 DEF BpfThere
      <3>. QED BY <1>0, <1>1, <1>2, <1>3, <1>4, <2>0, <3>1 DEF FdsOK
    <2>5. RingsOK(t)'
      <3>1. \A s \in XskSlots : \A r : RingThere(t, s, r)' <=>
              RingThere(t, s, r) \/ (s = slot /\ r \in Rings(kind) /\ xs_run[t].pc = "rings")
        BY <1>3 DEF RingThere, Running
      <3>. QED BY <1>0, <1>1, <1>2, <1>5, <3>1 DEF RingsOK
    <2>. QED BY <2>1, <2>2, <2>3, <2>4, <2>5 DEF ThreadOK
  <1>9. EntriesOK'
    BY <1>0 DEF EntriesOK
  <1>10. ReachOK'
    <2>1. ASSUME xs_link' # xs_link, xs_noexist, NEW u \in XskThreads
          PROVE  /\ u # t => xs_run'[u].pc \notin {"lookup", "set"}
                 /\ \A s \in XskSlots : xs_sock[u][s].prog = 0
      <3>1. RunOK(u) /\ xs_link = 0
        BY <2>1 DEF XsInv, ThreadOK
      <3>. QED BY <1>0, <1>3, <2>1, <3>1, ZenonT(60) DEF ReachOK, RunOK
    <2>. QED BY <1>0, <1>3, <2>1 DEF ReachOK
  <1>. QED BY <1>6, <1>7, <1>8, <1>9, <1>10 DEF XsInv

\* A socket is created: what its call had is the socket's.
LEMMA CreatedKeeps ==
  ASSUME XsInv, NEW t \in XskThreads, NEW prog \in Int, Created(t, prog), xs_fds' = xs_fds,
         \/ xs_run[t].pc = "created" /\ prog = 0 /\ xs_entries' = xs_entries
         \/ /\ xs_run[t].pc = "set" /\ prog = xs_run[t].prog
            /\ xs_entries' = IF "rx" \in Rings(xs_run[t].kind)
                             THEN xs_entries \cup {<<prog, t, xs_run[t].slot>>} ELSE xs_entries
  PROVE  XsInv'
  <1>0. XsTypeOK /\ ThreadOK(t) /\ RunOK(t) /\ CountOK(t) /\ SocksOK(t) /\ FdsOK(t) /\ RingsOK(t)
        /\ EntriesOK /\ ReachOK /\ Running(t)
    BY DEF XsInv, ThreadOK, Running
  <1>. PICK slot \in XskSlots : slot = xs_run[t].slot
    BY <1>0, DescriptorOfCall
  <1>. PICK kind \in AllKinds : kind = xs_run[t].kind
    BY <1>0, OfTheirTypes
  <1>. PICK own \in BOOLEAN : own <=> xs_umem[t].refcount > 1
    OBVIOUS
  <1>1. slot # 0 /\ xs_sock[t][slot] = NoSocket /\ (own <=> Sock_fd(t) # UmemFd(t))
        /\ xs_umem[t].refcount \in Nat
    BY <1>0, DescriptorOfCall
  <1>. PICK sock : sock = [alive |-> TRUE, own |-> own, kind |-> kind, prog |-> prog]
    OBVIOUS
  <1>2. /\ xs_sock' \in [XskThreads -> [XskSlots -> Socks]] /\ xs_sock'[t][slot] = sock
        /\ \A s \in XskSlots : s # slot => xs_sock'[t][s] = xs_sock[t][s]
        /\ \A u \in XskThreads : u # t => xs_sock'[u] = xs_sock[u]
        /\ sock.alive /\ sock.own = own /\ sock.kind = kind /\ sock.prog = prog
    <2>1. sock \in Socks
      BY DEF Socks
    <2>2. (Sock_fd(t) # UmemFd(t)) = own
      BY <1>1
    <2>3. xs_sock' = [xs_sock EXCEPT ![t][slot] = sock]
      BY <2>2 DEF Created
    <2>4. xs_sock \in [XskThreads -> [XskSlots -> Socks]]
      BY <1>0 DEF XsTypeOK
    <2>. QED BY <2>1, <2>3, <2>4
  <1>3. /\ xs_run' \in [XskThreads -> Runs] /\ xs_run'[t] = XsIdle
        /\ \A u \in XskThreads : u # t => xs_run'[u] = xs_run[u]
    BY <1>0 DEF Created, XsTypeOK, XsIdle, Runs, XsPcs, AllKinds
  <1>4. UNCHANGED <<xs_umem, xs_maps, xs_link, xs_noexist, xs_loaded, xs_left>>
    BY DEF Created
  <1>5. prog # 0 => xs_run[t].pc = "set" /\ \A s \in XskSlots : xs_sock[t][s] = NoSocket
    BY <1>0, AloneWithProgram DEF WithProgram, RunOK
  <1>6. XsTypeOK'
    <2>1. xs_entries' \subseteq Int \X XskThreads \X XskSlots
      BY <1>0 DEF XsTypeOK
    <2>. QED BY <1>0, <1>2, <1>3, <1>4, <2>1 DEF XsTypeOK
  <1>7. \A u \in XskThreads : u # t => ThreadOK(u)'
    BY <1>2, <1>3, <1>4, OthersKept DEF XsInv
  <1>8. ThreadOK(t)'
    <2>0. ~ Running(t)' /\ xs_run'[t].pc = "idle"
      BY <1>3 DEF Running, XsIdle
    <2>1. RunOK(t)'
      BY <2>0 DEF RunOK, Running, WithProgram
    <2>2. CountOK(t)'
      <3>1. LiveSlots(t)' = LiveSlots(t) \cup {slot} /\ slot \notin LiveSlots(t)
        BY <1>1, <1>2 DEF LiveSlots, NoSocket
      <3>2. Cardinality(LiveSlots(t) \cup {slot}) = Cardinality(LiveSlots(t)) + 1
        BY <3>1, LiveCount, FS_AddElement
      <3>3. xs_umem[t].refcount = Cardinality(LiveSlots(t)) + xs_umem[t].lost + 1
            /\ Cardinality(LiveSlots(t)) \in Nat /\ xs_umem[t].lost \in Nat
        BY <1>0, LiveCount, OfTheirTypes DEF CountOK
      <3>. QED BY <1>4, <2>0, <3>1, <3>2, <3>3 DEF CountOK
    <2>3. SocksOK(t)'
      <3>1. \A s, r \in XskSlots : xs_sock'[t][s].prog # 0 /\ xs_sock'[t][r].prog # 0 => s = r
        <4>1. \A s \in XskSlots : s # slot /\ prog # 0 => xs_sock'[t][s].prog = 0
          BY <1>2, <1>5 DEF NoSocket
        <4>. QED BY <1>0, <1>2, <4>1 DEF SocksOK
      <3>2. xs_umem[t].alive
        BY <1>0 DEF RunOK
      <3>. QED BY <1>0, <1>2, <1>4, <3>1, <3>2 DEF SocksOK
    <2>4. FdsOK(t)'
      <3>1. prog # 0 <=> xs_run[t].pc \in {"attach", "set"}
        BY <1>0 DEF RunOK
      <3>2. \A s \in XskSlots : BpfThere(t, s)' <=> BpfThere(t, s)
        BY <1>1, <1>2, <2>0, <3>1 DEF BpfThere, NoSocket
      <3>3. \A s \in XskSlots : xs_sock'[t][s].own <=>
              xs_sock[t][s].own \/ (Running(t) /\ xs_run[t].slot = s /\ xs_umem[t].refcount > 1)
        BY <1>0, <1>1, <1>2 DEF NoSocket
      <3>. QED BY <1>0, <1>4, <2>0, <3>2, <3>3 DEF FdsOK
    <2>5. RingsOK(t)'
      <3>1. \A s \in XskSlots : \A r : RingThere(t, s, r)' <=> RingThere(t, s, r)
        BY <1>1, <1>2, <2>0 DEF RingThere, NoSocket
      <3>. QED BY <1>0, <1>4, <3>1 DEF RingsOK
    <2>. QED BY <2>1, <2>2, <2>3, <2>4, <2>5 DEF ThreadOK
  <1>9. EntriesOK'
    <2>1. ASSUME NEW e \in xs_entries
          PROVE  xs_sock'[e[2]][e[3]].alive /\ xs_sock'[e[2]][e[3]].prog = e[1] /\ e[1] # 0
      <3>1. e[2] \in XskThreads /\ e[3] \in XskSlots /\ xs_sock[e[2]][e[3]].alive
            /\ xs_sock[e[2]][e[3]].prog = e[1] /\ e[1] # 0
        BY <1>0 DEF XsTypeOK, EntriesOK
      <3>2. ~ (e[2] = t /\ e[3] = slot)
        BY <1>1, <3>1 DEF NoSocket
      <3>. QED BY <1>2, <3>1, <3>2
    <2>2. ASSUME NEW e, e = <<prog, t, slot>>, xs_run[t].pc = "set", prog = xs_run[t].prog
          PROVE  xs_sock'[e[2]][e[3]].alive /\ xs_sock'[e[2]][e[3]].prog = e[1] /\ e[1] # 0
      BY <1>0, <1>2, <2>2 DEF RunOK
    <2>. QED BY <2>1, <2>2 DEF EntriesOK
  <1>10. ReachOK'
    <2>1. ASSUME xs_noexist, NEW u \in XskThreads, NEW s \in XskSlots, xs_sock'[u][s].prog # 0
          PROVE  xs_sock'[u][s].prog = xs_link
                 /\ (xs_sock'[u][s].kind # "tx" => <<xs_link, u, s>> \in xs_entries')
      <3>1. CASE u = t /\ s = slot
        <4>1. prog # 0 /\ xs_run[t].pc = "set" /\ prog = xs_link
          BY <1>0, <1>2, <1>5, <2>1, <3>1 DEF ReachOK
        <4>2. kind # "tx" => "rx" \in Rings(kind)
          BY DEF Rings, AllKinds
        <4>. QED BY <1>2, <3>1, <4>1, <4>2
      <3>2. CASE ~ (u = t /\ s = slot)
        <4>1. xs_sock'[u][s] = xs_sock[u][s]
          BY <1>2, <3>2
        <4>. QED BY <1>0, <2>1, <4>1 DEF ReachOK
      <3>. QED BY <3>1, <3>2
    <2>2. \A u \in XskThreads : xs_run'[u].pc \in {"lookup", "set"} => xs_run'[u] = xs_run[u]
      BY <1>3 DEF XsIdle
    <2>. QED BY <1>0, <1>4, <2>1, <2>2 DEF ReachOK
  <1>. QED BY <1>6, <1>7, <1>8, <1>9, <1>10 DEF XsInv

\* The program on the interface and the calls of the other threads stay what they were.
LEMMA ReachStays ==
  ASSUME XsInv, NEW t \in XskThreads, xs_link' = xs_link, xs_noexist' = xs_noexist,
         xs_run[t].pc = "idle",
         xs_run'[t].pc \notin {"lookup", "set"},
         \A u \in XskThreads : u # t => xs_run'[u] = xs_run[u],
         \A u \in XskThreads : \A s \in XskSlots : xs_sock'[u][s].prog # 0 =>
           /\ xs_sock'[u][s] = xs_sock[u][s]
           /\ xs_sock[u][s].kind # "tx" /\ <<xs_link, u, s>> \in xs_entries
                => <<xs_link, u, s>> \in xs_entries'
  PROVE  ReachOK'
  BY DEF XsInv, ReachOK

\* A umem is created, or its creation fails.
LEMMA UmemCreateKeeps ==
  ASSUME XsInv, NEW t \in XskThreads, xsk_umem__create(t)
  PROVE  XsInv'
  <1>0. XsTypeOK /\ ThreadOK(t) /\ RunOK(t) /\ CountOK(t) /\ SocksOK(t) /\ FdsOK(t) /\ RingsOK(t)
        /\ EntriesOK /\ ReachOK
    BY DEF XsInv, ThreadOK
  <1>1. /\ xs_run[t].pc = "idle" /\ ~ Running(t) /\ ~ xs_umem[t].alive
        /\ UNCHANGED <<xs_sock, xs_run, xs_link, xs_entries, xs_noexist, xs_loaded>>
    BY DEF xsk_umem__create, Running
  <1>2. LiveSlots(t) = {} /\ \A s \in XskSlots : ~ xs_sock[t][s].alive /\ s # 0
    BY <1>0, <1>1, XskSocketAssumption DEF SocksOK, LiveSlots
  <1>3. \/ xs_umem' = xs_umem /\ xs_fds' = xs_fds
        \/ /\ xs_umem' = [xs_umem EXCEPT ![t] = [NoUmem EXCEPT !.alive = TRUE]]
           /\ xs_fds' = xs_fds \cup {UmemFd(t)} /\ xs_maps' = xs_maps \cup UmemRings(t)
           /\ xs_left' = xs_left
    BY DEF xsk_umem__create
  <1>4. \/ xs_maps' = xs_maps /\ xs_left' = xs_left
        \/ xs_maps' = xs_maps \cup {<<t, 0, "fill">>} /\ xs_left' = xs_left \cup {<<t, 0, "fill">>}
           /\ xs_umem' = xs_umem
        \/ xs_maps' = xs_maps \cup UmemRings(t) /\ xs_left' = xs_left
           /\ xs_umem' = [xs_umem EXCEPT ![t] = [NoUmem EXCEPT !.alive = TRUE]]
    BY DEF xsk_umem__create
  <1>5. /\ xs_umem' \in [XskThreads -> Umems]
        /\ \A u \in XskThreads : u # t => xs_umem'[u] = xs_umem[u]
        /\ \/ xs_umem'[t] = xs_umem[t] /\ xs_fds' = xs_fds
           \/ /\ xs_umem'[t].alive /\ xs_umem'[t].refcount = 0 /\ xs_umem'[t].lost = 0
              /\ xs_fds' = xs_fds \cup {UmemFd(t)} /\ xs_maps' = xs_maps \cup UmemRings(t)
              /\ xs_left' = xs_left
    <2>. PICK new : new = [NoUmem EXCEPT !.alive = TRUE]
      OBVIOUS
    <2>1. new \in Umems /\ new.alive /\ new.refcount = 0 /\ new.lost = 0
      BY DEF NoUmem, Umems
    <2>2. xs_umem \in [XskThreads -> Umems]
      BY <1>0 DEF XsTypeOK
    <2>. QED BY <1>3, <2>1, <2>2
  <1>6. XsTypeOK'
    BY <1>0, <1>1, <1>3, <1>4, <1>5 DEF XsTypeOK, UmemFd, UmemRings
  <1>7. \A u \in XskThreads : u # t => ThreadOK(u)'
    <2>. SUFFICES ASSUME NEW u \in XskThreads, u # t PROVE ThreadOK(u)'
      OBVIOUS
    <2>1. \A s, w : /\ <<u, s, w>> \in xs_fds' <=> <<u, s, w>> \in xs_fds
                    /\ <<u, s, w>> \in xs_maps' <=> <<u, s, w>> \in xs_maps
                    /\ <<u, s, w>> \in xs_left' <=> <<u, s, w>> \in xs_left
      BY <1>3, <1>4 DEF UmemFd, UmemRings
    <2>2. ThreadOK(u) /\ xs_umem'[u] = xs_umem[u] /\ xs_sock'[u] = xs_sock[u] /\ xs_run'[u] = xs_run[u]
      BY <1>1, <1>5 DEF XsInv
    <2>. QED BY <2>1, <2>2, OthersKept
  <1>8. ThreadOK(t)'
    <2>0. ~ Running(t)'
      BY <1>1 DEF Running
    <2>1. RunOK(t)'
      BY <1>1, <2>0 DEF RunOK, WithProgram
    <2>2. CountOK(t)'
      <3>1. LiveSlots(t)' = {}
        BY <1>1, <1>2 DEF LiveSlots
      <3>2. Cardinality({}) = 0
        BY FS_EmptySet
      <3>. QED BY <1>0, <1>1, <1>2, <1>5, <2>0, <3>1, <3>2 DEF CountOK
    <2>3. SocksOK(t)'
      BY <1>0, <1>1, <1>2 DEF SocksOK
    <2>4. FdsOK(t)'
      <3>1. \A s \in XskSlots : BpfThere(t, s)' <=> BpfThere(t, s)
        BY <1>1 DEF BpfThere
      <3>2. \A s, w : <<t, s, w>> \in xs_fds' <=> \/ <<t, s, w>> \in xs_fds
                                                  \/ xs_fds' # xs_fds /\ s = 0 /\ w = "sock"
        BY <1>3 DEF UmemFd
      <3>3. \/ xs_umem'[t].alive = xs_umem[t].alive /\ xs_fds' = xs_fds
            \/ xs_umem'[t].alive /\ <<t, 0, "sock">> \in xs_fds'
        BY <1>5 DEF UmemFd
      <3>. QED BY <1>0, <1>1, <1>2, <2>0, <3>1, <3>2, <3>3 DEF FdsOK
    <2>5. RingsOK(t)'
      <3>1. \A s \in XskSlots : \A r : RingThere(t, s, r)' <=> RingThere(t, s, r)
        BY <1>1 DEF RingThere
      <3>2. \A s \in XskSlots : \A r : <<t, s, r>> \in xs_maps' <=> <<t, s, r>> \in xs_maps
        BY <1>2, <1>4 DEF UmemRings
      <3>3. \A s \in XskSlots : \A r : <<t, s, r>> \in xs_left' <=> <<t, s, r>> \in xs_left
        BY <1>2, <1>4
      <3>4. ASSUME NEW r \in {"rx", "tx", "fill", "comp"}, <<t, 0, r>> \notin xs_left'
            PROVE  <<t, 0, r>> \in xs_maps' <=> r \in {"fill", "comp"} /\ xs_umem'[t].alive
        <4>1. <<t, 0, r>> \notin xs_left
          BY <1>4, <3>4
        <4>2. <<t, 0, r>> \in xs_maps <=> r \in {"fill", "comp"} /\ xs_umem[t].alive
          BY <1>0, <4>1 DEF RingsOK
        <4>3. <<t, 0, r>> \in UmemRings(t) <=> r \in {"fill", "comp"}
          BY DEF UmemRings
        <4>4. CASE xs_umem'[t] = xs_umem[t] /\ xs_fds' = xs_fds
          <5>1. xs_umem' # [xs_umem EXCEPT ![t] = [NoUmem EXCEPT !.alive = TRUE]]
            <6>1. xs_umem \in [XskThreads -> Umems]
              BY <1>0 DEF XsTypeOK
            <6>2. [NoUmem EXCEPT !.alive = TRUE].alive
              BY DEF NoUmem
            <6>. QED BY <1>1, <4>4, <6>1, <6>2
          <5>. QED BY <1>4, <3>4, <4>2, <4>4, <5>1
        <4>5. CASE xs_umem'[t].alive /\ xs_maps' = xs_maps \cup UmemRings(t)
          BY <1>1, <4>2, <4>3, <4>5
        <4>. QED BY <1>5, <4>4, <4>5
      <3>. QED BY <1>0, <3>1, <3>2, <3>3, <3>4 DEF RingsOK
    <2>. QED BY <2>1, <2>2, <2>3, <2>4, <2>5 DEF ThreadOK
  <1>9. EntriesOK' /\ ReachOK'
    BY <1>0, <1>1 DEF EntriesOK, ReachOK
  <1>. QED BY <1>6, <1>7, <1>8, <1>9 DEF XsInv

\* A umem is deleted: no socket is left that counts on it.
LEMMA UmemDeleteKeeps ==
  ASSUME XsInv, NEW t \in XskThreads, xsk_umem__delete(t)
  PROVE  XsInv'
  <1>0. XsTypeOK /\ ThreadOK(t) /\ RunOK(t) /\ CountOK(t) /\ SocksOK(t) /\ FdsOK(t) /\ RingsOK(t)
        /\ EntriesOK /\ ReachOK
    BY DEF XsInv, ThreadOK
  <1>1. /\ xs_run[t].pc = "idle" /\ ~ Running(t) /\ xs_umem[t].refcount = 0
        /\ UNCHANGED <<xs_sock, xs_run, xs_link, xs_noexist, xs_loaded>>
        /\ xs_fds' = xs_fds \ {UmemFd(t)} /\ xs_entries' = {e \in xs_entries : e[2] # t}
        /\ \/ xs_maps' = xs_maps \ UmemRings(t) /\ xs_left' = xs_left
           \/ xs_left' = xs_left \cup UmemRings(t) /\ xs_maps' = xs_maps
    BY DEF xsk_umem__delete, Running
  <1>2. LiveSlots(t) = {} /\ \A s \in XskSlots : xs_sock[t][s] = NoSocket /\ s # 0
    <2>1. Cardinality(LiveSlots(t)) = 0
      BY <1>0, <1>1, LiveCount, OfTheirTypes DEF CountOK
    <2>. QED BY <1>0, <2>1, LiveCount, XskSocketAssumption DEF SocksOK, LiveSlots
  <1>3. /\ xs_umem' \in [XskThreads -> Umems] /\ xs_umem'[t] = NoUmem
        /\ \A u \in XskThreads : u # t => xs_umem'[u] = xs_umem[u]
    <2>1. xs_umem \in [XskThreads -> Umems] /\ NoUmem \in Umems
          /\ xs_umem' = [xs_umem EXCEPT ![t] = NoUmem]
      BY <1>0 DEF XsTypeOK, NoUmem, Umems, xsk_umem__delete
    <2>. QED BY <2>1
  <1>4. ~ xs_umem'[t].alive /\ xs_umem'[t].refcount = 0 /\ xs_umem'[t].lost = 0
    BY <1>3 DEF NoUmem
  <1>5. XsTypeOK'
    <2>1. xs_fds' \subseteq xs_fds /\ xs_maps' \subseteq xs_maps /\ xs_entries' \subseteq xs_entries
      BY <1>1
    <2>. QED BY <1>0, <1>1, <1>3, <2>1 DEF XsTypeOK
  <1>6. \A u \in XskThreads : u # t => ThreadOK(u)'
    <2>. SUFFICES ASSUME NEW u \in XskThreads, u # t PROVE ThreadOK(u)'
      OBVIOUS
    <2>1. \A s, w : /\ <<u, s, w>> \in xs_fds' <=> <<u, s, w>> \in xs_fds
                    /\ <<u, s, w>> \in xs_maps' <=> <<u, s, w>> \in xs_maps
                    /\ <<u, s, w>> \in xs_left' <=> <<u, s, w>> \in xs_left
      BY <1>1 DEF UmemFd, UmemRings
    <2>2. ThreadOK(u) /\ xs_umem'[u] = xs_umem[u] /\ xs_sock'[u] = xs_sock[u] /\ xs_run'[u] = xs_run[u]
      BY <1>1, <1>3 DEF XsInv
    <2>. QED BY <2>1, <2>2, OthersKept
  <1>7. ThreadOK(t)'
    <2>0. ~ Running(t)'
      BY <1>1 DEF Running
    <2>1. RunOK(t)'
      BY <1>1, <2>0 DEF RunOK, WithProgram
    <2>2. CountOK(t)'
      <3>1. LiveSlots(t)' = {}
        BY <1>1, <1>2 DEF LiveSlots
      <3>2. Cardinality({}) = 0
        BY FS_EmptySet
      <3>. QED BY <1>4, <2>0, <3>1, <3>2 DEF CountOK
    <2>3. SocksOK(t)'
      BY <1>0, <1>1, <1>2 DEF SocksOK, NoSocket
    <2>4. FdsOK(t)'
      <3>1. \A s \in XskSlots : BpfThere(t, s)' <=> BpfThere(t, s)
        BY <1>1 DEF BpfThere
      <3>2. \A s, w : <<t, s, w>> \in xs_fds' <=> <<t, s, w>> \in xs_fds /\ ~ (s = 0 /\ w = "sock")
        BY <1>1 DEF UmemFd
      <3>. QED BY <1>0, <1>1, <1>2, <1>4, <2>0, <3>1, <3>2 DEF FdsOK
    <2>5. RingsOK(t)'
      <3>1. \A s \in XskSlots : \A r : RingThere(t, s, r)' <=> RingThere(t, s, r)
        BY <1>1 DEF RingThere
      <3>2. \A s, r : <<t, s, r>> \in UmemRings(t) <=> s = 0 /\ r \in {"fill", "comp"}
        BY DEF UmemRings
      <3>. QED BY <1>0, <1>1, <1>2, <1>4, <3>1, <3>2 DEF RingsOK
    <2>. QED BY <2>1, <2>2, <2>3, <2>4, <2>5 DEF ThreadOK
  <1>8. EntriesOK'
    BY <1>0, <1>1 DEF EntriesOK
  <1>9. ReachOK'
    <2>1. \A s \in XskSlots : xs_sock[t][s].prog = 0
      BY <1>2 DEF NoSocket
    <2>. QED BY <1>1, <2>1, ReachStays
  <1>. QED BY <1>5, <1>6, <1>7, <1>8, <1>9 DEF XsInv

\* A creation begins: the count is taken, and a descriptor where others count on the umem.
LEMMA OpenKeeps ==
  ASSUME XsInv, NEW t \in XskThreads, NEW slot \in XskSlots, NEW kind \in XskKinds,
         NEW inhibit \in BOOLEAN, SocketOpen(t, slot, kind, inhibit)
  PROVE  XsInv'
  <1>0. XsTypeOK /\ ThreadOK(t) /\ RunOK(t) /\ CountOK(t) /\ SocksOK(t) /\ FdsOK(t) /\ RingsOK(t)
        /\ EntriesOK /\ ReachOK
    BY DEF XsInv, ThreadOK
  <1>1. /\ xs_run[t].pc = "idle" /\ ~ Running(t) /\ xs_umem[t].alive /\ ~ xs_sock[t][slot].alive
        /\ (xs_umem[t].refcount = 0 \/ inhibit)
        /\ UNCHANGED <<xs_sock, xs_maps, xs_link, xs_entries, xs_noexist, xs_loaded, xs_left>>
    BY DEF SocketOpen, Running
  <1>2. xs_umem[t].refcount \in Nat /\ xs_umem[t].lost \in Nat /\ xs_umem[t] \in Umems
        /\ Cardinality(LiveSlots(t)) \in Nat /\ slot # 0 /\ kind \in AllKinds
        /\ xs_sock[t][slot] = NoSocket /\ ~ xs_sock[t][slot].own
    BY <1>0, <1>1, OfTheirTypes, LiveCount, XskSocketAssumption DEF SocksOK, AllKinds, NoSocket
  <1>3. LiveSlots(t)' = LiveSlots(t)
    BY <1>1 DEF LiveSlots
  <1>4. CASE /\ xs_run' = [xs_run EXCEPT ![t] = [XsIdle EXCEPT !.pc = "rings", !.slot = slot,
                                                  !.kind = kind, !.inhibit = inhibit]]
             /\ xs_umem' = [xs_umem EXCEPT ![t].refcount = @ + 1]
             /\ xs_fds' = IF xs_umem[t].refcount > 0 THEN xs_fds \cup {<<t, slot, "sock">>} ELSE xs_fds
    <2>1. /\ xs_umem' \in [XskThreads -> Umems]
          /\ xs_umem'[t].refcount = xs_umem[t].refcount + 1 /\ xs_umem'[t].lost = xs_umem[t].lost
          /\ xs_umem'[t].alive
          /\ \A u \in XskThreads : u # t => xs_umem'[u] = xs_umem[u]
      <3>. PICK new : new = [xs_umem[t] EXCEPT !.refcount = @ + 1]
        OBVIOUS
      <3>1. new \in Umems /\ new.refcount = xs_umem[t].refcount + 1 /\ new.lost = xs_umem[t].lost
            /\ new.alive
        BY <1>1, <1>2 DEF Umems
      <3>2. xs_umem \in [XskThreads -> Umems] /\ xs_umem' = [xs_umem EXCEPT ![t] = new]
        BY <1>0, <1>4 DEF XsTypeOK
      <3>. QED BY <3>1, <3>2
    <2>2. /\ xs_run' \in [XskThreads -> Runs] /\ xs_run'[t].pc = "rings" /\ xs_run'[t].slot = slot
          /\ xs_run'[t].kind = kind /\ xs_run'[t].inhibit = inhibit
          /\ \A u \in XskThreads : u # t => xs_run'[u] = xs_run[u]
      <3>. PICK new : new = [XsIdle EXCEPT !.pc = "rings", !.slot = slot, !.kind = kind,
                                           !.inhibit = inhibit]
        OBVIOUS
      <3>1. new \in Runs /\ new.pc = "rings" /\ new.slot = slot /\ new.kind = kind
            /\ new.inhibit = inhibit
        <4>1. new = [pc |-> "rings", slot |-> slot, kind |-> kind, inhibit |-> inhibit, prog |-> 0]
          BY DEF XsIdle
        <4>2. slot \in XskSlots \cup {0} /\ kind \in AllKinds /\ inhibit \in BOOLEAN /\ 0 \in Int
              /\ "rings" \in XsPcs
          BY <1>2 DEF XsPcs
        <4>. QED BY ONLY <4>1, <4>2 DEF Runs
      <3>2. xs_run \in [XskThreads -> Runs] /\ xs_run' = [xs_run EXCEPT ![t] = new]
        BY <1>0, <1>4 DEF XsTypeOK
      <3>. QED BY <3>1, <3>2
    <2>3. \A u, s, w : <<u, s, w>> \in xs_fds' <=>
            \/ <<u, s, w>> \in xs_fds
            \/ u = t /\ s = slot /\ w = "sock" /\ xs_umem[t].refcount > 0
      BY <1>4
    <2>4. XsTypeOK'
      <3>1. xs_fds' \subseteq XskThreads \X (XskSlots \cup {0}) \X {"sock", "prog", "map"}
        BY <1>0, <1>4 DEF XsTypeOK
      <3>. QED BY <1>0, <1>1, <2>1, <2>2, <3>1 DEF XsTypeOK
    <2>5. \A u \in XskThreads : u # t => ThreadOK(u)'
      BY <1>1, <2>1, <2>2, <2>3, OthersKept DEF XsInv
    <2>6. ThreadOK(t)'
      <3>0. Running(t)'
        BY <2>2 DEF Running
      <3>1. RunOK(t)'
        BY <1>1, <1>2, <2>1, <2>2 DEF RunOK, Running, WithProgram
      <3>2. CountOK(t)'
        BY <1>0, <1>1, <1>2, <1>3, <2>1, <3>0 DEF CountOK
      <3>3. SocksOK(t)'
        BY <1>0, <1>1, <2>1 DEF SocksOK
      <3>4. FdsOK(t)'
        <4>1. \A s \in XskSlots : BpfThere(t, s)' <=> BpfThere(t, s)
          BY <1>1, <2>2 DEF BpfThere
        <4>2. xs_umem'[t].refcount > 1 <=> xs_umem[t].refcount > 0
          BY <1>2, <2>1
        <4>. QED BY <1>0, <1>1, <1>2, <2>1, <2>2, <2>3, <3>0, <4>1, <4>2 DEF FdsOK
      <3>5. RingsOK(t)'
        <4>1. \A s \in XskSlots : \A r : RingThere(t, s, r)' <=> RingThere(t, s, r)
          BY <1>1, <2>2 DEF RingThere
        <4>. QED BY <1>0, <1>1, <2>1, <4>1 DEF RingsOK
      <3>. QED BY <3>1, <3>2, <3>3, <3>4, <3>5 DEF ThreadOK
    <2>7. EntriesOK'
      BY <1>0, <1>1 DEF EntriesOK
    <2>8. ReachOK'
      BY <1>1, <2>2, ReachStays
    <2>. QED BY <2>4, <2>5, <2>6, <2>7, <2>8 DEF XsInv
  <1>5. CASE /\ xs_umem' = [xs_umem EXCEPT ![t].refcount = @ + 1, ![t].lost = @ + 1]
             /\ UNCHANGED <<xs_run, xs_fds>>
    <2>1. /\ xs_umem' \in [XskThreads -> Umems]
          /\ xs_umem'[t].refcount = xs_umem[t].refcount + 1 /\ xs_umem'[t].lost = xs_umem[t].lost + 1
          /\ xs_umem'[t].alive
          /\ \A u \in XskThreads : u # t => xs_umem'[u] = xs_umem[u]
      <3>. PICK new : new = [xs_umem[t] EXCEPT !.refcount = @ + 1, !.lost = @ + 1]
        OBVIOUS
      <3>1. new \in Umems /\ new.refcount = xs_umem[t].refcount + 1 /\ new.lost = xs_umem[t].lost + 1
            /\ new.alive
        <4>. PICK more \in Nat : more = xs_umem[t].refcount + 1
          BY <1>2
        <4>. PICK lost \in Nat : lost = xs_umem[t].lost + 1
          BY <1>2
        <4>1. new = [xs_umem[t] EXCEPT !.refcount = more, !.lost = lost]
          OBVIOUS
        <4>. QED BY <1>1, <1>2, <4>1 DEF Umems
      <3>2. xs_umem \in [XskThreads -> Umems] /\ xs_umem' = [xs_umem EXCEPT ![t] = new]
        BY <1>0, <1>5 DEF XsTypeOK
      <3>. QED BY <3>1, <3>2
    <2>2. XsTypeOK'
      BY <1>0, <1>1, <1>5, <2>1 DEF XsTypeOK
    <2>3. \A u \in XskThreads : u # t => ThreadOK(u)'
      BY <1>1, <1>5, <2>1, OthersKept DEF XsInv
    <2>4. ThreadOK(t)'
      <3>0. ~ Running(t)'
        BY <1>1, <1>5 DEF Running
      <3>1. RunOK(t)'
        BY <1>1, <1>5, <3>0 DEF RunOK, WithProgram
      <3>2. CountOK(t)'
        BY <1>0, <1>1, <1>2, <1>3, <2>1, <3>0 DEF CountOK
      <3>3. SocksOK(t)'
        BY <1>0, <1>1, <2>1 DEF SocksOK
      <3>4. FdsOK(t)'
        <4>1. \A s \in XskSlots : BpfThere(t, s)' <=> BpfThere(t, s)
          BY <1>1, <1>5 DEF BpfThere
        <4>. QED BY <1>0, <1>1, <1>5, <2>1, <3>0, <4>1 DEF FdsOK
      <3>5. RingsOK(t)'
        <4>1. \A s \in XskSlots : \A r : RingThere(t, s, r)' <=> RingThere(t, s, r)
          BY <1>1, <1>5 DEF RingThere
        <4>. QED BY <1>0, <1>1, <2>1, <4>1 DEF RingsOK
      <3>. QED BY <3>1, <3>2, <3>3, <3>4, <3>5 DEF ThreadOK
    <2>5. EntriesOK' /\ ReachOK'
      BY <1>0, <1>1, <1>5 DEF EntriesOK, ReachOK
    <2>. QED BY <2>2, <2>3, <2>4, <2>5 DEF XsInv
  <1>. QED BY <1>4, <1>5 DEF SocketOpen

\* A socket is deleted: its count, descriptors and rings are given back and its entry is taken out.
LEMMA DeleteKeeps ==
  ASSUME XsInv, NEW t \in XskThreads, NEW slot \in XskSlots, xsk_socket__delete(t, slot)
  PROVE  XsInv'
  <1>0. XsTypeOK /\ ThreadOK(t) /\ RunOK(t) /\ CountOK(t) /\ SocksOK(t) /\ FdsOK(t) /\ RingsOK(t)
        /\ EntriesOK /\ ReachOK
    BY DEF XsInv, ThreadOK
  <1>. PICK sock \in Socks : sock = xs_sock[t][slot]
    BY <1>0, OfTheirTypes
  <1>1. /\ xs_run[t].pc = "idle" /\ ~ Running(t) /\ sock.alive
        /\ UNCHANGED <<xs_run, xs_link, xs_noexist, xs_loaded>>
        /\ xs_sock' = [xs_sock EXCEPT ![t][slot] = NoSocket]
        /\ xs_entries' = IF sock.prog # 0 THEN xsk_delete_bpf_maps(t, sock.prog) ELSE xs_entries
        /\ \/ xs_maps' = xs_maps \ RingsOf(t, slot, sock.kind) /\ xs_left' = xs_left
           \/ xs_left' = xs_left \cup RingsOf(t, slot, sock.kind) /\ xs_maps' = xs_maps
    BY DEF xsk_socket__delete, Running
  <1>2. /\ slot \in LiveSlots(t) /\ slot # 0 /\ xs_umem[t].alive
        /\ LiveSlots(t)' = LiveSlots(t) \ {slot}
        /\ Cardinality(LiveSlots(t) \ {slot}) = Cardinality(LiveSlots(t)) - 1
        /\ Cardinality(LiveSlots(t)) \in Nat /\ Cardinality(LiveSlots(t)) # 0
    <2>1. slot \in LiveSlots(t) /\ slot # 0 /\ xs_umem[t].alive
      BY <1>0, <1>1, XskSocketAssumption DEF LiveSlots, SocksOK
    <2>2. LiveSlots(t)' = LiveSlots(t) \ {slot}
      BY <1>0, <1>1 DEF LiveSlots, XsTypeOK, NoSocket
    <2>. QED BY <2>1, <2>2, LiveCount, FS_RemoveElement
  <1>3. xs_umem[t].refcount \in Nat /\ xs_umem[t].lost \in Nat /\ xs_umem[t] \in Umems
        /\ xs_umem[t].refcount = Cardinality(LiveSlots(t)) + xs_umem[t].lost
    BY <1>0, <1>1, <1>2, OfTheirTypes DEF CountOK
  <1>4. /\ xs_umem' \in [XskThreads -> Umems]
        /\ xs_umem'[t].refcount = xs_umem[t].refcount - 1 /\ xs_umem'[t].lost = xs_umem[t].lost
        /\ xs_umem'[t].alive
        /\ \A u \in XskThreads : u # t => xs_umem'[u] = xs_umem[u]
    <2>. PICK new : new = [xs_umem[t] EXCEPT !.refcount = @ - 1]
      OBVIOUS
    <2>1. new \in Umems /\ new.refcount = xs_umem[t].refcount - 1 /\ new.lost = xs_umem[t].lost
          /\ new.alive
      BY <1>2, <1>3 DEF Umems
    <2>2. xs_umem \in [XskThreads -> Umems] /\ xs_umem' = [xs_umem EXCEPT ![t] = new]
      BY <1>0 DEF XsTypeOK, xsk_socket__delete
    <2>. QED BY <2>1, <2>2
  <1>5. /\ xs_sock' \in [XskThreads -> [XskSlots -> Socks]] /\ xs_sock'[t][slot] = NoSocket
        /\ \A s \in XskSlots : s # slot => xs_sock'[t][s] = xs_sock[t][s]
        /\ \A u \in XskThreads : u # t => xs_sock'[u] = xs_sock[u]
    <2>1. NoSocket \in Socks /\ xs_sock \in [XskThreads -> [XskSlots -> Socks]]
      BY <1>0 DEF NoSocket, Socks, AllKinds, XsTypeOK
    <2>. QED BY <1>1, <2>1
  <1>6. \A u, s, w : <<u, s, w>> \in xs_fds' <=>
          <<u, s, w>> \in xs_fds /\ ~ (u = t /\ s = slot /\ w \in {"sock", "prog", "map"})
    BY DEF xsk_socket__delete, BpfFds
  <1>7. \A u, s, w : <<u, s, w>> \in RingsOf(t, slot, sock.kind) <=>
          u = t /\ s = slot /\ w \in Rings(sock.kind)
    BY DEF RingsOf
  <1>8. XsTypeOK'
    <2>1. xs_fds' \subseteq xs_fds /\ xs_maps' \subseteq xs_maps /\ xs_entries' \subseteq xs_entries
      BY <1>1 DEF xsk_socket__delete, xsk_delete_bpf_maps
    <2>. QED BY <1>0, <1>1, <1>4, <1>5, <2>1 DEF XsTypeOK
  <1>9. \A u \in XskThreads : u # t => ThreadOK(u)'
    <2>. SUFFICES ASSUME NEW u \in XskThreads, u # t PROVE ThreadOK(u)'
      OBVIOUS
    <2>1. \A s, w : /\ <<u, s, w>> \in xs_fds' <=> <<u, s, w>> \in xs_fds
                    /\ <<u, s, w>> \in xs_maps' <=> <<u, s, w>> \in xs_maps
                    /\ <<u, s, w>> \in xs_left' <=> <<u, s, w>> \in xs_left
      BY <1>1, <1>6, <1>7
    <2>2. ThreadOK(u) /\ xs_umem'[u] = xs_umem[u] /\ xs_sock'[u] = xs_sock[u] /\ xs_run'[u] = xs_run[u]
      BY <1>1, <1>4, <1>5 DEF XsInv
    <2>. QED BY <2>1, <2>2, OthersKept
  <1>10. ThreadOK(t)'
    <2>0. ~ Running(t)' /\ xs_run'[t].pc = "idle"
      BY <1>1 DEF Running
    <2>1. RunOK(t)'
      BY <2>0 DEF RunOK, Running, WithProgram
    <2>2. CountOK(t)'
      BY <1>2, <1>3, <1>4, <2>0 DEF CountOK
    <2>3. SocksOK(t)'
      <3>1. ASSUME NEW s \in XskSlots
            PROVE  \/ s = slot /\ xs_sock'[t][s] = NoSocket /\ ~ NoSocket.alive /\ NoSocket.prog = 0
                   \/ s # slot /\ xs_sock'[t][s] = xs_sock[t][s]
        BY <1>5 DEF NoSocket
      <3>2. \A s \in XskSlots : /\ ~ xs_sock'[t][s].alive => xs_sock'[t][s] = NoSocket
                                /\ xs_sock'[t][s].alive => xs_umem'[t].alive
        BY <1>0, <1>4, <3>1 DEF SocksOK
      <3>3. \A s, r \in XskSlots : xs_sock'[t][s].prog # 0 /\ xs_sock'[t][r].prog # 0 => s = r
        <4>1. \A s \in XskSlots : xs_sock'[t][s].prog # 0 => xs_sock[t][s].prog # 0
          BY <3>1
        <4>. QED BY <1>0, <4>1 DEF SocksOK
      <3>. QED BY <3>2, <3>3 DEF SocksOK
    <2>4. FdsOK(t)'
      <3>1. \A s \in XskSlots : BpfThere(t, s)' <=> BpfThere(t, s) /\ s # slot
        BY <1>1, <1>5 DEF BpfThere, NoSocket
      <3>2. \A s \in XskSlots : xs_sock'[t][s].own <=> xs_sock[t][s].own /\ s # slot
        BY <1>5 DEF NoSocket
      <3>. QED BY <1>0, <1>1, <1>2, <1>4, <1>6, <2>0, <3>1, <3>2 DEF FdsOK
    <2>5. RingsOK(t)'
      <3>1. \A s \in XskSlots : \A r : RingThere(t, s, r)' <=> RingThere(t, s, r) /\ s # slot
        BY <1>1, <1>5 DEF RingThere, NoSocket
      <3>2. \A r : RingThere(t, slot, r) <=> r \in Rings(sock.kind)
        BY <1>1 DEF RingThere
      <3>. QED BY <1>0, <1>1, <1>2, <1>4, <1>7, <3>1, <3>2 DEF RingsOK
    <2>. QED BY <2>1, <2>2, <2>3, <2>4, <2>5 DEF ThreadOK
  <1>11. EntriesOK'
    <2>. SUFFICES ASSUME NEW e \in xs_entries'
                  PROVE  xs_sock'[e[2]][e[3]].alive /\ xs_sock'[e[2]][e[3]].prog = e[1] /\ e[1] # 0
      BY DEF EntriesOK
    <2>1. e \in xs_entries /\ (sock.prog # 0 => ~ (e[1] = sock.prog /\ e[2] = t))
      BY <1>1 DEF xsk_delete_bpf_maps
    <2>2. e[2] \in XskThreads /\ e[3] \in XskSlots /\ xs_sock[e[2]][e[3]].alive
          /\ xs_sock[e[2]][e[3]].prog = e[1] /\ e[1] # 0
      BY <1>0, <2>1 DEF XsTypeOK, EntriesOK
    <2>3. ~ (e[2] = t /\ e[3] = slot)
      BY <2>1, <2>2
    <2>. QED BY <1>5, <2>2, <2>3
  <1>12. ReachOK'
    <2>. SUFFICES ASSUME NEW u \in XskThreads, NEW s \in XskSlots, xs_sock'[u][s].prog # 0
                  PROVE  /\ xs_sock'[u][s] = xs_sock[u][s]
                         /\ <<xs_link, u, s>> \in xs_entries => <<xs_link, u, s>> \in xs_entries'
      BY <1>1, ReachStays
    <2>1. ~ (u = t /\ s = slot) /\ xs_sock'[u][s] = xs_sock[u][s]
      BY <1>5 DEF NoSocket
    <2>2. sock.prog # 0 => u # t
      BY <1>0, <2>1 DEF SocksOK
    <2>. QED BY <1>1, <2>1, <2>2 DEF xsk_delete_bpf_maps
  <1>. QED BY <1>8, <1>9, <1>10, <1>11, <1>12 DEF XsInv

\* A step of a creation or of the set-up of the library's program.
LEMMA CallKeeps ==
  ASSUME XsInv, NEW t \in XskThreads,
         \/ SocketRings(t) \/ SocketBind(t) \/ SocketCreated(t)
         \/ SetupGetId(t) \/ SetupCreate(t) \/ SetupAttach(t) \/ SetupLookup(t) \/ SetupSet(t)
  PROVE  XsInv'
  <1>0. XsTypeOK /\ RunOK(t) /\ xs_run[t] \in Runs /\ xs_run[t].prog \in Int /\ ReachOK
        /\ xs_run \in [XskThreads -> Runs]
    BY OfTheirTypes DEF XsInv, ThreadOK, XsTypeOK
  <1>1. CASE SocketRings(t)
    <2>0. Running(t) /\ xs_run[t].pc = "rings"
          /\ UNCHANGED <<xs_sock, xs_link, xs_entries, xs_noexist, xs_loaded, xs_left>>
      BY <1>1 DEF SocketRings, Running
    <2>1. CASE /\ xs_maps' = xs_maps \cup RingsOf(t, xs_run[t].slot, xs_run[t].kind)
               /\ xs_run' = [xs_run EXCEPT ![t].pc = "bind"]
               /\ UNCHANGED <<xs_umem, xs_fds>>
      <3>. PICK prog \in Int : prog = xs_run[t].prog
        BY <1>0
      <3>1. xs_run' = [xs_run EXCEPT ![t].pc = "bind", ![t].prog = prog]
        BY <1>0, <2>1 DEF Runs
      <3>2. "bind" \in XsPcs \ {"idle", "rings"} /\ xs_link \in Int /\ xs_loaded \in Nat
        BY <1>0 DEF XsPcs, XsTypeOK
      <3>. PICK pc : pc = "bind"
        OBVIOUS
      <3>3. /\ xs_fds' = IF pc \in {"attach", "set"} THEN xs_fds \cup BpfFds(t, xs_run[t].slot) ELSE xs_fds
            /\ xs_maps' = IF xs_run[t].pc = "rings"
                          THEN xs_maps \cup RingsOf(t, xs_run[t].slot, xs_run[t].kind) ELSE xs_maps
            /\ xs_run[t].pc \notin {"attach", "set"} /\ pc \in XsPcs \ {"idle", "rings"}
            /\ pc \notin {"created", "get_id", "create", "attach", "lookup", "set"}
            /\ xs_run' = [xs_run EXCEPT ![t].pc = pc, ![t].prog = prog]
        BY <2>0, <2>1, <3>1, <3>2
      <3>. QED BY <2>0, <2>1, <3>2, <3>3, GoKeeps
    <2>2. CASE OutSocket(t, {}) /\ UNCHANGED xs_maps
      BY <2>0, <2>2, OutKeeps
    <2>. QED BY <1>1, <2>1, <2>2 DEF SocketRings
  <1>2. CASE SocketBind(t)
    <2>0. Running(t) /\ xs_run[t].pc = "bind"
      BY <1>2 DEF SocketBind, Running
    <2>1. CASE /\ xs_umem' = [xs_umem EXCEPT ![t].bound = TRUE]
               /\ xs_run' = [xs_run EXCEPT ![t].pc = IF xs_run[t].inhibit THEN "created" ELSE "get_id"]
               /\ UNCHANGED <<xs_sock, xs_maps, xs_fds, xs_link, xs_entries, xs_noexist, xs_loaded, xs_left>>
      <3>. PICK prog \in Int : prog = xs_run[t].prog
        BY <1>0
      <3>. PICK pc : pc = IF xs_run[t].inhibit THEN "created" ELSE "get_id"
        OBVIOUS
      <3>1. xs_run' = [xs_run EXCEPT ![t].pc = pc, ![t].prog = prog]
        BY <1>0, <2>1 DEF Runs
      <3>2. pc \in XsPcs \ {"idle", "rings"} /\ xs_link \in Int /\ xs_loaded \in Nat
            /\ pc \notin {"attach", "set", "lookup", "create"}
        BY <1>0 DEF XsPcs, XsTypeOK
      <3>3. /\ xs_fds' = IF pc \in {"attach", "set"} THEN xs_fds \cup BpfFds(t, xs_run[t].slot) ELSE xs_fds
            /\ xs_maps' = IF xs_run[t].pc = "rings"
                          THEN xs_maps \cup RingsOf(t, xs_run[t].slot, xs_run[t].kind) ELSE xs_maps
            /\ xs_run[t].pc \notin {"attach", "set"}
            /\ pc = "created" => xs_run[t].inhibit
            /\ pc = "get_id" => ~ xs_run[t].inhibit
        BY <2>0, <2>1, <3>2
      <3>. QED BY <2>0, <2>1, <3>1, <3>2, <3>3, GoKeeps, ZenonT(60)
    <2>2. CASE OutMmap(t, {}) /\ UNCHANGED <<xs_link, xs_entries, xs_loaded>>
      BY <2>0, <2>2, OutKeeps DEF OutMmap
    <2>. QED BY <1>2, <2>1, <2>2 DEF SocketBind
  <1>3. CASE SocketCreated(t)
    <2>1. 0 \in Int /\ Created(t, 0) /\ xs_run[t].pc = "created" /\ UNCHANGED <<xs_entries, xs_fds>>
      BY <1>3 DEF SocketCreated
    <2>. QED BY <2>1, CreatedKeeps
  <1>4. CASE SetupGetId(t)
    <2>0. Running(t) /\ xs_run[t].pc = "get_id" /\ ~ xs_run[t].inhibit
          /\ UNCHANGED <<xs_link, xs_entries, xs_loaded>> /\ xs_link \in Int /\ xs_loaded \in Nat
      BY <1>0, <1>4 DEF SetupGetId, Running, RunOK, XsTypeOK
    <2>1. CASE /\ xs_run' = [xs_run EXCEPT ![t].pc = IF xs_link = 0 THEN "create" ELSE "lookup",
                                           ![t].prog = xs_link]
               /\ UNCHANGED <<xs_umem, xs_sock, xs_fds, xs_maps, xs_noexist, xs_left>>
      <3>. PICK pc : pc = IF xs_link = 0 THEN "create" ELSE "lookup"
        OBVIOUS
      <3>. PICK prog \in Int : prog = xs_link
        BY <2>0
      <3>1. xs_run' = [xs_run EXCEPT ![t].pc = pc, ![t].prog = prog]
        BY <2>1
      <3>2. pc \in XsPcs \ {"idle", "rings"} /\ pc \notin {"attach", "set", "created"}
            /\ (pc = "lookup" => prog # 0)
        BY DEF XsPcs
      <3>. QED BY <2>0, <2>1, <3>1, <3>2, GoKeeps
    <2>2. CASE OutMmap(t, {})
      BY <2>0, <2>2, OutKeeps DEF OutMmap
    <2>. QED BY <1>4, <2>1, <2>2 DEF SetupGetId
  <1>5. CASE SetupCreate(t)
    <2>0. Running(t) /\ xs_run[t].pc = "create" /\ ~ xs_run[t].inhibit
          /\ UNCHANGED <<xs_link, xs_entries>> /\ xs_link \in Int /\ xs_loaded \in Nat
      BY <1>0, <1>5 DEF SetupCreate, Running, RunOK, XsTypeOK
    <2>1. CASE /\ xs_loaded' = xs_loaded + 1
               /\ xs_fds' = xs_fds \cup BpfFds(t, xs_run[t].slot)
               /\ xs_run' = [xs_run EXCEPT ![t].pc = "attach", ![t].prog = xs_loaded + 1]
               /\ UNCHANGED <<xs_umem, xs_sock, xs_maps, xs_noexist, xs_left>>
      <3>. PICK prog \in Int : prog = xs_loaded + 1 /\ prog # 0 /\ prog \in Nat
        BY <2>0
      <3>1. xs_run' = [xs_run EXCEPT ![t].pc = "attach", ![t].prog = prog] /\ xs_loaded' \in Nat
        BY <2>1
      <3>. PICK pc : pc = "attach"
        OBVIOUS
      <3>2. /\ xs_fds' = IF pc \in {"attach", "set"} THEN xs_fds \cup BpfFds(t, xs_run[t].slot) ELSE xs_fds
            /\ xs_maps' = IF xs_run[t].pc = "rings"
                          THEN xs_maps \cup RingsOf(t, xs_run[t].slot, xs_run[t].kind) ELSE xs_maps
            /\ pc \in XsPcs \ {"idle", "rings"} /\ pc # "created"
            /\ xs_run' = [xs_run EXCEPT ![t].pc = pc, ![t].prog = prog]
        BY <2>0, <2>1, <3>1 DEF XsPcs
      <3>. QED BY <2>0, <2>1, <3>1, <3>2, GoKeeps
    <2>2. CASE OutMmap(t, BpfFds(t, xs_run[t].slot)) /\ UNCHANGED xs_loaded
      BY <2>0, <2>2, OutKeeps DEF OutMmap
    <2>. QED BY <1>5, <2>1, <2>2 DEF SetupCreate
  <1>6. CASE SetupAttach(t)
    <2>0. Running(t) /\ xs_run[t].pc = "attach" /\ ~ xs_run[t].inhibit /\ xs_run[t].prog # 0
          /\ UNCHANGED <<xs_entries, xs_loaded>> /\ xs_loaded \in Nat
      BY <1>0, <1>6 DEF SetupAttach, Running, RunOK, XsTypeOK
    <2>1. CASE /\ (xs_noexist => xs_link = 0)
               /\ xs_link' = xs_run[t].prog
               /\ xs_run' = [xs_run EXCEPT ![t].pc = "set"]
               /\ UNCHANGED <<xs_umem, xs_sock, xs_fds, xs_maps, xs_noexist, xs_left>>
      <3>. PICK prog \in Int : prog = xs_run[t].prog
        BY <1>0
      <3>. PICK pc : pc = "set"
        OBVIOUS
      <3>1. xs_run' = [xs_run EXCEPT ![t].pc = pc, ![t].prog = prog]
        BY <1>0, <2>1 DEF Runs
      <3>2. pc \in XsPcs \ {"idle", "rings"} /\ xs_run[t].pc # "rings" /\ pc # "created"
        BY <2>0 DEF XsPcs
      <3>3. xs_fds' = xs_fds \cup BpfFds(t, xs_run[t].slot)
        <4>1. FdsOK(t) /\ xs_run[t].slot \in XskSlots
          BY <2>0, DescriptorOfCall DEF XsInv, ThreadOK
        <4>2. BpfFds(t, xs_run[t].slot) \subseteq xs_fds
          BY <2>0, <4>1 DEF FdsOK, BpfThere, BpfFds
        <4>. QED BY <2>1, <4>2
      <3>4. /\ xs_fds' = IF pc \in {"attach", "set"} THEN xs_fds \cup BpfFds(t, xs_run[t].slot)
                         ELSE xs_fds
            /\ xs_maps' = IF xs_run[t].pc = "rings"
                          THEN xs_maps \cup RingsOf(t, xs_run[t].slot, xs_run[t].kind) ELSE xs_maps
            /\ xs_link' = prog /\ prog # 0 /\ (xs_noexist => xs_link = 0)
        BY <2>0, <2>1, <3>2, <3>3
      <3>. QED BY <2>0, <2>1, <3>1, <3>2, <3>4, GoKeeps
    <2>2. CASE OutMmap(t, BpfFds(t, xs_run[t].slot)) /\ UNCHANGED xs_link
      BY <2>0, <2>2, OutKeeps DEF OutMmap
    <2>. QED BY <1>6, <2>1, <2>2 DEF SetupAttach
  <1>7. CASE SetupLookup(t)
    <2>0. Running(t) /\ xs_run[t].pc = "lookup" /\ ~ xs_run[t].inhibit /\ xs_run[t].prog # 0
          /\ UNCHANGED <<xs_link, xs_entries, xs_loaded>> /\ xs_link \in Int /\ xs_loaded \in Nat
          /\ (xs_noexist => xs_run[t].prog = xs_link)
      BY <1>0, <1>7 DEF SetupLookup, Running, RunOK, XsTypeOK, ReachOK
    <2>1. CASE /\ xs_fds' = xs_fds \cup BpfFds(t, xs_run[t].slot)
               /\ xs_run' = [xs_run EXCEPT ![t].pc = "set"]
               /\ UNCHANGED <<xs_umem, xs_sock, xs_maps, xs_noexist, xs_left>>
      <3>. PICK prog \in Int : prog = xs_run[t].prog
        BY <1>0
      <3>1. xs_run' = [xs_run EXCEPT ![t].pc = "set", ![t].prog = prog]
        BY <1>0, <2>1 DEF Runs
      <3>. PICK pc : pc = "set"
        OBVIOUS
      <3>2. /\ xs_fds' = IF pc \in {"attach", "set"} THEN xs_fds \cup BpfFds(t, xs_run[t].slot) ELSE xs_fds
            /\ xs_maps' = IF xs_run[t].pc = "rings"
                          THEN xs_maps \cup RingsOf(t, xs_run[t].slot, xs_run[t].kind) ELSE xs_maps
            /\ pc \in XsPcs \ {"idle", "rings"} /\ pc # "created"
            /\ xs_run' = [xs_run EXCEPT ![t].pc = pc, ![t].prog = prog]
        BY <2>0, <2>1, <3>1 DEF XsPcs
      <3>. QED BY <2>0, <2>1, <3>1, <3>2, GoKeeps
    <2>2. CASE OutMmap(t, BpfFds(t, xs_run[t].slot))
      BY <2>0, <2>2, OutKeeps DEF OutMmap
    <2>. QED BY <1>7, <2>1, <2>2 DEF SetupLookup
  <1>8. CASE SetupSet(t)
    <2>0. Running(t) /\ xs_run[t].pc = "set" /\ ~ xs_run[t].inhibit
      BY <1>0, <1>8 DEF SetupSet, Running, RunOK
    <2>. PICK prog \in Int : prog = xs_run[t].prog
      BY <1>0
    <2>1. CASE /\ xs_entries' = IF "rx" \in Rings(xs_run[t].kind)
                                THEN xs_entries \cup {<<prog, t, xs_run[t].slot>>} ELSE xs_entries
               /\ Created(t, prog) /\ UNCHANGED xs_fds
      BY <2>0, <2>1, CreatedKeeps
    <2>2. CASE /\ xs_entries' = xsk_delete_bpf_maps(t, prog)
               /\ OutMmap(t, BpfFds(t, xs_run[t].slot)) /\ UNCHANGED <<xs_link, xs_loaded>>
      BY <2>0, <2>2, OutKeeps DEF OutMmap, WithProgram
    <2>. QED BY <1>8, <2>1, <2>2 DEF SetupSet
  <1>. QED BY <1>1, <1>2, <1>3, <1>4, <1>5, <1>6, <1>7, <1>8

\* At first there is nothing.
LEMMA XsInvInit == XsInit => XsInv
  <1>. SUFFICES ASSUME XsInit PROVE XsInv
    OBVIOUS
  <1>1. XsTypeOK
    <2>1. NoUmem \in Umems /\ NoSocket \in Socks /\ XsIdle \in Runs
      BY DEF NoUmem, Umems, NoSocket, Socks, XsIdle, Runs, XsPcs, AllKinds
    <2>. QED BY <2>1 DEF XsInit, XsTypeOK, Foreign
  <1>2. ASSUME NEW t \in XskThreads PROVE ThreadOK(t)
    <2>1. /\ xs_umem[t] = NoUmem /\ xs_run[t] = XsIdle /\ ~ Running(t) /\ xs_run[t].pc = "idle"
          /\ \A s \in XskSlots : xs_sock[t][s] = NoSocket
      BY <1>2 DEF XsInit, Running, XsIdle
    <2>2. LiveSlots(t) = {} /\ Cardinality({}) = 0
      BY <2>1, FS_EmptySet DEF LiveSlots, NoSocket
    <2>3. RunOK(t)
      BY <2>1 DEF RunOK, WithProgram
    <2>4. CountOK(t)
      BY <2>1, <2>2 DEF CountOK, NoUmem
    <2>5. SocksOK(t)
      BY <2>1 DEF SocksOK, NoSocket
    <2>6. FdsOK(t)
      BY <2>1 DEF XsInit, FdsOK, BpfThere, NoSocket, NoUmem
    <2>7. RingsOK(t)
      BY <2>1 DEF XsInit, RingsOK, RingThere, NoSocket, NoUmem
    <2>. QED BY <2>3, <2>4, <2>5, <2>6, <2>7 DEF ThreadOK
  <1>3. EntriesOK
    BY DEF XsInit, EntriesOK
  <1>4. ReachOK
    BY DEF XsInit, ReachOK, XsIdle, NoSocket
  <1>. QED BY <1>1, <1>2, <1>3, <1>4 DEF XsInv

\* Every step keeps the invariant.
LEMMA XsInvStep == XsInv /\ [XsNext]_xsVars => XsInv'
  <1>. SUFFICES ASSUME XsInv, [XsNext]_xsVars PROVE XsInv'
    OBVIOUS
  <1>1. CASE UNCHANGED xsVars
    <2>1. XsTypeOK' /\ EntriesOK' /\ ReachOK'
      BY <1>1 DEF xsVars, XsInv, XsTypeOK, EntriesOK, ReachOK
    <2>2. \A u \in XskThreads : ThreadOK(u)'
      BY <1>1, OthersKept DEF xsVars, XsInv
    <2>. QED BY <2>1, <2>2 DEF XsInv
  <1>2. CASE XsNext
    <2>. PICK t \in XskThreads :
           \/ xsk_umem__create(t) \/ xsk_umem__delete(t)
           \/ \E slot \in XskSlots, kind \in XskKinds, inhibit \in BOOLEAN :
                SocketOpen(t, slot, kind, inhibit)
           \/ SocketRings(t) \/ SocketBind(t) \/ SocketCreated(t)
           \/ SetupGetId(t) \/ SetupCreate(t) \/ SetupAttach(t) \/ SetupLookup(t) \/ SetupSet(t)
           \/ \E slot \in XskSlots : xsk_socket__delete(t, slot)
      BY <1>2 DEF XsNext
    <2>. QED BY UmemCreateKeeps, UmemDeleteKeeps, OpenKeeps, DeleteKeeps, CallKeeps
  <1>. QED BY <1>1, <1>2

\* Umems, sockets, descriptors, rings and entries agree with each other and with the calls
\* under way, in every state.
THEOREM SocketsInvariant == XsSpec => []XsInv
  BY XsInvInit, XsInvStep, PTL DEF XsSpec

\* What the invariant says of a thread between calls.
LEMMA QuietThread ==
  ASSUME XsInv, NEW t \in XskThreads, XsQuiet(t)
  PROVE  /\ xs_umem[t].refcount = Cardinality(LiveSlots(t)) + xs_umem[t].lost
         /\ {fd \in xs_fds : fd[1] = t} =
              (IF xs_umem[t].alive THEN {UmemFd(t)} ELSE {})
                \cup UNION {(IF xs_sock[t][s].own THEN {<<t, s, "sock">>} ELSE {})
                      \cup (IF xs_sock[t][s].prog # 0 THEN BpfFds(t, s) ELSE {}) : s \in LiveSlots(t)}
         /\ {r \in xs_maps : r[1] = t} \ xs_left =
              ((IF xs_umem[t].alive THEN UmemRings(t) ELSE {})
                \cup UNION {RingsOf(t, s, xs_sock[t][s].kind) : s \in LiveSlots(t)}) \ xs_left
  <1>0. XsTypeOK /\ CountOK(t) /\ SocksOK(t) /\ FdsOK(t) /\ RingsOK(t)
        /\ ~ Running(t) /\ xs_run[t].pc = "idle"
    BY DEF XsInv, ThreadOK, XsQuiet, Running
  <1>1. xs_umem[t].refcount = Cardinality(LiveSlots(t)) + xs_umem[t].lost
    BY <1>0, LiveCount, OfTheirTypes DEF CountOK
  <1>2. \A s \in XskSlots : /\ s # 0
                            /\ s \in LiveSlots(t) <=> xs_sock[t][s].alive
                            /\ s \notin LiveSlots(t) => ~ xs_sock[t][s].own /\ xs_sock[t][s].prog = 0
    BY <1>0, XskSocketAssumption DEF LiveSlots, SocksOK, NoSocket
  <1>3. {fd \in xs_fds : fd[1] = t} =
          (IF xs_umem[t].alive THEN {UmemFd(t)} ELSE {})
            \cup UNION {(IF xs_sock[t][s].own THEN {<<t, s, "sock">>} ELSE {})
                  \cup (IF xs_sock[t][s].prog # 0 THEN BpfFds(t, s) ELSE {}) : s \in LiveSlots(t)}
    <2>. DEFINE OfSlot(s) == (IF xs_sock[t][s].own THEN {<<t, s, "sock">>} ELSE {})
                               \cup (IF xs_sock[t][s].prog # 0 THEN BpfFds(t, s) ELSE {})
                Owned == (IF xs_umem[t].alive THEN {UmemFd(t)} ELSE {})
                           \cup UNION {OfSlot(s) : s \in LiveSlots(t)}
    <2>1. \A s \in XskSlots : \A w \in {"sock", "prog", "map"} :
            <<t, s, w>> \in xs_fds <=> <<t, s, w>> \in OfSlot(s)
      BY <1>0 DEF FdsOK, BpfThere, BpfFds
    <2>2. \A w \in {"sock", "prog", "map"} :
            <<t, 0, w>> \in xs_fds <=> w = "sock" /\ xs_umem[t].alive
      BY <1>0 DEF FdsOK
    <2>3. \A s \in XskSlots : s \notin LiveSlots(t) => OfSlot(s) = {}
      BY <1>2
    <2>4. \A s \in XskSlots : OfSlot(s) \subseteq {<<t, s, "sock">>, <<t, s, "prog">>, <<t, s, "map">>}
      BY DEF BpfFds
    <2>5. LiveSlots(t) \subseteq XskSlots
      BY DEF LiveSlots
    <2>. HIDE DEF OfSlot
    <2>6. ASSUME NEW fd \in xs_fds, fd[1] = t PROVE fd \in Owned
      <3>0. fd \in XskThreads \X (XskSlots \cup {0}) \X {"sock", "prog", "map"}
        BY <1>0 DEF XsTypeOK
      <3>. PICK s, w : s \in XskSlots \cup {0} /\ w \in {"sock", "prog", "map"} /\ fd = <<t, s, w>>
        BY <2>6, <3>0
      <3>1. CASE s = 0
        BY <2>2, <2>6, <3>1 DEF UmemFd
      <3>2. CASE s \in XskSlots
        <4>1. fd \in OfSlot(s)
          BY <2>1, <2>6, <3>2
        <4>2. s \in LiveSlots(t)
          BY <2>3, <3>2, <4>1
        <4>. QED BY <4>1, <4>2
      <3>. QED BY <3>1, <3>2
    <2>7. ASSUME NEW fd \in Owned PROVE fd \in xs_fds /\ fd[1] = t
      <3>1. CASE fd \in (IF xs_umem[t].alive THEN {UmemFd(t)} ELSE {})
        BY <2>2, <3>1 DEF UmemFd
      <3>2. CASE \E s \in LiveSlots(t) : fd \in OfSlot(s)
        <4>. PICK s \in LiveSlots(t) : fd \in OfSlot(s)
          BY <3>2
        <4>1. s \in XskSlots /\ fd \in {<<t, s, "sock">>, <<t, s, "prog">>, <<t, s, "map">>}
          BY <2>4, <2>5
        <4>2. PICK w \in {"sock", "prog", "map"} : fd = <<t, s, w>>
          BY <4>1
        <4>3. fd \in xs_fds
          BY <2>1, <4>1, <4>2
        <4>. QED BY <4>2, <4>3
      <3>. QED BY <2>7, <3>1, <3>2
    <2>8. {fd \in xs_fds : fd[1] = t} = Owned
      BY <2>6, <2>7
    <2>. QED BY <2>8 DEF OfSlot
  <1>4. {r \in xs_maps : r[1] = t} \ xs_left =
          ((IF xs_umem[t].alive THEN UmemRings(t) ELSE {})
            \cup UNION {RingsOf(t, s, xs_sock[t][s].kind) : s \in LiveSlots(t)}) \ xs_left
    <2>. DEFINE OfSlot(s) == RingsOf(t, s, xs_sock[t][s].kind)
                Owned == (IF xs_umem[t].alive THEN UmemRings(t) ELSE {})
                           \cup UNION {OfSlot(s) : s \in LiveSlots(t)}
                All == {"rx", "tx", "fill", "comp"}
    <2>1. \A s \in XskSlots : \A w \in All : <<t, s, w>> \notin xs_left =>
            (<<t, s, w>> \in xs_maps <=> s \in LiveSlots(t) /\ <<t, s, w>> \in OfSlot(s))
      BY <1>0, <1>2 DEF RingsOK, RingThere, RingsOf
    <2>2. \A w \in All : <<t, 0, w>> \notin xs_left =>
            (<<t, 0, w>> \in xs_maps <=> xs_umem[t].alive /\ <<t, 0, w>> \in UmemRings(t))
      BY <1>0 DEF RingsOK, UmemRings
    <2>3. \A s \in XskSlots : \A r \in OfSlot(s) : \E w \in All : r = <<t, s, w>>
      BY <1>0, OfTheirTypes DEF RingsOf, Rings, AllKinds
    <2>4. \A r \in UmemRings(t) : \E w \in All : r = <<t, 0, w>>
      BY DEF UmemRings
    <2>5. LiveSlots(t) \subseteq XskSlots
      BY DEF LiveSlots
    <2>. HIDE DEF OfSlot
    <2>6. ASSUME NEW r \in xs_maps, r[1] = t, r \notin xs_left PROVE r \in Owned
      <3>. PICK s \in XskSlots \cup {0}, w \in All : r = <<t, s, w>>
        BY <1>0, <2>6 DEF XsTypeOK
      <3>. QED BY <2>1, <2>2, <2>6
    <2>7. ASSUME NEW r \in Owned, r \notin xs_left PROVE r \in xs_maps /\ r[1] = t
      <3>1. CASE xs_umem[t].alive /\ r \in UmemRings(t)
        BY <2>2, <2>4, <2>7, <3>1
      <3>2. CASE \E s \in LiveSlots(t) : r \in OfSlot(s)
        <4>. PICK s \in LiveSlots(t) : r \in OfSlot(s)
          BY <3>2
        <4>1. s \in XskSlots
          BY <2>5
        <4>2. PICK w \in All : r = <<t, s, w>>
          BY <2>3, <4>1
        <4>3. r \in xs_maps
          BY <2>1, <2>7, <4>1, <4>2
        <4>. QED BY <4>2, <4>3
      <3>. QED BY <2>7, <3>1, <3>2
    <2>8. {r \in xs_maps : r[1] = t} \ xs_left = Owned \ xs_left
      BY <2>6, <2>7
    <2>. QED BY <2>8 DEF OfSlot
  <1>. QED BY <1>1, <1>3, <1>4

\* Sockets and umems share safely in every state: the counts are right, a umem outlives its
\* sockets, nothing is lost or used after its end, and redirected packets reach live sockets.
THEOREM SocketsAlwaysShareSafely == XsSpec => []SocketsShareSafely
  <1>1. XsInv => SocketsShareSafely
    <2>. SUFFICES ASSUME XsInv PROVE SocketsShareSafely
      OBVIOUS
    <2>1. RefsAreCounted /\ XskFdsAreOwned /\ RingsAreOwned
      BY QuietThread DEF RefsAreCounted, XskFdsAreOwned, RingsAreOwned
    <2>2. UmemOutlivesSockets
      BY DEF XsInv, ThreadOK, SocksOK, UmemOutlivesSockets, LiveSlots
    <2>3. EntriesAreLive
      BY DEF XsInv, EntriesOK, EntriesAreLive
    <2>4. RedirectReaches
      BY DEF XsInv, ReachOK, RedirectReaches, LiveSlots
    <2>. QED BY <2>1, <2>2, <2>3, <2>4 DEF SocketsShareSafely
  <1>. QED BY <1>1, SocketsInvariant, PTL

-----------------------------------------------------------------------------
(* Netlink.                                                                *)

\* What the kernel can have on the hooks of an interface.
Hooks == [LinkModes -> Nat]

\* Messages, and datagrams: none is empty.
AttrLists == {XdpAttrs(hook) : hook \in Hooks} \cup {<<>>}
NlMsgs ==
  [type : {"item", "DONE", "ERROR"}, seq : Nat, call : Nat, multi : BOOLEAN,
   error : {"0", "EBUSY"}, ifi : Nat, attrs : AttrLists]
NlGrams == Seq(NlMsgs) \ {<<>>}

\* A call of netlink.c.
NlCalls ==
  [pc : {"idle", "open", "send", "recv", "message"},
   op : {"none", "set", "get", "link", "class", "qdisc", "filter"},
   sock : {"own", "kept"}, flags : SUBSET LinkModes, id : Nat, seq : Nat,
   buf : Seq(NlMsgs), multipart : BOOLEAN]

NlTypeOK ==
  /\ nl_hooks \in [Range(Interfaces) -> Hooks] /\ nl_secs \in Nat
  /\ nl_queue \in [{"own", "kept"} -> Seq(NlGrams)]
  /\ nl \in NlCalls
  /\ nl.pc = "message" => nl.buf # <<>>
  /\ nl_truth \in [hooks : [Range(Interfaces) -> Hooks], verdict : {"0", "EBUSY"}]
  /\ nl_calls \in Nat

\* The messages of some datagrams, and the last of them.
MessagesOf(grams) == UNION {Range(grams[k]) : k \in DOMAIN grams}
LastOf(grams) == grams[Len(grams)][Len(grams[Len(grams)])]
\* This message can only be the last.
OnlyLast(grams, m) ==
  \A k \in 1 .. Len(grams) : \A j \in 1 .. Len(grams[k]) :
    grams[k][j] = m => k = Len(grams) /\ j = Len(grams[k])
\* What is left of them when the first message is read.
RestOf(grams) ==
  IF Len(grams[1]) > 1 THEN <<Tail(grams[1])>> \o Tail(grams) ELSE Tail(grams)

\* What bpf_netlink_recv has still to read: the rest of its buffer and the socket.
ToRead == IF nl.pc = "message" THEN <<nl.buf>> \o nl_queue[nl.sock] ELSE nl_queue[nl.sock]

\* The messages with which the kernel answers this call.
TheEnd == EndMessage("DONE", TRUE, "0")
TheItem(i) ==
  [type |-> "item", seq |-> nl.seq, call |-> nl_calls, multi |-> TRUE, error |-> "0", ifi |-> i,
   attrs |-> XdpAttrs(nl_truth.hooks[i])]
TheVerdict == EndMessage("ERROR", FALSE, nl_truth.verdict)

\* What bpf_get_link_xdp_info has to find out.
ModeOf(hook) ==
  LET on == Attached(hook)
  IN IF on = {} THEN "NONE" ELSE IF Cardinality(on) > 1 THEN "MULTI" ELSE CHOOSE m \in on : TRUE
InfoOf(hook) ==
  [attach_mode |-> ModeOf(hook),
   prog_id |-> IF Cardinality(Attached(hook)) = 1 THEN hook[ModeOf(hook)] ELSE 0,
   id_of |-> hook]
TheInfo == InfoOf(nl_truth.hooks[IfIndex])

\* The answer has shown the caller what it says of interface i.
Shown(i) == IF nl.op = "get" THEN i = IfIndex => nl_info = TheInfo ELSE i \in nl_seen

\* A message of a list, of this call or left over by an earlier one.
OfAList(m) == m.type \in {"item", "DONE"} /\ m.multi = TRUE /\ m.error = "0"
IsNew(m) == m = TheEnd \/ \E i \in Range(Interfaces) : m = TheItem(i)
IsOld(m) == OfAList(m) /\ m.call < nl_calls /\ nl.sock = "kept" /\ m.seq \in nl_left

\* Where a call is that reads a list: its end is still to come, and so is every
\* interface that was not shown yet.
ListComes ==
  /\ ToRead # <<>> /\ LastOf(ToRead) = TheEnd /\ OnlyLast(ToRead, TheEnd)
  /\ \A m \in MessagesOf(ToRead) : IsNew(m) \/ IsOld(m)
  /\ \A i \in Range(Interfaces) : Shown(i) \/ TheItem(i) \in MessagesOf(ToRead)
  /\ nl.pc = "recv" => nl.multipart
  /\ nl_seen \subseteq Range(Interfaces)
  /\ nl.op = "get" => nl_info \in {NoInfo, TheInfo}

\* Where a call is that sets a program.
VerdictComes ==
  \/ ToRead = <<<<TheVerdict>>>> /\ (nl.pc = "recv") = nl.multipart
  \/ nl.pc = "recv" /\ ~ nl.multipart /\ nl_truth.verdict = "0"

Sockets ==
  /\ (nl.sock = "own") = (nl.op \in {"none", "set", "get"})
  /\ nl_socks = {"kept"} \cup (IF nl.sock = "own" /\ nl.pc \in {"send", "recv", "message"}
                               THEN {"own"} ELSE {})
  /\ nl.pc = "open" => nl.sock = "own"
  /\ nl.op = "set" => nl.seq = 1

\* What earlier listings left on the caller's socket.
LeftOver ==
  /\ \A m \in MessagesOf(nl_queue["kept"]) : OfAList(m) /\ m.call <= nl_calls
  /\ nl.pc = "send" /\ nl.sock = "kept" => \A m \in MessagesOf(nl_queue["kept"]) : IsOld(m)

Begun ==
  nl.pc \in {"open", "send"} =>
    /\ nl_info = NoInfo /\ nl_seen = {} /\ nl.op # "none" /\ nl.multipart
    /\ nl.sock = "own" => nl_queue["own"] = <<>>

Receives ==
  nl.pc \in {"recv", "message"} =>
    nl.op # "none" /\ IF nl.op = "set" THEN VerdictComes ELSE ListComes

Returned ==
  nl.pc = "idle" =>
    /\ nl.op = "get" /\ nl_ret = "0" => nl_info = TheInfo
    /\ SetIsReported /\ ListingIsWhole

\* The inductive invariant.
NlInv == NlTypeOK /\ Sockets /\ LeftOver /\ Begun /\ Receives /\ Returned

-----------------------------------------------------------------------------
(* Sequences of datagrams.                                                 *)

\* A message that stands somewhere in them.
Stands(P, m) == \E k \in 1 .. Len(P) : \E j \in 1 .. Len(P[k]) : m = P[k][j]

\* What their places are.
LEMMA GramPlaces ==
  ASSUME NEW S, NEW P \in Seq(Seq(S) \ {<<>>})
  PROVE  /\ Len(P) \in Nat /\ DOMAIN P = 1 .. Len(P)
         /\ \A k \in 1 .. Len(P) :
              /\ P[k] \in Seq(S) /\ Len(P[k]) \in Nat /\ Len(P[k]) > 0
              /\ DOMAIN P[k] = 1 .. Len(P[k])
         /\ \A m : m \in MessagesOf(P) <=> Stands(P, m)
  <1>. PICK n \in Nat : n = Len(P)
    OBVIOUS
  <1>1. DOMAIN P = 1 .. n
    OBVIOUS
  <1>2. ASSUME NEW k \in 1 .. n
        PROVE  P[k] \in Seq(S) /\ Len(P[k]) \in Nat /\ Len(P[k]) > 0 /\ DOMAIN P[k] = 1 .. Len(P[k])
    <2>. PICK g \in Seq(S) : g = P[k] /\ g # <<>>
      BY <1>1
    <2>1. Len(g) \in Nat /\ Len(g) > 0 /\ DOMAIN g = 1 .. Len(g)
      OBVIOUS
    <2>. QED BY <2>1
  <1>3. ASSUME NEW m
        PROVE  m \in MessagesOf(P) <=> Stands(P, m)
    <2>1. m \in MessagesOf(P) <=> \E k \in 1 .. n : m \in Range(P[k])
      BY <1>1, Zenon DEF MessagesOf
    <2>2. \A k \in 1 .. n : m \in Range(P[k]) <=> \E j \in 1 .. Len(P[k]) : m = P[k][j]
      BY <1>2, Zenon DEF Range
    <2>. QED BY <2>1, <2>2, Zenon DEF Stands
  <1>. QED BY <1>1, <1>2, <1>3

\* The places that are left when the first message is read.
LEMMA RestPlaces ==
  ASSUME NEW S, NEW P \in Seq(Seq(S) \ {<<>>}), P # <<>>
  PROVE  /\ RestOf(P) \in Seq(Seq(S) \ {<<>>})
         /\ Len(P[1]) > 1 =>
              /\ Len(RestOf(P)) = Len(P) /\ Len(RestOf(P)[1]) = Len(P[1]) - 1
              /\ \A j \in 1 .. Len(P[1]) - 1 : RestOf(P)[1][j] = P[1][j + 1]
              /\ \A k \in 2 .. Len(P) : RestOf(P)[k] = P[k]
         /\ Len(P[1]) = 1 =>
              /\ Len(RestOf(P)) = Len(P) - 1
              /\ \A k \in 1 .. Len(P) - 1 : RestOf(P)[k] = P[k + 1]
  <1>. PICK n \in Nat : n = Len(P) /\ n > 0
    OBVIOUS
  <1>. PICK b \in Seq(S) : b = P[1] /\ b # <<>>
    <2>1. 1 \in 1 .. n
      OBVIOUS
    <2>. QED BY <2>1
  <1>. PICK l \in Nat : l = Len(b) /\ l > 0
    OBVIOUS
  <1>. PICK t \in Seq(Seq(S) \ {<<>>}) : t = Tail(P)
    <2>1. Tail(P) \in Seq(Seq(S) \ {<<>>})
      BY ONLY P \in Seq(Seq(S) \ {<<>>}), P # <<>>
    <2>. QED BY <2>1
  <1>1. Len(t) = n - 1 /\ \A k \in 1 .. n - 1 : t[k] = P[k + 1]
    BY ONLY P \in Seq(Seq(S) \ {<<>>}), t = Tail(P), n = Len(P), n > 0, n \in Nat
  <1>2. CASE l > 1
    <2>. PICK c \in Seq(S) : c = Tail(b)
      <3>1. Tail(b) \in Seq(S)
        BY ONLY b \in Seq(S), b # <<>>
      <3>. QED BY <3>1
    <2>1. Len(c) = l - 1 /\ \A j \in 1 .. l - 1 : c[j] = b[j + 1]
      BY ONLY b \in Seq(S), c = Tail(b), l = Len(b), l > 0, l \in Nat
    <2>2. c # <<>>
      <3>1. Len(<<>>) = 0 /\ Len(c) # 0
        BY ONLY <2>1, <1>2, l \in Nat
      <3>. QED BY <3>1
    <2>3. RestOf(P) = <<c>> \o t
      BY <1>2 DEF RestOf
    <2>. PICK u : u = <<c>> \o t
      OBVIOUS
    <2>4. /\ u \in Seq(Seq(S) \ {<<>>}) /\ Len(u) = n /\ u[1] = c
          /\ \A k \in 2 .. n : u[k] = t[k - 1]
      BY ONLY <1>1, <2>2, c \in Seq(S), t \in Seq(Seq(S) \ {<<>>}), u = <<c>> \o t, n \in Nat, n > 0
    <2>5. \A k \in 2 .. n : u[k] = P[k]
      <3>. SUFFICES ASSUME NEW k \in 2 .. n PROVE u[k] = P[k]
        OBVIOUS
      <3>1. k - 1 \in 1 .. n - 1 /\ (k - 1) + 1 = k
        OBVIOUS
      <3>. QED BY <1>1, <2>4, <3>1
    <2>6. RestOf(P) = u
      BY <2>3
    <2>7. \A j \in 1 .. l - 1 : u[1][j] = b[j + 1]
      BY <2>1, <2>4
    <2>8. Len(u[1]) = l - 1
      BY <2>1, <2>4
    <2>9. l # 1
      BY ONLY <1>2, l \in Nat
    <2>. QED BY <2>4, <2>5, <2>6, <2>7, <2>8, <2>9, Zenon
  <1>3. CASE l = 1
    <2>1. RestOf(P) = t
      BY <1>3 DEF RestOf
    <2>2. ~ (l > 1)
      BY ONLY <1>3
    <2>. QED BY <1>1, <2>1, <2>2, Zenon
  <1>4. l > 1 \/ l = 1
    BY ONLY l \in Nat, l > 0
  <1>. QED BY <1>2, <1>3, <1>4

\* Reading the first message takes that one away and leaves the others in order.
LEMMA FirstRead ==
  ASSUME NEW S, NEW P \in Seq(Seq(S) \ {<<>>}), P # <<>>
  PROVE  /\ RestOf(P) \in Seq(Seq(S) \ {<<>>}) /\ P[1][1] \in MessagesOf(P)
         /\ \A m \in MessagesOf(RestOf(P)) : m \in MessagesOf(P)
         /\ \A m \in MessagesOf(P) : m = P[1][1] \/ m \in MessagesOf(RestOf(P))
         /\ RestOf(P) # <<>> => LastOf(RestOf(P)) = LastOf(P)
         /\ RestOf(P) = <<>> => P[1][1] = LastOf(P)
         /\ \A m : OnlyLast(P, m) => OnlyLast(RestOf(P), m)
         /\ \A m : OnlyLast(P, m) /\ P[1][1] = m => RestOf(P) = <<>>
  <1>. PICK R \in Seq(Seq(S) \ {<<>>}) : R = RestOf(P)
    BY RestPlaces
  <1>. PICK n \in Nat : n = Len(P) /\ n > 0
    OBVIOUS
  <1>. PICK l \in Nat : l = Len(P[1]) /\ l > 0
    <2>1. 1 \in 1 .. n
      OBVIOUS
    <2>2. Len(P[1]) \in Nat /\ Len(P[1]) > 0
      BY <2>1, GramPlaces, Zenon
    <2>. QED BY <2>2
  <1>0. P[1][1] \in MessagesOf(P)
    <2>1. 1 \in 1 .. n /\ 1 \in 1 .. l
      OBVIOUS
    <2>2. Stands(P, P[1][1])
      BY <2>1, Zenon DEF Stands
    <2>. QED BY <2>2, GramPlaces, Zenon
  <1>1. /\ DOMAIN P = 1 .. n
        /\ \A k \in 1 .. n : Len(P[k]) \in Nat /\ Len(P[k]) > 0 /\ DOMAIN P[k] = 1 .. Len(P[k])
        /\ \A m : m \in MessagesOf(P) <=> Stands(P, m)
    BY GramPlaces
  <1>2. /\ Len(R) \in Nat /\ DOMAIN R = 1 .. Len(R)
        /\ \A k \in 1 .. Len(R) : Len(R[k]) \in Nat /\ Len(R[k]) > 0 /\ DOMAIN R[k] = 1 .. Len(R[k])
        /\ \A m : m \in MessagesOf(R) <=> Stands(R, m)
    BY GramPlaces
  <1>3. R = <<>> <=> Len(R) = 0
    OBVIOUS
  <1>4. CASE l > 1
    <2>1. /\ Len(R) = n /\ Len(R[1]) = l - 1 /\ \A j \in 1 .. l - 1 : R[1][j] = P[1][j + 1]
          /\ \A k \in 2 .. n : R[k] = P[k]
      BY <1>4, RestPlaces
    <2>2. \A k \in 1 .. n : \A j \in 1 .. Len(R[k]) :
             \E i \in 1 .. Len(P[k]) : /\ R[k][j] = P[k][i] /\ (k = 1 => i = j + 1) /\ (k # 1 => i = j)
                                       /\ (i = Len(P[k]) <=> j = Len(R[k]))
      <3>. SUFFICES ASSUME NEW k \in 1 .. n, NEW j \in 1 .. Len(R[k])
                    PROVE  \E i \in 1 .. Len(P[k]) :
                             /\ R[k][j] = P[k][i] /\ (k = 1 => i = j + 1) /\ (k # 1 => i = j)
                             /\ (i = Len(P[k]) <=> j = Len(R[k]))
        OBVIOUS
      <3>1. CASE k = 1
        <4>1. j \in 1 .. l - 1 /\ j + 1 \in 1 .. l /\ (j + 1 = l <=> j = l - 1)
          BY <2>1, <3>1
        <4>. QED BY <2>1, <3>1, <4>1
      <3>2. CASE k # 1
        <4>1. k \in 2 .. n
          BY <3>2
        <4>2. R[k] = P[k]
          BY <2>1, <4>1
        <4>. QED BY <3>2, <4>2
      <3>. QED BY <3>1, <3>2
    <2>3. \A k \in 1 .. n : \A i \in 1 .. Len(P[k]) :
             (k = 1 /\ i = 1) \/ \E j \in 1 .. Len(R[k]) : R[k][j] = P[k][i]
      <3>. SUFFICES ASSUME NEW k \in 1 .. n, NEW i \in 1 .. Len(P[k]), ~ (k = 1 /\ i = 1)
                    PROVE  \E j \in 1 .. Len(R[k]) : R[k][j] = P[k][i]
        OBVIOUS
      <3>1. CASE k = 1
        <4>1. i - 1 \in 1 .. l - 1 /\ (i - 1) + 1 = i
          BY <3>1
        <4>. QED BY <2>1, <3>1, <4>1
      <3>2. CASE k # 1
        <4>1. k \in 2 .. n
          BY <3>2
        <4>2. R[k] = P[k]
          BY <2>1, <4>1
        <4>. QED BY <4>2
      <3>. QED BY <3>1, <3>2
    <2>4. ASSUME NEW m, Stands(R, m) PROVE Stands(P, m)
      <3>. PICK k \in 1 .. n : \E j \in 1 .. Len(R[k]) : m = R[k][j]
        BY <2>1, <2>4, Zenon DEF Stands
      <3>. PICK j \in 1 .. Len(R[k]) : m = R[k][j]
        OBVIOUS
      <3>. PICK i \in 1 .. Len(P[k]) : m = P[k][i]
        BY <2>2
      <3>. QED BY Zenon DEF Stands
    <2>5. ASSUME NEW m, Stands(P, m) PROVE m = P[1][1] \/ Stands(R, m)
      <3>. PICK k \in 1 .. n : \E i \in 1 .. Len(P[k]) : m = P[k][i]
        BY <2>5, Zenon DEF Stands
      <3>. PICK i \in 1 .. Len(P[k]) : m = P[k][i]
        OBVIOUS
      <3>1. (k = 1 /\ i = 1) \/ \E j \in 1 .. Len(R[k]) : R[k][j] = m
        BY <2>3
      <3>. QED BY <2>1, <3>1, Zenon DEF Stands
    <2>6. R # <<>> /\ LastOf(R) = LastOf(P)
      <3>1. R # <<>>
        BY <1>3, <2>1
      <3>2. R[n][Len(R[n])] = P[n][Len(P[n])]
        <4>1. n \in 1 .. n /\ Len(R[n]) \in 1 .. Len(R[n])
          BY <1>2, <2>1
        <4>. QED BY ONLY <4>1, <2>2
      <3>. QED BY <2>1, <3>1, <3>2 DEF LastOf
    <2>7. ASSUME NEW m, OnlyLast(P, m) PROVE OnlyLast(R, m)
      <3>. SUFFICES ASSUME NEW k \in 1 .. n, NEW j \in 1 .. Len(R[k]), R[k][j] = m
                    PROVE  k = n /\ j = Len(R[k])
        BY <1>2, <2>1 DEF OnlyLast
      <3>1. PICK i \in 1 .. Len(P[k]) : R[k][j] = P[k][i] /\ (i = Len(P[k]) <=> j = Len(R[k]))
        BY <2>2
      <3>2. k = n /\ i = Len(P[k])
        BY <1>1, <2>7, <3>1 DEF OnlyLast
      <3>. QED BY <3>1, <3>2
    <2>8. ASSUME NEW m, OnlyLast(P, m), P[1][1] = m PROVE FALSE
      <3>1. 1 \in 1 .. n /\ 1 \in 1 .. l /\ 1 # l
        BY ONLY <1>4, n \in Nat, n > 0, l \in Nat
      <3>. QED BY <1>1, <2>8, <3>1 DEF OnlyLast
    <2>. QED BY <1>0, <1>1, <1>2, <2>4, <2>5, <2>6, <2>7, <2>8, Zenon
  <1>5. CASE l = 1
    <2>1. Len(R) = n - 1 /\ \A k \in 1 .. n - 1 : R[k] = P[k + 1]
      BY <1>5, RestPlaces, ZenonT(40)
    <2>2. \A k \in 1 .. n - 1 : k + 1 \in 1 .. n /\ R[k] = P[k + 1]
      BY <2>1
    <2>3. \A k \in 1 .. n : k = 1 \/ (k - 1 \in 1 .. n - 1 /\ R[k - 1] = P[k])
      <3>. SUFFICES ASSUME NEW k \in 1 .. n, k # 1 PROVE k - 1 \in 1 .. n - 1 /\ R[k - 1] = P[k]
        OBVIOUS
      <3>1. k - 1 \in 1 .. n - 1 /\ (k - 1) + 1 = k
        OBVIOUS
      <3>. QED BY <2>1, <3>1
    <2>4. ASSUME NEW m, Stands(R, m) PROVE Stands(P, m)
      <3>. PICK k \in 1 .. n - 1 : \E j \in 1 .. Len(R[k]) : m = R[k][j]
        BY <2>1, <2>4, Zenon DEF Stands
      <3>. PICK j \in 1 .. Len(R[k]) : m = R[k][j]
        OBVIOUS
      <3>1. k + 1 \in 1 .. n /\ j \in 1 .. Len(P[k + 1]) /\ m = P[k + 1][j]
        BY <2>2
      <3>. QED BY <3>1, Zenon DEF Stands
    <2>5. ASSUME NEW m, Stands(P, m) PROVE m = P[1][1] \/ Stands(R, m)
      <3>. PICK k \in 1 .. n : \E i \in 1 .. Len(P[k]) : m = P[k][i]
        BY <2>5, Zenon DEF Stands
      <3>. PICK i \in 1 .. Len(P[k]) : m = P[k][i]
        OBVIOUS
      <3>1. CASE k = 1
        <4>0. i \in 1 .. l
          BY <3>1
        <4>1. i = 1
          BY ONLY <1>5, <4>0
        <4>. QED BY <3>1, <4>1
      <3>2. CASE k # 1
        <4>1. k - 1 \in 1 .. Len(R) /\ i \in 1 .. Len(R[k - 1]) /\ m = R[k - 1][i]
          BY <2>1, <2>3, <3>2
        <4>. QED BY <4>1, Zenon DEF Stands
      <3>. QED BY <3>1, <3>2
    <2>6. R # <<>> => LastOf(R) = LastOf(P)
      <3>. SUFFICES ASSUME R # <<>> PROVE LastOf(R) = LastOf(P)
        OBVIOUS
      <3>1. n - 1 \in 1 .. n - 1 /\ (n - 1) + 1 = n
        BY <1>2, <1>3, <2>1
      <3>2. R[n - 1] = P[n]
        BY <2>1, <3>1
      <3>. QED BY <2>1, <3>2 DEF LastOf
    <2>7. R = <<>> => P[1][1] = LastOf(P)
      <3>. SUFFICES ASSUME R = <<>> PROVE P[1][1] = LastOf(P)
        OBVIOUS
      <3>0. n - 1 = 0
        BY <1>3, <2>1
      <3>1. n = 1
        BY ONLY <3>0, n \in Nat
      <3>. QED BY <1>5, <3>1 DEF LastOf
    <2>8. ASSUME NEW m, OnlyLast(P, m) PROVE OnlyLast(R, m)
      <3>. SUFFICES ASSUME NEW k \in 1 .. n - 1, NEW j \in 1 .. Len(R[k]), R[k][j] = m
                    PROVE  k = n - 1 /\ j = Len(R[k])
        BY <1>2, <2>1 DEF OnlyLast
      <3>1. k + 1 \in 1 .. n /\ P[k + 1][j] = m /\ j \in 1 .. Len(P[k + 1])
        BY <2>2
      <3>2. k + 1 = n /\ j = Len(P[k + 1])
        BY <1>1, <2>8, <3>1 DEF OnlyLast
      <3>. QED BY <2>2, <3>2
    <2>9. ASSUME NEW m, OnlyLast(P, m), P[1][1] = m PROVE R = <<>>
      <3>1. 1 \in 1 .. n /\ 1 \in 1 .. l
        OBVIOUS
      <3>2. n = 1
        BY <1>1, <2>9, <3>1 DEF OnlyLast
      <3>. QED BY <1>3, <2>1, <3>2
    <2>. QED BY <1>0, <1>1, <1>2, <2>4, <2>5, <2>6, <2>7, <2>8, <2>9, Zenon
  <1>6. l > 1 \/ l = 1
    BY ONLY l \in Nat, l > 0
  <1>. QED BY <1>4, <1>5, <1>6
\* Datagrams that join a queue.
LEMMA GramsAppended ==
  ASSUME NEW S, NEW P \in Seq(Seq(S) \ {<<>>}), NEW Q \in Seq(Seq(S) \ {<<>>}), Q # <<>>
  PROVE  /\ P \o Q \in Seq(Seq(S) \ {<<>>}) /\ P \o Q # <<>>
         /\ LastOf(P \o Q) = LastOf(Q)
         /\ \A m : m \in MessagesOf(P \o Q) <=> m \in MessagesOf(P) \/ m \in MessagesOf(Q)
         /\ \A m : m \notin MessagesOf(P) /\ OnlyLast(Q, m) => OnlyLast(P \o Q, m)
  <1>. PICK n \in Nat, d \in Nat : n = Len(P) /\ d = Len(Q) /\ d > 0
    OBVIOUS
  <1>. PICK R \in Seq(Seq(S) \ {<<>>}) : R = P \o Q
    <2>1. P \o Q \in Seq(Seq(S) \ {<<>>})
      BY ONLY P \in Seq(Seq(S) \ {<<>>}), Q \in Seq(Seq(S) \ {<<>>})
    <2>. QED BY <2>1
  <1>1. /\ Len(R) = n + d /\ \A k \in 1 .. n : R[k] = P[k]
        /\ \A k \in 1 .. d : R[n + k] = Q[k]
    BY ONLY P \in Seq(Seq(S) \ {<<>>}), Q \in Seq(Seq(S) \ {<<>>}), R = P \o Q, n = Len(P), d = Len(Q),
            n \in Nat, d \in Nat
  <1>2. \A k \in 1 .. n + d : k \in 1 .. n \/ (k - n \in 1 .. d /\ n + (k - n) = k)
    OBVIOUS
  <1>3. /\ \A k \in 1 .. n : k \in 1 .. n + d
        /\ \A k \in 1 .. d : n + k \in 1 .. n + d
    OBVIOUS
  <1>4. R # <<>>
    <2>1. Len(R) # 0 /\ Len(<<>>) = 0
      BY <1>1
    <2>. QED BY <2>1
  <1>5. LastOf(R) = LastOf(Q)
    <2>1. d \in 1 .. d
      OBVIOUS
    <2>. QED BY <1>1, <2>1 DEF LastOf
  <1>6. /\ \A k \in 1 .. n : DOMAIN P[k] = 1 .. Len(P[k])
        /\ \A m : m \in MessagesOf(P) <=> Stands(P, m)
    BY GramPlaces, ZenonT(40)
  <1>7. /\ DOMAIN Q = 1 .. d /\ \A k \in 1 .. d : DOMAIN Q[k] = 1 .. Len(Q[k])
        /\ \A m : m \in MessagesOf(Q) <=> Stands(Q, m)
    BY GramPlaces, ZenonT(40)
  <1>8. /\ DOMAIN R = 1 .. n + d /\ \A k \in 1 .. n + d : DOMAIN R[k] = 1 .. Len(R[k])
        /\ \A m : m \in MessagesOf(R) <=> Stands(R, m)
    <2>1. /\ DOMAIN R = 1 .. Len(R) /\ \A k \in 1 .. Len(R) : DOMAIN R[k] = 1 .. Len(R[k])
          /\ \A m : m \in MessagesOf(R) <=> Stands(R, m)
      BY GramPlaces, ZenonT(40)
    <2>2. 1 .. Len(R) = 1 .. n + d
      BY <1>1
    <2>. QED BY <2>1, <2>2, Zenon
  <1>9. ASSUME NEW m PROVE m \in MessagesOf(R) <=> m \in MessagesOf(P) \/ m \in MessagesOf(Q)
    <2>1. ASSUME Stands(R, m) PROVE Stands(P, m) \/ Stands(Q, m)
      <3>. PICK k \in 1 .. n + d : \E j \in 1 .. Len(R[k]) : m = R[k][j]
        BY <1>1, <2>1, Zenon DEF Stands
      <3>1. CASE k \in 1 .. n
        <4>1. R[k] = P[k]
          BY <1>1, <3>1
        <4>. QED BY <3>1, <4>1, Zenon DEF Stands
      <3>2. CASE k - n \in 1 .. d /\ n + (k - n) = k
        <4>. PICK i \in 1 .. d : n + i = k
          BY <3>2
        <4>1. R[k] = Q[i]
          BY <1>1
        <4>. QED BY <4>1, Zenon DEF Stands
      <3>. QED BY <1>2, <3>1, <3>2
    <2>2. ASSUME Stands(P, m) PROVE Stands(R, m)
      <3>. PICK k \in 1 .. n : \E j \in 1 .. Len(P[k]) : m = P[k][j]
        BY <2>2, Zenon DEF Stands
      <3>1. k \in 1 .. Len(R) /\ R[k] = P[k]
        BY <1>1, <1>3
      <3>. QED BY <3>1, Zenon DEF Stands
    <2>3. ASSUME Stands(Q, m) PROVE Stands(R, m)
      <3>. PICK k \in 1 .. d : \E j \in 1 .. Len(Q[k]) : m = Q[k][j]
        BY <2>3, Zenon DEF Stands
      <3>1. n + k \in 1 .. Len(R) /\ R[n + k] = Q[k]
        BY <1>1, <1>3
      <3>. QED BY <3>1, Zenon DEF Stands
    <2>. QED BY <1>6, <1>7, <1>8, <2>1, <2>2, <2>3, Zenon
  <1>10. ASSUME NEW m, m \notin MessagesOf(P), OnlyLast(Q, m) PROVE OnlyLast(R, m)
    <2>. SUFFICES ASSUME NEW k \in 1 .. n + d, NEW j \in 1 .. Len(R[k]), R[k][j] = m
                  PROVE  k = n + d /\ j = Len(R[k])
      BY <1>1, Zenon DEF OnlyLast
    <2>1. k \notin 1 .. n
      <3>. SUFFICES ASSUME k \in 1 .. n PROVE FALSE
        OBVIOUS
      <3>1. R[k] = P[k]
        BY <1>1
      <3>2. Stands(P, m)
        BY <3>1, Zenon DEF Stands
      <3>. QED BY <1>6, <1>10, <3>2, Zenon
    <2>. PICK i \in 1 .. d : n + i = k
      BY <1>2, <2>1
    <2>2. R[k] = Q[i]
      BY <1>1
    <2>3. i = d /\ j = Len(Q[i])
      BY <1>7, <1>10, <2>2 DEF OnlyLast
    <2>. QED BY <2>2, <2>3
  <1>. QED BY <1>4, <1>5, <1>9, <1>10

\* However the kernel cuts a list into datagrams, they hold all of it, in order.
LEMMA ListCut ==
  ASSUME NEW S, NEW list \in Seq(S), NEW n \in Nat, n = Len(list), n > 0, NEW ends \in Cuts(n)
  PROVE  /\ Datagrams(list, ends) \in Seq(Seq(S) \ {<<>>}) /\ Datagrams(list, ends) # <<>>
         /\ LastOf(Datagrams(list, ends)) = list[n]
         /\ \A m : m \in MessagesOf(Datagrams(list, ends)) <=> \E i \in 1 .. n : m = list[i]
         /\ \A m : (\A i \in 1 .. n - 1 : list[i] # m) => OnlyLast(Datagrams(list, ends), m)
  <1>. PICK c \in 1 .. n : ends \in [1 .. c -> 1 .. n]
    BY DEF Cuts
  <1>1. Len(ends) = c /\ DOMAIN ends = 1 .. c
    OBVIOUS
  <1>2. ends[c] = n /\ \A j, k \in 1 .. c : j < k => ends[j] < ends[k]
    BY <1>1 DEF Cuts
  <1>3. \A k \in 1 .. c : ends[k] \in 1 .. n
    OBVIOUS
  <1>. DEFINE first(k) == IF k = 1 THEN 1 ELSE ends[k - 1] + 1
              D == Datagrams(list, ends)
  <1>4. ASSUME NEW k \in 1 .. c
        PROVE  /\ first(k) \in 1 .. ends[k]
               /\ k # 1 => k - 1 \in 1 .. c /\ ends[k - 1] < first(k)
    <2>1. CASE k = 1
      BY <1>3, <2>1
    <2>2. CASE k # 1
      <3>1. k - 1 \in 1 .. c /\ k - 1 < k
        BY <2>2
      <3>2. ends[k - 1] < ends[k] /\ ends[k - 1] \in 1 .. n /\ ends[k] \in 1 .. n
        BY <1>2, <1>3, <3>1
      <3>. QED BY <2>2, <3>1, <3>2
    <2>. QED BY <2>1, <2>2
  <1>. HIDE DEF first
  <1>5. D = [k \in 1 .. c |-> SubSeq(list, first(k), ends[k])]
    BY <1>1 DEF Datagrams, first
  <1>. HIDE DEF D
  <1>6. ASSUME NEW k \in 1 .. c
        PROVE  /\ D[k] \in Seq(S) \ {<<>>} /\ Len(D[k]) = ends[k] - first(k) + 1
               /\ DOMAIN D[k] = 1 .. ends[k] - first(k) + 1
               /\ \A j \in 1 .. ends[k] - first(k) + 1 :
                    /\ first(k) + j - 1 \in 1 .. n /\ D[k][j] = list[first(k) + j - 1]
                    /\ first(k) + j - 1 <= ends[k]
    <2>0. ends[k] \in 1 .. n /\ first(k) \in 1 .. ends[k]
      BY <1>3, <1>4
    <2>. PICK a \in Nat, b \in Nat : a = first(k) /\ b = ends[k] /\ 1 <= a /\ a <= b /\ b <= n
      <3>1. /\ ends[k] \in Nat /\ first(k) \in Nat
            /\ 1 <= first(k) /\ first(k) <= ends[k] /\ ends[k] <= n
        BY ONLY <2>0, n \in Nat
      <3>. QED BY ONLY <3>1
    <2>1. D[k] = SubSeq(list, a, b)
      BY <1>5
    <2>. PICK g : g = SubSeq(list, a, b)
      OBVIOUS
    <2>2. /\ g \in Seq(S) /\ Len(g) = b - a + 1
          /\ \A j \in 1 .. b - a + 1 : g[j] = list[a + j - 1]
      BY ONLY list \in Seq(S), g = SubSeq(list, a, b), 1 <= a, a <= b, b <= n, n = Len(list),
              a \in Nat, b \in Nat, n \in Nat
    <2>3. g # <<>>
      <3>1. Len(g) # 0 /\ Len(<<>>) = 0
        BY <2>2
      <3>. QED BY <3>1
    <2>4. DOMAIN g = 1 .. b - a + 1
      BY <2>2
    <2>5. \A j \in 1 .. b - a + 1 : a + j - 1 \in 1 .. n /\ a + j - 1 <= b
      BY ONLY a \in Nat, b \in Nat, n \in Nat, 1 <= a, a <= b, b <= n
    <2>. QED BY <2>1, <2>2, <2>3, <2>4, <2>5
  <1>7. D \in Seq(Seq(S) \ {<<>>}) /\ D # <<>> /\ Len(D) = c /\ DOMAIN D = 1 .. c
    <2>. PICK d : d = D
      OBVIOUS
    <2>1. d = [k \in 1 .. c |-> d[k]] /\ \A k \in 1 .. c : d[k] \in Seq(S) \ {<<>>}
      BY <1>5, <1>6
    <2>2. d \in [1 .. c -> Seq(S) \ {<<>>}] /\ c \in Nat /\ c > 0
      BY <2>1
    <2>. QED BY ONLY <2>2, d = D
  <1>8. LastOf(D) = list[n]
    <2>1. c \in 1 .. c
      OBVIOUS
    <2>. PICK a \in Nat : a = first(c) /\ 1 <= a /\ a <= n
      BY <1>2, <1>4, <2>1
    <2>2. n - a + 1 \in 1 .. n - a + 1 /\ a + (n - a + 1) - 1 = n
      OBVIOUS
    <2>3. D[c][n - a + 1] = list[n] /\ Len(D[c]) = n - a + 1
      BY <1>2, <1>6, <2>1, <2>2, ZenonT(40)
    <2>. QED BY <1>7, <2>3 DEF LastOf
  <1>9. ASSUME NEW m PROVE m \in MessagesOf(D) <=> \E i \in 1 .. n : m = list[i]
    <2>0. m \in MessagesOf(D) <=> Stands(D, m)
      BY <1>7, GramPlaces, Zenon
    <2>1. ASSUME Stands(D, m) PROVE \E i \in 1 .. n : m = list[i]
      <3>. PICK k \in 1 .. c : \E j \in 1 .. Len(D[k]) : m = D[k][j]
        BY <1>7, <2>1, Zenon DEF Stands
      <3>. QED BY <1>6
    <2>2. ASSUME NEW i \in 1 .. n, m = list[i] PROVE Stands(D, m)
      <3>. DEFINE T == {k \in 1 .. c : i <= ends[k]}
      <3>1. T \in SUBSET Nat /\ c \in T
        BY <1>2
      <3>. PICK k \in T : \A y \in T : k <= y
        BY <3>1, LeastElement
      <3>. PICK a \in Nat, b \in Nat : a = first(k) /\ b = ends[k] /\ 1 <= a /\ a <= b
        BY <1>3, <1>4
      <3>2. a <= i
        <4>1. CASE k = 1
          BY <4>1 DEF first
        <4>2. CASE k # 1
          <5>1. k - 1 \in 1 .. c /\ k - 1 \notin T
            BY <4>2
          <5>2. ends[k - 1] < i /\ a = ends[k - 1] + 1 /\ ends[k - 1] \in 1 .. n
            BY <1>3, <4>2, <5>1 DEF first
          <5>. QED BY <5>2
        <4>. QED BY <4>1, <4>2
      <3>3. i - a + 1 \in 1 .. b - a + 1 /\ a + (i - a + 1) - 1 = i
        BY <3>2
      <3>4. D[k][i - a + 1] = list[i] /\ i - a + 1 \in 1 .. Len(D[k])
        BY <1>6, <3>3, ZenonT(40)
      <3>. QED BY <1>7, <2>2, <3>4, Zenon DEF Stands
    <2>. QED BY <2>0, <2>1, <2>2
  <1>10. ASSUME NEW m, \A i \in 1 .. n - 1 : list[i] # m PROVE OnlyLast(D, m)
    <2>. SUFFICES ASSUME NEW k \in 1 .. c, NEW j \in 1 .. Len(D[k]), D[k][j] = m
                  PROVE  k = c /\ j = Len(D[k])
      BY <1>6, <1>7 DEF OnlyLast
    <2>0. ends[k] \in 1 .. n /\ first(k) \in 1 .. ends[k]
      BY <1>3, <1>4
    <2>. PICK a \in Nat, b \in Nat : a = first(k) /\ b = ends[k] /\ 1 <= a /\ a <= b /\ b <= n
      <3>1. /\ ends[k] \in Nat /\ first(k) \in Nat
            /\ 1 <= first(k) /\ first(k) <= ends[k] /\ ends[k] <= n
        BY ONLY <2>0, n \in Nat
      <3>. QED BY ONLY <3>1
    <2>1. /\ Len(D[k]) = b - a + 1 /\ j \in 1 .. b - a + 1 /\ a + j - 1 \in 1 .. n
          /\ list[a + j - 1] = m
      BY <1>6
    <2>2. a + j - 1 = n
      <3>1. a + j - 1 \notin 1 .. n - 1
        BY <1>10, <2>1
      <3>. QED BY ONLY <2>1, <3>1, n \in Nat
    <2>3. j = b - a + 1 /\ b = n
      BY ONLY <2>1, <2>2, a \in Nat, b \in Nat, n \in Nat, b <= n
    <2>4. k = c
      <3>1. ~ (k < c)
        <4>1. c \in 1 .. c
          OBVIOUS
        <4>2. k < c => ends[k] < ends[c]
          BY <1>2, <4>1
        <4>. QED BY ONLY <1>2, <2>3, <4>2, b = ends[k], n \in Nat
      <3>. QED BY <3>1
    <2>. QED BY <1>7, <2>1, <2>3, <2>4
  <1>. QED BY <1>7, <1>8, <1>9, <1>10, Zenon DEF D

-----------------------------------------------------------------------------
(* What get_xdp_info finds in a message.                                   *)

\* Of attributes of which no two contradict each other, libbpf_nla_parse finds
\* every one that it knows.
LEMMA ParseFinds ==
  ASSUME NEW attrs, NEW n \in Nat, DOMAIN attrs = 1 .. n, NEW max \in Nat,
         \A j, k \in 1 .. n : attrs[j].type = attrs[k].type => attrs[j].value = attrs[k].value
  PROVE  /\ DOMAIN libbpf_nla_parse(attrs, max) = {attrs[k].type : k \in 1 .. n} \cap 0 .. max
         /\ \A k \in 1 .. n : attrs[k].type \in 0 .. max =>
              libbpf_nla_parse(attrs, max)[attrs[k].type] = attrs[k].value
  <1>1. DOMAIN libbpf_nla_parse(attrs, max) = {attrs[k].type : k \in 1 .. n} \cap 0 .. max
    BY DEF libbpf_nla_parse
  <1>2. ASSUME NEW k \in 1 .. n, attrs[k].type \in 0 .. max
        PROVE  libbpf_nla_parse(attrs, max)[attrs[k].type] = attrs[k].value
    <2>. PICK t : t = attrs[k].type
      OBVIOUS
    <2>. DEFINE IsLast(c) == attrs[c].type = t /\ \A j \in 1 .. n : attrs[j].type = t => j <= c
                c == CHOOSE i \in 1 .. n : IsLast(i)
                T == {n - i : i \in {j \in 1 .. n : attrs[j].type = t}}
    <2>1. T \in SUBSET Nat /\ n - k \in T
      OBVIOUS
    <2>. PICK x \in T : \A y \in T : x <= y
      BY <2>1, LeastElement
    <2>. PICK i \in 1 .. n : attrs[i].type = t /\ x = n - i
      OBVIOUS
    <2>2. ASSUME NEW j \in 1 .. n, attrs[j].type = t PROVE j <= i
      <3>1. n - j \in T
        BY <2>2
      <3>2. n - i <= n - j
        BY <3>1
      <3>. QED BY <3>2
    <2>3. IsLast(i)
      BY <2>2
    <2>. HIDE DEF IsLast, T
    <2>4. c \in 1 .. n /\ IsLast(c)
      BY <2>3
    <2>5. attrs[c].value = attrs[k].value
      BY <2>4 DEF IsLast
    <2>6. libbpf_nla_parse(attrs, max)[t] = attrs[c].value
      BY <1>2 DEF libbpf_nla_parse, IsLast
    <2>. QED BY <2>5, <2>6
  <1>. QED BY <1>1, <1>2

\* The elements of two sequences together.
LEMMA RangeOfBoth ==
  ASSUME NEW S, NEW s \in Seq(S), NEW t \in Seq(S)
  PROVE  /\ s \o t \in Seq(S)
         /\ \A a : a \in Range(s \o t) <=> a \in Range(s) \/ a \in Range(t)
  <1>. PICK n \in Nat, m \in Nat : n = Len(s) /\ m = Len(t)
    OBVIOUS
  <1>. PICK u \in Seq(S) : u = s \o t
    <2>1. s \o t \in Seq(S)
      BY ONLY s \in Seq(S), t \in Seq(S)
    <2>. QED BY <2>1
  <1>1. /\ DOMAIN s = 1 .. n /\ DOMAIN t = 1 .. m /\ DOMAIN u = 1 .. n + m
        /\ \A k \in 1 .. n : u[k] = s[k]
        /\ \A k \in 1 .. m : u[n + k] = t[k]
    BY ONLY s \in Seq(S), t \in Seq(S), u = s \o t, n = Len(s), m = Len(t), n \in Nat, m \in Nat
  <1>2. ASSUME NEW a PROVE a \in Range(u) <=> a \in Range(s) \/ a \in Range(t)
    <2>1. ASSUME NEW k \in 1 .. n + m, a = u[k] PROVE a \in Range(s) \/ a \in Range(t)
      <3>1. CASE k \in 1 .. n
        BY <1>1, <2>1, <3>1 DEF Range
      <3>2. CASE k \notin 1 .. n
        <4>1. k - n \in 1 .. m /\ n + (k - n) = k
          BY <3>2
        <4>2. a = t[k - n]
          BY <1>1, <2>1, <4>1
        <4>. QED BY <1>1, <4>1, <4>2 DEF Range
      <3>. QED BY <3>1, <3>2
    <2>2. ASSUME NEW k \in 1 .. n, a = s[k] PROVE a \in Range(u)
      <3>1. k \in 1 .. n + m
        OBVIOUS
      <3>. QED BY <1>1, <2>2, <3>1 DEF Range
    <2>3. ASSUME NEW k \in 1 .. m, a = t[k] PROVE a \in Range(u)
      <3>1. n + k \in 1 .. n + m
        OBVIOUS
      <3>. QED BY <1>1, <2>3, <3>1 DEF Range
    <2>. QED BY <1>1, <2>1, <2>2, <2>3 DEF Range
  <1>. QED BY <1>2

\* An attribute.
Attr(t, v) == [type |-> t, value |-> v]

\* The modes of an interface.
LEMMA ModesOfHook ==
  ASSUME NEW hook \in Hooks
  PROVE  /\ Attached(hook) = {} => ModeOf(hook) = "NONE" /\ Cardinality(Attached(hook)) # 1
         /\ Attached(hook) # {} => ModeOf(hook) # "NONE"
         /\ Cardinality(Attached(hook)) > 1 => ModeOf(hook) = "MULTI" /\ Attached(hook) # {}
         /\ Cardinality(Attached(hook)) = 1 =>
              ModeOf(hook) \in Attached(hook) /\ ModeOf(hook) = CHOOSE m \in Attached(hook) : TRUE
         /\ Cardinality(Attached(hook)) \in Nat
         /\ Cardinality(Attached(hook)) = 0 => Attached(hook) = {}
  <1>. PICK on : on = Attached(hook)
    OBVIOUS
  <1>1. on \subseteq LinkModes
    BY DEF Attached
  <1>2. IsFiniteSet(LinkModes)
    <2>1. LinkModes = (({} \cup {"SKB"}) \cup {"DRV"}) \cup {"HW"}
      BY DEF LinkModes
    <2>. QED BY <2>1, FS_EmptySet, FS_AddElement
  <1>3. IsFiniteSet(on)
    BY <1>1, <1>2, FS_Subset
  <1>4. Cardinality(on) \in Nat /\ (Cardinality(on) = 0 <=> on = {})
    BY <1>3, FS_CardinalityType, FS_EmptySet
  <1>5. on # {} => (CHOOSE m \in on : TRUE) \in on
    OBVIOUS
  <1>6. "NONE" \notin on
    BY <1>1 DEF LinkModes
  <1>7. ModeOf(hook) = IF on = {} THEN "NONE"
                       ELSE IF Cardinality(on) > 1 THEN "MULTI" ELSE CHOOSE m \in on : TRUE
    BY DEF ModeOf
  <1>8. "MULTI" # "NONE"
    OBVIOUS
  <1>. PICK c \in Nat : c = Cardinality(on)
    BY <1>4
  <1>. PICK x : x = CHOOSE m \in on : TRUE
    OBVIOUS
  <1>. QED BY <1>4, <1>5, <1>6, <1>7, <1>8

\* The attributes of an interface.
LEMMA AttrsOfHook ==
  ASSUME NEW hook \in Hooks
  PROVE  /\ \E S : XdpAttrs(hook) \in Seq(S)
         /\ \A a : a \in Range(XdpAttrs(hook)) <=>
              \/ a = Attr(2, ModeOf(hook)) \/ a = Attr(8, 99)
              \/ Cardinality(Attached(hook)) = 1 /\ a = Attr(4, hook[ModeOf(hook)])
              \/ hook["SKB"] # 0 /\ a = Attr(6, hook["SKB"])
              \/ hook["DRV"] # 0 /\ a = Attr(5, hook["DRV"])
              \/ hook["HW"] # 0 /\ a = Attr(7, hook["HW"])
  <1>. PICK mode : mode = ModeOf(hook)
    OBVIOUS
  <1>. PICK one \in BOOLEAN : one = (Cardinality(Attached(hook)) = 1)
    OBVIOUS
  <1>. DEFINE S == {Attr(2, mode), Attr(8, 99), Attr(4, hook[mode]), Attr(6, hook["SKB"]),
                    Attr(5, hook["DRV"]), Attr(7, hook["HW"])}
              s1 == <<Attr(2, mode), Attr(8, 99)>>
              s2 == IF one THEN <<Attr(4, hook[mode])>> ELSE <<>>
              s3 == IF hook["SKB"] = 0 THEN <<>> ELSE <<Attr(6, hook["SKB"])>>
              s4 == IF hook["DRV"] = 0 THEN <<>> ELSE <<Attr(5, hook["DRV"])>>
              s5 == IF hook["HW"] = 0 THEN <<>> ELSE <<Attr(7, hook["HW"])>>
  <1>1. XdpAttrs(hook) = (((s1 \o s2) \o s3) \o s4) \o s5
    <2>1. ModeAttr["SKB"] = 6 /\ ModeAttr["DRV"] = 5 /\ ModeAttr["HW"] = 7
      BY DEF ModeAttr
    <2>2. ProgAttr(hook, "SKB") = s3 /\ ProgAttr(hook, "DRV") = s4 /\ ProgAttr(hook, "HW") = s5
      BY <2>1 DEF ProgAttr, Attr
    <2>3. XdpAttrs(hook) =
            ((((<<[type |-> 2, value |-> mode], [type |-> 8, value |-> 99]>>)
               \o (IF Cardinality(Attached(hook)) = 1 THEN <<[type |-> 4, value |-> hook[mode]]>>
                   ELSE <<>>))
              \o ProgAttr(hook, "SKB")) \o ProgAttr(hook, "DRV")) \o ProgAttr(hook, "HW")
      BY SMT DEF XdpAttrs, ModeOf
    <2>4. s2 = IF Cardinality(Attached(hook)) = 1 THEN <<[type |-> 4, value |-> hook[mode]]>> ELSE <<>>
      BY DEF Attr
    <2>5. s1 = <<[type |-> 2, value |-> mode], [type |-> 8, value |-> 99]>>
      BY DEF Attr
    <2>. HIDE DEF s1, s2, s3, s4, s5
    <2>. QED BY <2>2, <2>3, <2>4, <2>5, Zenon
  <1>2. /\ s1 \in Seq(S) /\ \A a : a \in Range(s1) <=> a = Attr(2, mode) \/ a = Attr(8, 99)
    <2>. HIDE DEF S
    <2>1. Attr(2, mode) \in S /\ Attr(8, 99) \in S
      BY DEF S
    <2>2. s1 \in Seq(S) /\ DOMAIN s1 = {1, 2}
      BY <2>1
    <2>. QED BY <2>2 DEF Range
  <1>3. \A x \in S : <<x>> \in Seq(S) /\ (\A a : a \in Range(<<x>>) <=> a = x)
    <2>. HIDE DEF S
    <2>. TAKE x \in S
    <2>1. <<x>> \in Seq(S) /\ DOMAIN <<x>> = {1} /\ <<x>>[1] = x
      OBVIOUS
    <2>. QED BY <2>1 DEF Range
  <1>4. <<>> \in Seq(S) /\ (\A a : a \notin Range(<<>>))
    <2>. HIDE DEF S
    <2>1. <<>> \in Seq(S) /\ DOMAIN <<>> = {}
      OBVIOUS
    <2>. QED BY <2>1 DEF Range
  <1>. HIDE DEF s1
  <1>5. s2 \in Seq(S) /\ \A a : a \in Range(s2) <=> one /\ a = Attr(4, hook[mode])
    BY <1>3, <1>4
  <1>6. s3 \in Seq(S) /\ \A a : a \in Range(s3) <=> hook["SKB"] # 0 /\ a = Attr(6, hook["SKB"])
    BY <1>3, <1>4
  <1>7. s4 \in Seq(S) /\ \A a : a \in Range(s4) <=> hook["DRV"] # 0 /\ a = Attr(5, hook["DRV"])
    BY <1>3, <1>4
  <1>8. s5 \in Seq(S) /\ \A a : a \in Range(s5) <=> hook["HW"] # 0 /\ a = Attr(7, hook["HW"])
    BY <1>3, <1>4
  <1>. HIDE DEF s2, s3, s4, s5, S
  <1>9. s1 \o s2 \in Seq(S) /\ \A a : a \in Range(s1 \o s2) <=> a \in Range(s1) \/ a \in Range(s2)
    BY <1>2, <1>5, RangeOfBoth
  <1>. PICK t2 \in Seq(S) : t2 = s1 \o s2
    BY <1>9
  <1>10. t2 \o s3 \in Seq(S) /\ \A a : a \in Range(t2 \o s3) <=> a \in Range(t2) \/ a \in Range(s3)
    <2>1. t2 \in Seq(S) /\ s3 \in Seq(S)
      BY <1>6
    <2>. QED BY ONLY <2>1, RangeOfBoth, Zenon
  <1>. PICK t3 \in Seq(S) : t3 = t2 \o s3
    BY <1>10
  <1>11. t3 \o s4 \in Seq(S) /\ \A a : a \in Range(t3 \o s4) <=> a \in Range(t3) \/ a \in Range(s4)
    <2>1. t3 \in Seq(S) /\ s4 \in Seq(S)
      BY <1>7
    <2>. QED BY ONLY <2>1, RangeOfBoth, Zenon
  <1>. PICK t4 \in Seq(S) : t4 = t3 \o s4
    BY <1>11
  <1>12. t4 \o s5 \in Seq(S) /\ \A a : a \in Range(t4 \o s5) <=> a \in Range(t4) \/ a \in Range(s5)
    <2>1. t4 \in Seq(S) /\ s5 \in Seq(S)
      BY <1>8
    <2>. QED BY ONLY <2>1, RangeOfBoth, Zenon
  <1>13. XdpAttrs(hook) = t4 \o s5
    BY <1>1
  <1>. QED BY <1>2, <1>5, <1>6, <1>7, <1>8, <1>9, <1>10, <1>11, <1>12, <1>13

\* get_xdp_info finds in the kernel's message all that the interface has.
LEMMA InfoFound ==
  ASSUME NEW hook \in Hooks, NEW info \in {NoInfo, InfoOf(hook)}, NEW msg,
         msg.ifi = IfIndex, msg.attrs = XdpAttrs(hook)
  PROVE  get_xdp_info(info, msg) = InfoOf(hook)
  <1>. PICK attrs : attrs = XdpAttrs(hook)
    OBVIOUS
  <1>. PICK n \in Nat : DOMAIN attrs = 1 .. n
    <2>. PICK S : attrs \in Seq(S)
      BY AttrsOfHook
    <2>. QED OBVIOUS
  <1>. PICK mode : mode = ModeOf(hook)
    OBVIOUS
  <1>. DEFINE one == Cardinality(Attached(hook)) = 1
              Has(a) == \/ a = Attr(2, mode) \/ a = Attr(8, 99)
                        \/ one /\ a = Attr(4, hook[mode])
                        \/ hook["SKB"] # 0 /\ a = Attr(6, hook["SKB"])
                        \/ hook["DRV"] # 0 /\ a = Attr(5, hook["DRV"])
                        \/ hook["HW"] # 0 /\ a = Attr(7, hook["HW"])
  <1>0. one <=> Cardinality(Attached(hook)) = 1
    OBVIOUS
  <1>. HIDE DEF one
  <1>1. \A a : (\E k \in 1 .. n : a = attrs[k]) <=> Has(a)
    <2>. HIDE DEF Has
    <2>1. \A a : a \in Range(attrs) <=> Has(a)
      BY <1>0, AttrsOfHook DEF Has
    <2>. QED BY <2>1 DEF Range
  <1>2. \A k \in 1 .. n : Has(attrs[k])
    BY <1>1, Zenon
  <1>3. \A a, b : Has(a) /\ Has(b) /\ a.type = b.type => a.value = b.value
    BY DEF Attr
  <1>. PICK tb : tb = libbpf_nla_parse(attrs, 7)
    OBVIOUS
  <1>4. /\ DOMAIN tb = {attrs[k].type : k \in 1 .. n} \cap 0 .. 7
        /\ \A k \in 1 .. n : attrs[k].type \in 0 .. 7 => tb[attrs[k].type] = attrs[k].value
    <2>. HIDE DEF Has
    <2>1. \A j, k \in 1 .. n : attrs[j].type = attrs[k].type => attrs[j].value = attrs[k].value
      BY <1>2, <1>3
    <2>2. 7 \in Nat
      OBVIOUS
    <2>3. /\ DOMAIN libbpf_nla_parse(attrs, 7) = {attrs[k].type : k \in 1 .. n} \cap 0 .. 7
          /\ \A k \in 1 .. n : attrs[k].type \in 0 .. 7 =>
               libbpf_nla_parse(attrs, 7)[attrs[k].type] = attrs[k].value
      <3>1. /\ n \in Nat /\ DOMAIN attrs = 1 .. n
            /\ \A j, k \in 1 .. n : attrs[j].type = attrs[k].type => attrs[j].value = attrs[k].value
        BY <2>1
      <3>. QED BY ONLY <3>1, <2>2, ParseFinds, ZenonT(60)
    <2>. QED BY <2>3
  <1>5. \A t \in 0 .. 7 : \A v : Has(Attr(t, v)) => t \in DOMAIN tb /\ tb[t] = v
    <2>. HIDE DEF Has
    <2>. SUFFICES ASSUME NEW t \in 0 .. 7, NEW v, Has(Attr(t, v)) PROVE t \in DOMAIN tb /\ tb[t] = v
      OBVIOUS
    <2>. PICK k \in 1 .. n : attrs[k] = Attr(t, v)
      BY <1>1
    <2>1. attrs[k].type = t /\ attrs[k].value = v
      BY DEF Attr
    <2>. QED BY <1>4, <2>1
  <1>6. \A t \in DOMAIN tb : \E a : Has(a) /\ a.type = t
    <2>. HIDE DEF Has
    <2>. QED BY <1>2, <1>4
  <1>7. 2 \in DOMAIN tb /\ tb[2] = mode
    <2>1. Has(Attr(2, mode))
      OBVIOUS
    <2>. HIDE DEF Has
    <2>. QED BY <1>5, <2>1
  <1>8. (4 \in DOMAIN tb <=> one) /\ (one => tb[4] = hook[mode])
    <2>1. one => Has(Attr(4, hook[mode]))
      OBVIOUS
    <2>2. \A a : Has(a) /\ a.type = 4 => one
      BY DEF Attr
    <2>. HIDE DEF Has
    <2>. QED BY <1>5, <1>6, <2>1, <2>2
  <1>9. (6 \in DOMAIN tb) = (hook["SKB"] # 0) /\ (hook["SKB"] # 0 => tb[6] = hook["SKB"])
    <2>1. hook["SKB"] # 0 => Has(Attr(6, hook["SKB"]))
      OBVIOUS
    <2>2. \A a : Has(a) /\ a.type = 6 => hook["SKB"] # 0
      BY DEF Attr
    <2>. HIDE DEF Has
    <2>. QED BY <1>5, <1>6, <2>1, <2>2
  <1>10. (5 \in DOMAIN tb) = (hook["DRV"] # 0) /\ (hook["DRV"] # 0 => tb[5] = hook["DRV"])
    <2>1. hook["DRV"] # 0 => Has(Attr(5, hook["DRV"]))
      OBVIOUS
    <2>2. \A a : Has(a) /\ a.type = 5 => hook["DRV"] # 0
      BY DEF Attr
    <2>. HIDE DEF Has
    <2>. QED BY <1>5, <1>6, <2>1, <2>2
  <1>11. (7 \in DOMAIN tb) = (hook["HW"] # 0) /\ (hook["HW"] # 0 => tb[7] = hook["HW"])
    <2>1. hook["HW"] # 0 => Has(Attr(7, hook["HW"]))
      OBVIOUS
    <2>2. \A a : Has(a) /\ a.type = 7 => hook["HW"] # 0
      BY DEF Attr
    <2>. HIDE DEF Has
    <2>. QED BY <1>5, <1>6, <2>1, <2>2
  <1>. HIDE DEF Has
  <1>12. InfoOf(hook) = [attach_mode |-> mode, prog_id |-> IF one THEN hook[mode] ELSE 0, id_of |-> hook]
    BY <1>0 DEF InfoOf
  <1>13. hook = [m \in LinkModes |-> hook[m]] /\ \A m \in LinkModes : hook[m] \in Nat
    BY DEF Hooks
  <1>14. CASE Attached(hook) = {}
    <2>1. mode = "NONE" /\ ~ one
      BY <1>0, <1>14, ModesOfHook
    <2>2. hook = [m \in LinkModes |-> 0]
      BY <1>13, <1>14 DEF Attached
    <2>3. InfoOf(hook) = NoInfo
      BY <1>12, <2>1, <2>2 DEF NoInfo
    <2>4. get_xdp_info(info, msg) = [info EXCEPT !.attach_mode = "NONE"]
      BY <1>7, <2>1 DEF get_xdp_info, IFLA_XDP_MAX
    <2>5. info = NoInfo /\ [NoInfo EXCEPT !.attach_mode = "NONE"] = NoInfo
      BY <2>3 DEF NoInfo
    <2>. QED BY <2>3, <2>4, <2>5
  <1>15. CASE Attached(hook) # {}
    <2>1. mode # "NONE"
      BY <1>15, ModesOfHook
    <2>2. get_xdp_info(info, msg) =
            [attach_mode |-> mode,
             prog_id |-> IF 4 \in DOMAIN tb THEN tb[4] ELSE info.prog_id,
             id_of |-> [m \in LinkModes |-> IF ModeAttr[m] \in DOMAIN tb THEN tb[ModeAttr[m]]
                                            ELSE info.id_of[m]]]
      BY <1>7, <2>1 DEF get_xdp_info, IFLA_XDP_MAX
    <2>3. info.prog_id = (IF one THEN hook[mode] ELSE 0) \/ info.prog_id = 0
      BY <1>12 DEF NoInfo
    <2>4. \A m \in LinkModes : info.id_of[m] \in {0, hook[m]}
      BY <1>12 DEF NoInfo
    <2>5. (IF 4 \in DOMAIN tb THEN tb[4] ELSE info.prog_id) = IF one THEN hook[mode] ELSE 0
      BY <1>8, <2>3
    <2>6. ASSUME NEW m \in LinkModes
          PROVE  (IF ModeAttr[m] \in DOMAIN tb THEN tb[ModeAttr[m]] ELSE info.id_of[m]) = hook[m]
      <3>1. (ModeAttr[m] \in DOMAIN tb) = (hook[m] # 0) /\ (hook[m] # 0 => tb[ModeAttr[m]] = hook[m])
        <4>1. ModeAttr["SKB"] = 6 /\ ModeAttr["DRV"] = 5 /\ ModeAttr["HW"] = 7
          BY DEF ModeAttr
        <4>2. m = "SKB" \/ m = "DRV" \/ m = "HW"
          BY DEF LinkModes
        <4>. QED BY <1>9, <1>10, <1>11, <4>1, <4>2
      <3>. QED BY <2>4, <3>1
    <2>7. [m \in LinkModes |-> IF ModeAttr[m] \in DOMAIN tb THEN tb[ModeAttr[m]]
                               ELSE info.id_of[m]] = hook
      BY <1>13, <2>6
    <2>. QED BY <1>12, <2>2, <2>5, <2>7
  <1>. QED BY <1>14, <1>15

\* What it tells of another interface it leaves out.
LEMMA OtherInterface ==
  ASSUME NEW info, NEW msg, msg.ifi # IfIndex PROVE get_xdp_info(info, msg) = info
  BY DEF get_xdp_info

-----------------------------------------------------------------------------
(* Types.                                                                  *)

LEMMA InterfacesThere ==
  /\ Len(Interfaces) \in Nat /\ DOMAIN Interfaces = 1 .. Len(Interfaces)
  /\ Interfaces \in Seq(Nat) /\ IfIndex \in Range(Interfaces)
  /\ \A i \in Range(Interfaces) : i \in Nat
  /\ \A k \in 1 .. Len(Interfaces) : Interfaces[k] \in Range(Interfaces)
  /\ \A i \in Range(Interfaces) : \E k \in 1 .. Len(Interfaces) : i = Interfaces[k]
  /\ Ids \subseteq Nat
  <1>1. Interfaces \in Seq(Nat) /\ Interfaces \in Seq(Nat \ {0})
    BY NetlinkAssumption
  <1>2. Len(Interfaces) \in Nat /\ DOMAIN Interfaces = 1 .. Len(Interfaces)
    BY <1>1
  <1>3. \A k \in DOMAIN Interfaces : Interfaces[k] \in Nat
    BY <1>1
  <1>. QED BY <1>1, <1>2, <1>3, NetlinkAssumption, Zenon DEF Range

\* What waits to be read are datagrams.
LEMMA ToReadIs ==
  ASSUME NlTypeOK
  PROVE  /\ nl.sock \in {"own", "kept"} /\ nl_queue[nl.sock] \in Seq(Seq(NlMsgs) \ {<<>>})
         /\ nl_queue["kept"] \in Seq(Seq(NlMsgs) \ {<<>>})
         /\ nl.pc # "message" => ToRead = nl_queue[nl.sock]
         /\ nl.pc = "message" => ToRead = <<nl.buf>> \o nl_queue[nl.sock]
         /\ ToRead \in Seq(Seq(NlMsgs) \ {<<>>})
  <1>1. nl.sock \in {"own", "kept"} /\ nl.buf \in Seq(NlMsgs)
        /\ (nl.pc = "message" => nl.buf # <<>>)
    BY DEF NlTypeOK, NlCalls
  <1>2. nl_queue \in [{"own", "kept"} -> Seq(Seq(NlMsgs) \ {<<>>})]
    BY DEF NlTypeOK, NlGrams
  <1>3. /\ nl_queue[nl.sock] \in Seq(Seq(NlMsgs) \ {<<>>})
        /\ nl_queue["kept"] \in Seq(Seq(NlMsgs) \ {<<>>})
    BY <1>1, <1>2
  <1>4. CASE nl.pc = "message"
    <2>. PICK b \in Seq(NlMsgs) \ {<<>>} : b = nl.buf
      BY <1>1, <1>4
    <2>. PICK q \in Seq(Seq(NlMsgs) \ {<<>>}) : q = nl_queue[nl.sock]
      BY <1>3
    <2>1. <<b>> \o q \in Seq(Seq(NlMsgs) \ {<<>>})
      OBVIOUS
    <2>. QED BY <1>1, <1>3, <1>4, <2>1 DEF ToRead
  <1>. QED BY <1>1, <1>3, <1>4 DEF ToRead

\* The first message of the buffer is the first that waits.
LEMMA BufferIsFirst ==
  ASSUME NlTypeOK, nl.pc = "message"
  PROVE  /\ ToRead # <<>> /\ ToRead[1] = nl.buf /\ Head(nl.buf) = ToRead[1][1]
         /\ Tail(ToRead) = nl_queue[nl.sock] /\ nl.buf \in Seq(NlMsgs) /\ Len(nl.buf) \in Nat
         /\ Head(nl.buf) \in NlMsgs /\ Tail(nl.buf) \in Seq(NlMsgs)
         /\ Len(nl.buf) > 1 => Tail(nl.buf) # <<>>
  <1>. PICK b \in Seq(NlMsgs) : b = nl.buf /\ b # <<>>
    BY DEF NlTypeOK, NlCalls
  <1>. PICK q \in Seq(Seq(NlMsgs) \ {<<>>}) : q = nl_queue[nl.sock]
    BY ToReadIs
  <1>1. ToRead = <<b>> \o q
    BY ToReadIs
  <1>. PICK P : P = <<b>> \o q
    OBVIOUS
  <1>2. P # <<>> /\ P[1] = b /\ Tail(P) = q
    BY ONLY b \in Seq(NlMsgs) \ {<<>>}, q \in Seq(Seq(NlMsgs) \ {<<>>}), P = <<b>> \o q
  <1>3. /\ Head(b) = b[1] /\ Head(b) \in NlMsgs /\ Tail(b) \in Seq(NlMsgs) /\ Len(b) \in Nat
        /\ (Len(b) > 1 => Tail(b) # <<>>)
    <2>1. Len(b) \in Nat /\ Len(b) > 0 /\ Tail(b) \in Seq(NlMsgs) /\ Len(Tail(b)) = Len(b) - 1
      OBVIOUS
    <2>2. Len(b) > 1 => Len(Tail(b)) # 0
      <3>. PICK j \in Nat, k \in Int : j = Len(b) /\ k = Len(Tail(b)) /\ k = j - 1
        BY <2>1
      <3>1. j > 1 => k # 0
        BY ONLY j \in Nat, k \in Int, k = j - 1
      <3>. QED BY <3>1
    <2>3. Len(<<>>) = 0
      OBVIOUS
    <2>4. Head(b) = b[1] /\ Head(b) \in NlMsgs
      BY ONLY b \in Seq(NlMsgs), b # <<>>
    <2>5. Len(b) > 1 => Tail(b) # <<>>
      BY <2>2, <2>3, Zenon
    <2>. QED BY <2>1, <2>4, <2>5
  <1>. QED BY <1>1, <1>2, <1>3

\* The messages with which the kernel answers are messages.
LEMMA AnswersTyped ==
  ASSUME NlTypeOK
  PROVE  /\ \A t \in {"DONE", "ERROR"}, multi \in BOOLEAN, error \in {"0", "EBUSY"} :
              EndMessage(t, multi, error) \in NlMsgs
         /\ \A k \in DOMAIN Interfaces : ListMessage(k) \in NlMsgs
  <1>1. nl.seq \in Nat /\ nl_calls \in Nat /\ 0 \in Nat
    BY DEF NlTypeOK, NlCalls
  <1>2. <<>> \in AttrLists /\ \A hook \in Hooks : XdpAttrs(hook) \in AttrLists
    BY DEF AttrLists
  <1>3. \A i \in Range(Interfaces) : nl_hooks[i] \in Hooks
    BY DEF NlTypeOK
  <1>4. ASSUME NEW t \in {"DONE", "ERROR"}, NEW multi \in BOOLEAN, NEW error \in {"0", "EBUSY"}
        PROVE  EndMessage(t, multi, error) \in NlMsgs
    BY <1>1, <1>2 DEF EndMessage, NlMsgs
  <1>5. ASSUME NEW k \in DOMAIN Interfaces PROVE ListMessage(k) \in NlMsgs
    <2>1. Interfaces[k] \in Range(Interfaces) /\ Interfaces[k] \in Nat
      BY InterfacesThere
    <2>2. XdpAttrs(nl_hooks[Interfaces[k]]) \in AttrLists
      BY <1>2, <1>3, <2>1
    <2>. QED BY <1>1, <2>1, <2>2 DEF ListMessage, NlMsgs
  <1>. QED BY <1>4, <1>5

\* The list that the kernel sends.
Listed == [i \in DOMAIN Interfaces |-> ListMessage(i)] \o <<EndMessage("DONE", TRUE, "0")>>
LEMMA ListedIs ==
  ASSUME NlTypeOK
  PROVE  /\ Listed \in Seq(NlMsgs) /\ Len(Listed) = Len(Interfaces) + 1
         /\ Listed[Len(Interfaces) + 1] = EndMessage("DONE", TRUE, "0")
         /\ \A i \in 1 .. Len(Interfaces) : Listed[i] = ListMessage(i)
  <1>. PICK n \in Nat : n = Len(Interfaces) /\ DOMAIN Interfaces = 1 .. n
    BY InterfacesThere
  <1>. PICK s : s = [i \in 1 .. n |-> ListMessage(i)]
    OBVIOUS
  <1>1. s \in Seq(NlMsgs) /\ Len(s) = n /\ \A i \in 1 .. n : s[i] = ListMessage(i)
    <2>1. \A i \in 1 .. n : ListMessage(i) \in NlMsgs
      BY AnswersTyped
    <2>2. s \in [1 .. n -> NlMsgs]
      BY <2>1
    <2>3. s \in Seq(NlMsgs) /\ Len(s) = n
      BY ONLY <2>2, n \in Nat
    <2>. QED BY <2>3
  <1>. PICK e \in NlMsgs : e = EndMessage("DONE", TRUE, "0")
    BY AnswersTyped
  <1>. PICK both : both = s \o <<e>>
    OBVIOUS
  <1>2. both \in Seq(NlMsgs) /\ Len(both) = n + 1 /\ both[n + 1] = e
        /\ \A i \in 1 .. n : both[i] = s[i]
    BY ONLY <1>1, both = s \o <<e>>, e \in NlMsgs, n \in Nat
  <1>3. Listed = both
    BY DEF Listed
  <1>. QED BY <1>1, <1>2, <1>3

\* A call that returns,
LEMMA ReturnTyped ==
  ASSUME NlTypeOK, NEW code, NlReturn(code), nl_queue' \in [{"own", "kept"} -> Seq(NlGrams)],
         UNCHANGED <<nl_hooks, nl_secs, nl_truth, nl_calls>>
  PROVE  NlTypeOK'
  <1>1. nl' \in NlCalls /\ nl'.pc = "idle"
    <2>1. <<>> \in Seq(NlMsgs)
      OBVIOUS
    <2>2. nl \in NlCalls /\ nl' = [nl EXCEPT !.pc = "idle", !.buf = <<>>]
      BY DEF NlTypeOK, NlReturn
    <2>. QED BY <2>1, <2>2 DEF NlCalls
  <1>. QED BY <1>1 DEF NlTypeOK

\* one that begins,
LEMMA BeginTyped ==
  ASSUME NlTypeOK, NEW what \in {"set", "get", "link", "class", "qdisc", "filter"},
         NEW sock \in {"own", "kept"}, NEW flags \in SUBSET LinkModes, NEW id \in Nat,
         NEW seq \in Nat, NEW pc \in {"idle", "open", "send"},
         BeginCall(what, sock, flags, id, seq, pc)
  PROVE  /\ NlTypeOK'
         /\ nl' = [pc |-> pc, op |-> what, sock |-> sock, flags |-> flags, id |-> id, seq |-> seq,
                   buf |-> <<>>, multipart |-> TRUE]
  <1>1. nl' = [pc |-> pc, op |-> what, sock |-> sock, flags |-> flags, id |-> id, seq |-> seq,
               buf |-> <<>>, multipart |-> TRUE]
    BY DEF BeginCall, NlIdle
  <1>2. nl' \in NlCalls /\ nl'.pc # "message"
    <2>1. <<>> \in Seq(NlMsgs)
      OBVIOUS
    <2>. QED BY <1>1, <2>1 DEF NlCalls
  <1>3. nl_queue' \in [{"own", "kept"} -> Seq(NlGrams)]
    <2>1. <<>> \in Seq(NlGrams)
      OBVIOUS
    <2>. QED BY <2>1 DEF NlTypeOK, BeginCall
  <1>4. nl_calls' \in Nat
    BY DEF NlTypeOK, BeginCall
  <1>. QED BY <1>1, <1>2, <1>3, <1>4 DEF NlTypeOK, BeginCall

\* and one that goes on with the next message.
LEMMA NextTyped ==
  ASSUME NlTypeOK, nl.pc = "message", NextMessage(Head(nl.buf)),
         UNCHANGED <<nl_hooks, nl_secs, nl_queue, nl_truth, nl_calls>>
  PROVE  NlTypeOK'
  <1>. PICK b \in Seq(NlMsgs) : b = nl.buf /\ b # <<>>
    BY BufferIsFirst DEF NlTypeOK
  <1>1. Tail(b) \in Seq(NlMsgs) /\ (Len(b) > 1 => Tail(b) # <<>>) /\ Head(b) \in NlMsgs
    BY BufferIsFirst
  <1>. PICK t \in Seq(NlMsgs) : t = Tail(b)
    BY <1>1
  <1>. PICK m \in BOOLEAN : m = Head(b).multi
    BY <1>1 DEF NlMsgs
  <1>2. nl' = [nl EXCEPT !.pc = IF Len(b) > 1 THEN "message" ELSE "recv", !.buf = t,
                         !.multipart = nl.multipart \/ m]
    BY DEF NextMessage
  <1>. PICK pc : pc = IF Len(b) > 1 THEN "message" ELSE "recv"
    OBVIOUS
  <1>3. nl \in NlCalls /\ nl' = [nl EXCEPT !.pc = pc, !.buf = t, !.multipart = nl.multipart \/ m]
    BY <1>2 DEF NlTypeOK
  <1>4. nl' \in NlCalls /\ nl'.pc = pc /\ nl'.buf = t
    <2>1. pc \in {"message", "recv"}
      OBVIOUS
    <2>2. nl.multipart \in BOOLEAN
      BY <1>3 DEF NlCalls
    <2>3. (nl.multipart \/ m) \in BOOLEAN
      OBVIOUS
    <2>. QED BY ONLY <1>3, <2>1, <2>3, t \in Seq(NlMsgs) DEF NlCalls
  <1>5. pc = "message" => t # <<>>
    BY <1>1
  <1>. QED BY <1>4, <1>5 DEF NlTypeOK

\* The types of NlSend.
LEMMA SendTyped ==
  ASSUME NlTypeOK, NlSend, nl.pc = "send", nl.op = "set" => nl.sock = "own"
  PROVE  NlTypeOK'
  <1>0. /\ nl.sock \in {"own", "kept"} /\ nl.id \in Nat /\ nl.flags \subseteq LinkModes
        /\ nl_queue \in [{"own", "kept"} -> Seq(NlGrams)]
        /\ nl_hooks \in [Range(Interfaces) -> Hooks]
        /\ UNCHANGED <<nl_secs, nl_calls>>
    BY DEF NlTypeOK, NlCalls, NlSend
  <1>. DEFINE Answered == \/ \E verdict \in {"0", "EBUSY"} : AnswerSet(verdict)
                          \/ \E ends \in Cuts(Len(Interfaces) + 1) : AnswerList(ends)
  <1>1. CASE NlReturn("errno") /\ UNCHANGED <<nl_hooks, nl_queue, nl_truth>>
    BY <1>0, <1>1, ReturnTyped
  <1>2. CASE nl' = [nl EXCEPT !.pc = "recv"] /\ Answered
    <2>1. nl' \in NlCalls /\ nl'.pc = "recv"
      BY <1>2 DEF NlTypeOK, NlCalls
    <2>. SUFFICES /\ nl_hooks' \in [Range(Interfaces) -> Hooks]
                  /\ nl_queue' \in [{"own", "kept"} -> Seq(NlGrams)]
                  /\ nl_truth' \in [hooks : [Range(Interfaces) -> Hooks], verdict : {"0", "EBUSY"}]
      BY <1>0, <2>1 DEF NlTypeOK
    <2>2. CASE \E verdict \in {"0", "EBUSY"} : AnswerSet(verdict)
      <3>. PICK verdict \in {"0", "EBUSY"} : AnswerSet(verdict)
        BY <2>2
      <3>. PICK mode : mode = IF nl.flags = {} THEN "DRV" ELSE CHOOSE m \in nl.flags : TRUE
        OBVIOUS
      <3>1. mode \in LinkModes
        BY <1>0 DEF LinkModes
      <3>2. nl_hooks' = IF verdict = "0" THEN [nl_hooks EXCEPT ![IfIndex][mode] = nl.id] ELSE nl_hooks
        BY DEF AnswerSet
      <3>3. nl_hooks' \in [Range(Interfaces) -> Hooks]
        BY <1>0, <3>1, <3>2, InterfacesThere DEF Hooks
      <3>. PICK e \in NlGrams : e = <<EndMessage("ERROR", FALSE, verdict)>>
        <4>. PICK m \in NlMsgs : m = EndMessage("ERROR", FALSE, verdict)
          BY AnswersTyped
        <4>1. <<m>> \in Seq(NlMsgs) /\ <<m>> # <<>>
          BY ONLY m \in NlMsgs
        <4>. QED BY <4>1 DEF NlGrams
      <3>4. nl_queue' = [nl_queue EXCEPT !["own"] = Append(@, e)]
        BY DEF AnswerSet
      <3>5. Append(nl_queue["own"], e) \in Seq(NlGrams)
        BY <1>0
      <3>. QED BY <1>0, <3>3, <3>4, <3>5 DEF AnswerSet
    <2>3. CASE \E ends \in Cuts(Len(Interfaces) + 1) : AnswerList(ends)
      <3>. PICK ends \in Cuts(Len(Interfaces) + 1) : AnswerList(ends)
        BY <2>3
      <3>. PICK n \in Nat : n = Len(Interfaces) + 1 /\ n > 0
        BY InterfacesThere
      <3>. PICK d : d = Datagrams(Listed, ends)
        OBVIOUS
      <3>1. d \in Seq(NlGrams)
        <4>1. Listed \in Seq(NlMsgs) /\ Len(Listed) = n
          BY ListedIs
        <4>2. Datagrams(Listed, ends) \in Seq(Seq(NlMsgs) \ {<<>>})
          BY <4>1, ListCut, Zenon
        <4>. QED BY <4>2, Zenon DEF NlGrams
      <3>. PICK q \in Seq(NlGrams) : q = nl_queue[nl.sock]
        BY <1>0
      <3>2. nl_queue' = [nl_queue EXCEPT ![nl.sock] = q \o d]
        BY DEF AnswerList, Listed
      <3>3. q \o d \in Seq(NlGrams)
        BY ONLY <3>1, q \in Seq(NlGrams)
      <3>4. nl_queue' \in [{"own", "kept"} -> Seq(NlGrams)]
        BY <1>0, <3>2, <3>3
      <3>. QED BY <1>0, <3>4 DEF AnswerList
    <2>. QED BY <1>2, <2>2, <2>3
  <1>3. \/ NlReturn("errno") /\ UNCHANGED <<nl_hooks, nl_queue, nl_truth>>
        \/ nl' = [nl EXCEPT !.pc = "recv"] /\ Answered
    <2>. HIDE DEF Answered
    <2>1. \A verdict \in {"0", "EBUSY"} : AnswerSet(verdict) => Answered
      BY DEF Answered
    <2>2. (\E ends \in Cuts(Len(Interfaces) + 1) : AnswerList(ends)) => Answered
      BY DEF Answered
    <2>. QED BY <2>1, <2>2, Zenon DEF NlSend
  <1>. HIDE DEF Answered
  <1>. QED BY <1>1, <1>2, <1>3

-----------------------------------------------------------------------------
(* The invariant.                                                          *)

LEMMA MessagesTyped ==
  ASSUME NEW S, NEW P \in Seq(Seq(S) \ {<<>>})
  PROVE  \A m \in MessagesOf(P) : m \in S
  <1>1. /\ DOMAIN P = 1 .. Len(P)
        /\ \A k \in 1 .. Len(P) : P[k] \in Seq(S) /\ DOMAIN P[k] = 1 .. Len(P[k])
        /\ \A m : m \in MessagesOf(P) <=> Stands(P, m)
    BY GramPlaces, Zenon
  <1>2. ASSUME NEW m, Stands(P, m) PROVE m \in S
    <2>. PICK k \in 1 .. Len(P) : \E j \in 1 .. Len(P[k]) : m = P[k][j]
      BY <1>2 DEF Stands
    <2>. PICK g \in Seq(S) : g = P[k]
      BY <1>1
    <2>. PICK j \in 1 .. Len(g) : m = g[j]
      OBVIOUS
    <2>. QED OBVIOUS
  <1>. QED BY <1>1, <1>2, Zenon

LEMMA NlStart == NlInit => NlInv
  <1>. SUFFICES ASSUME NlInit PROVE NlInv
    OBVIOUS
  <1>1. NlTypeOK
    <2>1. <<>> \in Seq(NlMsgs) /\ <<>> \in Seq(NlGrams)
      OBVIOUS
    <2>2. nl \in NlCalls /\ nl.pc = "idle"
      BY <2>1 DEF NlInit, NlIdle, NlCalls
    <2>3. nl_hooks \in [Range(Interfaces) -> Hooks]
      BY DEF NlInit, Hooks
    <2>4. nl_queue \in [{"own", "kept"} -> Seq(NlGrams)]
      BY <2>1 DEF NlInit
    <2>. QED BY <2>2, <2>3, <2>4 DEF NlInit, NlTypeOK
  <1>2. Sockets
    BY DEF NlInit, NlIdle, Sockets
  <1>3. LeftOver
    <2>1. nl_queue["kept"] = <<>> /\ nl.pc = "idle"
      BY DEF NlInit, NlIdle
    <2>2. MessagesOf(nl_queue["kept"]) = {}
      BY <2>1 DEF MessagesOf
    <2>. QED BY <2>1, <2>2 DEF LeftOver
  <1>4. Begun /\ Receives /\ Returned
    BY DEF NlInit, NlIdle, Begun, Receives, Returned, SetIsReported, ListingIsWhole, Ended
  <1>. QED BY <1>1, <1>2, <1>3, <1>4 DEF NlInv

\* A call may return, from where it holds its socket, with what it may tell its caller.
LEMMA NlReturnKeeps ==
  ASSUME NlInv, nl.pc \in {"open", "send", "recv", "message"}, NEW code, NlReturn(code),
         nl_queue' \in [{"own", "kept"} -> Seq(NlGrams)],
         \A m \in MessagesOf(nl_queue'["kept"]) : m \in MessagesOf(nl_queue["kept"]),
         UNCHANGED <<nl_hooks, nl_secs, nl_truth, nl_calls, nl_info, nl_left>>,
         nl.op = "get" /\ code = "0" => nl_info = TheInfo,
         nl.op = "set" => code \in {"errno", nl_truth.verdict},
         nl.sock = "kept" /\ code = "0" /\ nl.seq \notin nl_left => nl_seen' = Range(Interfaces)
  PROVE  NlInv'
  <1>1. NlTypeOK'
    BY ReturnTyped DEF NlInv
  <1>2. /\ nl'.pc = "idle" /\ nl'.op = nl.op /\ nl'.sock = nl.sock /\ nl'.seq = nl.seq
        /\ nl_ret' = code
        /\ nl_socks' = IF nl.sock = "own" THEN nl_socks \ {"own"} ELSE nl_socks
    BY DEF NlReturn, NlInv, NlTypeOK, NlCalls
  <1>3. Sockets'
    BY <1>2 DEF NlInv, Sockets
  <1>4. LeftOver'
    BY <1>2 DEF NlInv, LeftOver, OfAList
  <1>5. Begun' /\ Receives'
    BY <1>2 DEF Begun, Receives
  <1>6. Returned'
    <2>1. TheInfo' = TheInfo
      BY DEF TheInfo
    <2>2. SetIsReported' /\ ListingIsWhole'
      BY <1>2 DEF SetIsReported, ListingIsWhole, Ended
    <2>. QED BY <1>2, <2>1, <2>2 DEF Returned
  <1>. QED BY <1>1, <1>3, <1>4, <1>5, <1>6 DEF NlInv

\* A call that begins finds on the caller's socket what earlier ones have left there.
LEMMA NlBeginKeeps ==
  ASSUME NlInv, NEW what \in {"set", "get", "link", "class", "qdisc", "filter"},
         NEW sock \in {"own", "kept"}, NEW flags \in SUBSET LinkModes, NEW id \in Nat,
         NEW seq \in Nat, NEW pc \in {"idle", "open", "send"},
         BeginCall(what, sock, flags, id, seq, pc),
         (sock = "own") = (what \in {"set", "get"}), sock = "own" => pc \in {"idle", "open"},
         sock = "kept" => pc = "send", what = "set" => seq = 1,
         pc = "idle" => what = "get" /\ nl_ret' # "0"
  PROVE  NlInv'
  <1>1. /\ NlTypeOK'
        /\ nl' = [pc |-> pc, op |-> what, sock |-> sock, flags |-> flags, id |-> id, seq |-> seq,
                  buf |-> <<>>, multipart |-> TRUE]
    BY BeginTyped DEF NlInv
  <1>2. /\ nl.pc = "idle" /\ nl_calls' = nl_calls + 1 /\ nl_info' = NoInfo /\ nl_seen' = {}
        /\ nl_queue' = (IF sock = "own" THEN [nl_queue EXCEPT !["own"] = <<>>] ELSE nl_queue)
        /\ nl_left' = (IF sock = "own" THEN {}
                       ELSE {m.seq : m \in UNION {Range(d) : d \in Range(nl_queue["kept"])}})
        /\ nl_socks' = nl_socks
    BY DEF BeginCall
  <1>3. Sockets'
    <2>1. nl_socks' = {"kept"}
      BY <1>2 DEF NlInv, Sockets
    <2>. QED BY <1>1, <2>1 DEF Sockets
  <1>4. nl_queue'["kept"] = nl_queue["kept"]
    BY <1>2 DEF NlInv, NlTypeOK
  <1>5. LeftOver'
    <2>. PICK q : q = nl_queue["kept"]
      OBVIOUS
    <2>. PICK c \in Nat : c = nl_calls
      BY DEF NlInv, NlTypeOK
    <2>1. ASSUME NEW m \in MessagesOf(q)
          PROVE  OfAList(m) /\ m.call <= c + 1 /\ m.call < c + 1
      <3>1. OfAList(m) /\ m.call <= c
        BY DEF NlInv, LeftOver
      <3>2. m \in NlMsgs
        BY ToReadIs, MessagesTyped DEF NlInv
      <3>3. m.call \in Nat
        BY <3>2 DEF NlMsgs
      <3>4. m.call <= c + 1 /\ m.call < c + 1
        BY ONLY <3>1, <3>3, c \in Nat
      <3>. QED BY <3>1, <3>4
    <2>2. ASSUME NEW m \in MessagesOf(q), sock = "kept" PROVE m.seq \in nl_left'
      <3>1. m \in UNION {Range(d) : d \in Range(q)}
        <4>. PICK k \in DOMAIN q : m \in Range(q[k])
          BY DEF MessagesOf
        <4>1. q[k] \in Range(q)
          BY Zenon DEF Range
        <4>. QED BY <4>1, Zenon
      <3>. QED BY <1>2, <2>2, <3>1
    <2>3. \A m : OfAList(m)' = OfAList(m)
      BY DEF OfAList
    <2>4. /\ nl_queue'["kept"] = q /\ nl_calls' = c + 1 /\ nl'.sock = sock /\ nl'.pc = pc
      BY <1>1, <1>2, <1>4
    <2>5. \A m \in MessagesOf(q) : sock = "kept" => IsOld(m)'
      BY <2>1, <2>2, <2>4 DEF IsOld, OfAList
    <2>. QED BY <2>1, <2>4, <2>5, Zenon DEF LeftOver, OfAList
  <1>6. Begun' /\ Receives'
    <2>1. sock = "own" => nl_queue'["own"] = <<>>
      BY <1>2 DEF NlInv, NlTypeOK
    <2>. QED BY <1>1, <1>2, <2>1 DEF Begun, Receives
  <1>7. Returned'
    BY <1>1 DEF Returned, SetIsReported, ListingIsWhole, Ended
  <1>. QED BY <1>1, <1>3, <1>5, <1>6, <1>7 DEF NlInv

\* The socket is there.
LEMMA NlOpenKeeps == ASSUME NlInv, libbpf_netlink_open PROVE NlInv'
  <1>1. /\ nl.pc = "open" /\ nl.sock = "own"
        /\ UNCHANGED <<nl_hooks, nl_secs, nl_queue, nl_info, nl_truth, nl_seen, nl_left, nl_calls>>
    BY DEF libbpf_netlink_open, NlInv, Sockets
  <1>2. CASE NlReturn("errno")
    <2>1. nl_queue' \in [{"own", "kept"} -> Seq(NlGrams)]
      BY <1>1 DEF NlInv, NlTypeOK
    <2>. QED BY <1>1, <1>2, <2>1, NlReturnKeeps
  <1>3. CASE nl_socks' = nl_socks \cup {"own"} /\ nl' = [nl EXCEPT !.pc = "send"]
    <2>1. nl' \in NlCalls
      BY <1>3 DEF NlInv, NlTypeOK, NlCalls
    <2>2. /\ nl'.pc = "send" /\ nl'.op = nl.op /\ nl'.sock = nl.sock /\ nl'.seq = nl.seq
          /\ nl'.multipart = nl.multipart
      BY <1>3 DEF NlInv, NlTypeOK, NlCalls
    <2>3. NlTypeOK'
      BY <1>1, <2>1, <2>2 DEF NlInv, NlTypeOK
    <2>4. Sockets'
      BY <1>1, <1>3, <2>2 DEF NlInv, Sockets
    <2>5. LeftOver' /\ Begun' /\ Receives' /\ Returned'
      BY <1>1, <2>2 DEF NlInv, LeftOver, Begun, Receives, Returned, OfAList
    <2>. QED BY <2>3, <2>4, <2>5 DEF NlInv
  <1>. QED BY <1>2, <1>3 DEF libbpf_netlink_open

\* The kernel's list joins what was left on the socket, and ends what is to be read.
LEMMA ListSent ==
  ASSUME NlInv, nl.pc = "send", nl.op # "set", nl' = [nl EXCEPT !.pc = "recv"],
         NEW ends \in Cuts(Len(Interfaces) + 1), AnswerList(ends),
         UNCHANGED <<nl_info, nl_seen, nl_left, nl_calls>>
  PROVE  ListComes' /\ \A m \in MessagesOf(nl_queue'["kept"]) : OfAList(m) /\ m.call <= nl_calls
  <1>. PICK n \in Nat : n = Len(Interfaces)
    BY InterfacesThere
  <1>1. NlTypeOK /\ nl.sock \in {"own", "kept"} /\ nl.multipart /\ nl_info = NoInfo /\ nl_seen = {}
    BY ToReadIs DEF NlInv, Begun
  <1>. PICK P \in Seq(Seq(NlMsgs) \ {<<>>}) : P = nl_queue[nl.sock]
    BY <1>1, ToReadIs
  <1>. PICK e : e = EndMessage("DONE", TRUE, "0")
    OBVIOUS
  <1>. PICK list \in Seq(NlMsgs) :
         /\ list = Listed /\ Len(list) = n + 1 /\ list[n + 1] = e
         /\ \A i \in 1 .. n : list[i] = ListMessage(i)
    BY <1>1, ListedIs
  <1>. PICK Q \in Seq(Seq(NlMsgs) \ {<<>>}) :
         /\ Q = Datagrams(list, ends) /\ Q # <<>> /\ LastOf(Q) = list[n + 1]
         /\ \A m : m \in MessagesOf(Q) <=> \E i \in 1 .. n + 1 : m = list[i]
         /\ \A m : (\A i \in 1 .. (n + 1) - 1 : list[i] # m) => OnlyLast(Q, m)
    <2>. PICK k \in Nat : k = n + 1 /\ k = Len(list) /\ k > 0 /\ ends \in Cuts(k)
      OBVIOUS
    <2>1. /\ Datagrams(list, ends) \in Seq(Seq(NlMsgs) \ {<<>>}) /\ Datagrams(list, ends) # <<>>
          /\ LastOf(Datagrams(list, ends)) = list[k]
          /\ \A m : m \in MessagesOf(Datagrams(list, ends)) <=> \E i \in 1 .. k : m = list[i]
          /\ \A m : (\A i \in 1 .. k - 1 : list[i] # m) => OnlyLast(Datagrams(list, ends), m)
      <3>1. list \in Seq(NlMsgs) /\ k \in Nat /\ k = Len(list) /\ k > 0 /\ ends \in Cuts(k)
        OBVIOUS
      <3>. QED BY ONLY <3>1, ListCut, ZenonT(60)
    <2>2. k = n + 1
      OBVIOUS
    <2>. QED BY ONLY <2>1, <2>2, Zenon
  <1>. PICK R \in Seq(Seq(NlMsgs) \ {<<>>}) :
         /\ R = P \o Q /\ R # <<>> /\ LastOf(R) = LastOf(Q)
         /\ \A m : m \in MessagesOf(R) <=> m \in MessagesOf(P) \/ m \in MessagesOf(Q)
         /\ \A m : m \notin MessagesOf(P) /\ OnlyLast(Q, m) => OnlyLast(R, m)
    <2>1. /\ P \o Q \in Seq(Seq(NlMsgs) \ {<<>>}) /\ P \o Q # <<>>
          /\ LastOf(P \o Q) = LastOf(Q)
          /\ \A m : m \in MessagesOf(P \o Q) <=> m \in MessagesOf(P) \/ m \in MessagesOf(Q)
          /\ \A m : m \notin MessagesOf(P) /\ OnlyLast(Q, m) => OnlyLast(P \o Q, m)
      <3>1. Q # <<>>
        OBVIOUS
      <3>. QED BY ONLY <3>1, P \in Seq(Seq(NlMsgs) \ {<<>>}), Q \in Seq(Seq(NlMsgs) \ {<<>>}),
                       GramsAppended, ZenonT(60)
    <2>. QED BY <2>1, Zenon
  <1>2. /\ nl'.pc = "recv" /\ nl'.op = nl.op /\ nl'.sock = nl.sock /\ nl'.seq = nl.seq
        /\ nl'.multipart
    BY <1>1 DEF NlTypeOK, NlCalls
  <1>3. nl_queue' = [nl_queue EXCEPT ![nl.sock] = R]
    BY DEF AnswerList, Listed
  <1>4. ToRead' = R
    BY <1>1, <1>2, <1>3 DEF ToRead, NlTypeOK
  <1>5. TheEnd' = e /\ \A k \in 1 .. n : TheItem(Interfaces[k])' = list[k]
    <2>1. TheEnd' = e
      BY <1>2 DEF TheEnd, EndMessage
    <2>2. nl_truth'.hooks = nl_hooks
      BY DEF AnswerList
    <2>3. ASSUME NEW k \in 1 .. n PROVE TheItem(Interfaces[k])' = ListMessage(k)
      BY <1>2, <2>2 DEF TheItem, ListMessage
    <2>. QED BY <2>1, <2>3
  <1>6. \A m \in MessagesOf(P) : OfAList(m) /\ m.call < nl_calls /\ nl.sock = "kept"
                                 /\ m.seq \in nl_left
    <2>1. CASE nl.sock = "own"
      <3>1. P = <<>>
        BY <2>1 DEF NlInv, Begun
      <3>. QED BY <3>1 DEF MessagesOf
    <2>2. CASE nl.sock = "kept"
      BY <2>2 DEF NlInv, LeftOver, IsOld
    <2>. QED BY <1>1, <2>1, <2>2
  <1>7. e \notin MessagesOf(P)
    <2>1. e.call = nl_calls /\ nl_calls \in Nat
      BY <1>1 DEF EndMessage, NlTypeOK
    <2>2. ~ (e.call < nl_calls)
      BY ONLY <2>1
    <2>. QED BY <1>6, <2>2
  <1>8. OnlyLast(R, e)
    <2>1. \A i \in 1 .. n : list[i] # e
      <3>1. e.type = "DONE"
        BY DEF EndMessage
      <3>2. \A i \in 1 .. n : ListMessage(i).type = "item"
        BY DEF ListMessage
      <3>. SUFFICES ASSUME NEW i \in 1 .. n, list[i] = e PROVE FALSE
        OBVIOUS
      <3>3. ListMessage(i) = e
        OBVIOUS
      <3>. QED BY <3>1, <3>2, <3>3
    <2>2. 1 .. (n + 1) - 1 = 1 .. n
      OBVIOUS
    <2>3. OnlyLast(Q, e)
      BY <2>1, <2>2, Zenon
    <2>. QED BY <1>7, <2>3, Zenon
  <1>9. \A m \in MessagesOf(R) : IsNew(m)' \/ IsOld(m)'
    <2>. SUFFICES ASSUME NEW m \in MessagesOf(R) PROVE IsNew(m)' \/ IsOld(m)'
      OBVIOUS
    <2>1. CASE m \in MessagesOf(P)
      BY <1>2, <1>6, <2>1 DEF IsOld, OfAList
    <2>2. CASE m \in MessagesOf(Q)
      <3>. PICK i \in 1 .. n + 1 : m = list[i]
        BY <2>2
      <3>1. CASE i = n + 1
        BY <1>5, <3>1 DEF IsNew
      <3>2. CASE i \in 1 .. n
        <4>1. m = TheItem(Interfaces[i])' /\ Interfaces[i] \in Range(Interfaces)
          BY <1>5, <3>2, InterfacesThere
        <4>. QED BY <4>1, Zenon DEF IsNew
      <3>. QED BY <3>1, <3>2
    <2>. QED BY <2>1, <2>2
  <1>10. \A i \in Range(Interfaces) : TheItem(i)' \in MessagesOf(R)
    <2>. SUFFICES ASSUME NEW i \in Range(Interfaces) PROVE TheItem(i)' \in MessagesOf(R)
      OBVIOUS
    <2>. PICK k \in 1 .. n : i = Interfaces[k]
      BY InterfacesThere
    <2>1. k \in 1 .. n + 1 /\ TheItem(i)' = list[k]
      BY <1>5
    <2>. QED BY <2>1
  <1>11. ListComes'
    <2>1. LastOf(R) = e
      OBVIOUS
    <2>2. nl_info' = NoInfo /\ nl_seen' = {}
      BY <1>1
    <2>3. /\ ToRead' # <<>> /\ LastOf(ToRead') = TheEnd' /\ OnlyLast(ToRead', TheEnd')
      BY <1>4, <1>5, <1>8, <2>1
    <2>4. \A m \in MessagesOf(ToRead') : IsNew(m)' \/ IsOld(m)'
      BY <1>4, <1>9
    <2>5. \A i \in Range(Interfaces) : Shown(i)' \/ TheItem(i)' \in MessagesOf(ToRead')
      BY <1>4, <1>10
    <2>. QED BY <1>2, <2>2, <2>3, <2>4, <2>5 DEF ListComes
  <1>12. \A m \in MessagesOf(nl_queue'["kept"]) : OfAList(m) /\ m.call <= nl_calls
    <2>1. CASE nl.sock = "own"
      <3>1. nl_queue'["kept"] = nl_queue["kept"]
        BY <1>1, <1>3, <2>1 DEF NlTypeOK
      <3>. QED BY <3>1 DEF NlInv, LeftOver
    <2>2. CASE nl.sock = "kept"
      <3>1. nl_queue'["kept"] = R
        BY <1>1, <1>3, <2>2 DEF NlTypeOK
      <3>. SUFFICES ASSUME NEW m \in MessagesOf(R) PROVE OfAList(m) /\ m.call <= nl_calls
        BY <3>1
      <3>2. CASE m \in MessagesOf(P)
        BY <2>2, <3>2 DEF NlInv, LeftOver
      <3>3. CASE m \in MessagesOf(Q)
        <4>. PICK i \in 1 .. n + 1 : m = list[i]
          BY <3>3
        <4>1. m = e \/ \E k \in 1 .. n : m = ListMessage(k)
          <5>1. i = n + 1 \/ i \in 1 .. n
            OBVIOUS
          <5>2. i \in 1 .. n => m = ListMessage(i)
            OBVIOUS
          <5>. QED BY <5>1, <5>2
        <4>2. OfAList(m) /\ m.call = nl_calls
          BY <4>1 DEF EndMessage, ListMessage, OfAList
        <4>3. nl_calls <= nl_calls
          BY <1>1 DEF NlTypeOK
        <4>. QED BY <4>2, <4>3
      <3>. QED BY <3>2, <3>3
    <2>. QED BY <1>1, <2>1, <2>2
  <1>. QED BY <1>11, <1>12

\* The request is sent, and answered.
LEMMA NlSendKeeps == ASSUME NlInv, NlSend PROVE NlInv'
  <1>1. /\ nl.pc = "send" /\ NlTypeOK /\ (nl.op = "set" => nl.sock = "own" /\ nl.seq = 1)
        /\ UNCHANGED <<nl_secs, nl_info, nl_seen, nl_left, nl_calls>>
        /\ nl.multipart /\ nl.op # "none"
    BY DEF NlSend, NlInv, Sockets, Begun
  <1>2. NlTypeOK'
    BY <1>1, SendTyped
  <1>3. CASE NlReturn("errno") /\ UNCHANGED <<nl_hooks, nl_queue, nl_truth>>
    <2>1. nl_queue' \in [{"own", "kept"} -> Seq(NlGrams)]
      BY <1>2 DEF NlTypeOK
    <2>. QED BY <1>1, <1>3, <2>1, NlReturnKeeps
  <1>4. ASSUME nl' = [nl EXCEPT !.pc = "recv"], UNCHANGED <<nl_ret, nl_socks>>,
               \A m \in MessagesOf(nl_queue'["kept"]) : OfAList(m) /\ m.call <= nl_calls,
               IF nl.op = "set" THEN VerdictComes' ELSE ListComes'
        PROVE  NlInv'
    <2>1. /\ nl'.pc = "recv" /\ nl'.op = nl.op /\ nl'.sock = nl.sock /\ nl'.seq = nl.seq
      BY <1>1, <1>4 DEF NlTypeOK, NlCalls
    <2>2. Sockets'
      BY <1>1, <1>4, <2>1 DEF NlInv, Sockets
    <2>3. LeftOver' /\ Begun' /\ Returned'
      BY <1>1, <1>4, <2>1 DEF LeftOver, Begun, Returned, OfAList
    <2>4. Receives'
      BY <1>1, <1>4, <2>1 DEF Receives
    <2>. QED BY <1>2, <2>2, <2>3, <2>4 DEF NlInv
  <1>5. ASSUME nl' = [nl EXCEPT !.pc = "recv"], UNCHANGED <<nl_ret, nl_socks>>, nl.op = "set",
               NEW verdict \in {"0", "EBUSY"}, AnswerSet(verdict)
        PROVE  NlInv'
    <2>1. nl_queue["own"] = <<>> /\ nl.sock = "own"
      BY <1>1, <1>5 DEF NlInv, Begun
    <2>2. /\ nl_queue' = [nl_queue EXCEPT !["own"] = Append(@, <<EndMessage("ERROR", FALSE, verdict)>>)]
          /\ nl_truth'.verdict = verdict
      BY <1>5 DEF AnswerSet
    <2>3. /\ nl'.pc = "recv" /\ nl'.sock = "own" /\ nl'.seq = nl.seq /\ nl'.multipart = TRUE
      BY <1>1, <1>5, <2>1 DEF NlTypeOK, NlCalls
    <2>4. TheVerdict' = EndMessage("ERROR", FALSE, verdict)
      BY <1>1, <2>2, <2>3 DEF TheVerdict, EndMessage
    <2>5. ToRead' = <<<<TheVerdict'>>>>
      <3>1. nl_queue'["own"] = Append(<<>>, <<TheVerdict'>>)
        BY <1>1, <2>1, <2>2, <2>4 DEF NlTypeOK
      <3>2. \A x : Append(<<>>, x) = <<x>>
        OBVIOUS
      <3>. QED BY <2>3, <3>1, <3>2 DEF ToRead
    <2>6. VerdictComes'
      BY <2>3, <2>5 DEF VerdictComes
    <2>7. nl_queue'["kept"] = nl_queue["kept"]
      BY <1>1, <2>2 DEF NlTypeOK
    <2>8. \A m \in MessagesOf(nl_queue'["kept"]) : OfAList(m) /\ m.call <= nl_calls
      BY <2>7 DEF NlInv, LeftOver
    <2>. QED BY <1>4, <1>5, <2>6, <2>8
  <1>6. ASSUME nl' = [nl EXCEPT !.pc = "recv"], UNCHANGED <<nl_ret, nl_socks>>, nl.op # "set",
               NEW ends \in Cuts(Len(Interfaces) + 1), AnswerList(ends)
        PROVE  NlInv'
    BY <1>1, <1>4, <1>6, ListSent
  <1>7. \/ NlReturn("errno") /\ UNCHANGED <<nl_hooks, nl_queue, nl_truth>>
        \/ /\ nl' = [nl EXCEPT !.pc = "recv"] /\ UNCHANGED <<nl_ret, nl_socks>>
           /\ \/ nl.op = "set" /\ AnswerSet("0")
              \/ nl.op = "set" /\ AnswerSet("EBUSY")
              \/ nl.op # "set" /\ \E ends \in Cuts(Len(Interfaces) + 1) : AnswerList(ends)
    BY Zenon DEF NlSend
  <1>. QED BY <1>3, <1>5, <1>6, <1>7

\* The next datagram comes into the buffer.
LEMMA NlRecvKeeps == ASSUME NlInv, NlRecv PROVE NlInv'
  <1>1. /\ nl.pc = "recv" /\ NlTypeOK /\ nl.op # "none"
        /\ UNCHANGED <<nl_hooks, nl_secs, nl_info, nl_truth, nl_seen, nl_left, nl_calls>>
        /\ IF nl.op = "set" THEN VerdictComes ELSE ListComes
    BY DEF NlRecv, NlInv, Receives
  <1>2. CASE ~ nl.multipart /\ NlReturn("0") /\ UNCHANGED nl_queue
    <2>1. nl.op = "set" /\ nl_truth.verdict = "0"
      BY <1>1, <1>2 DEF ListComes, VerdictComes
    <2>2. nl.sock = "own"
      BY <2>1 DEF NlInv, Sockets
    <2>3. nl_queue' \in [{"own", "kept"} -> Seq(NlGrams)]
      BY <1>1, <1>2 DEF NlTypeOK
    <2>. QED BY <1>1, <1>2, <2>1, <2>2, <2>3, NlReturnKeeps
  <1>3. CASE NlReturn("errno") /\ UNCHANGED nl_queue
    <2>1. nl_queue' \in [{"own", "kept"} -> Seq(NlGrams)]
      BY <1>1, <1>3 DEF NlTypeOK
    <2>. QED BY <1>1, <1>3, <2>1, NlReturnKeeps
  <1>4. ASSUME nl.multipart, nl_queue[nl.sock] # <<>>,
               nl' = [nl EXCEPT !.pc = "message", !.buf = Head(nl_queue[nl.sock]), !.multipart = FALSE],
               nl_queue' = [nl_queue EXCEPT ![nl.sock] = Tail(@)], UNCHANGED <<nl_ret, nl_socks>>
        PROVE  NlInv'
    <2>. PICK q \in Seq(Seq(NlMsgs) \ {<<>>}) : q = nl_queue[nl.sock] /\ q # <<>>
      BY <1>1, <1>4, ToReadIs
    <2>. PICK h \in Seq(NlMsgs) : h = Head(q) /\ h # <<>>
      <3>1. Head(q) \in Seq(NlMsgs) \ {<<>>}
        BY ONLY q \in Seq(Seq(NlMsgs) \ {<<>>}), q # <<>>
      <3>. QED BY <3>1
    <2>. PICK t \in Seq(Seq(NlMsgs) \ {<<>>}) : t = Tail(q)
      <3>1. Tail(q) \in Seq(Seq(NlMsgs) \ {<<>>})
        BY ONLY q \in Seq(Seq(NlMsgs) \ {<<>>}), q # <<>>
      <3>. QED BY <3>1
    <2>1. <<h>> \o t = q
      BY ONLY q \in Seq(Seq(NlMsgs) \ {<<>>}), q # <<>>, h = Head(q), t = Tail(q)
    <2>2. nl' = [nl EXCEPT !.pc = "message", !.buf = h, !.multipart = FALSE]
      BY <1>4
    <2>3. /\ nl' \in NlCalls /\ nl'.pc = "message" /\ nl'.buf = h /\ nl'.multipart = FALSE
          /\ nl'.op = nl.op /\ nl'.sock = nl.sock /\ nl'.seq = nl.seq
      BY <1>1, <2>2 DEF NlTypeOK, NlCalls
    <2>4. nl_queue' = [nl_queue EXCEPT ![nl.sock] = t] /\ nl.sock \in {"own", "kept"}
      BY <1>1, <1>4, ToReadIs
    <2>5. nl_queue' \in [{"own", "kept"} -> Seq(NlGrams)] /\ nl_queue'[nl.sock] = t
      BY <1>1, <2>4 DEF NlTypeOK, NlGrams
    <2>6. NlTypeOK'
      BY <1>1, <2>3, <2>5 DEF NlTypeOK
    <2>7. ToRead' = ToRead
      BY <1>1, <2>1, <2>3, <2>5 DEF ToRead
    <2>8. Sockets'
      BY <1>1, <1>4, <2>3 DEF NlInv, Sockets
    <2>9. \A m \in MessagesOf(nl_queue'["kept"]) : m \in MessagesOf(nl_queue["kept"])
      <3>1. CASE nl.sock = "own"
        BY <1>1, <2>4, <3>1 DEF NlTypeOK
      <3>2. CASE nl.sock = "kept"
        <4>. SUFFICES ASSUME NEW m \in MessagesOf(t) PROVE m \in MessagesOf(q)
          BY <2>5, <3>2
        <4>1. Stands(t, m)
          BY GramPlaces
        <4>. PICK k \in 1 .. Len(t) : \E j \in 1 .. Len(t[k]) : m = t[k][j]
          BY <4>1, Zenon DEF Stands
        <4>2. k + 1 \in 1 .. Len(q) /\ t[k] = q[k + 1]
          BY ONLY q \in Seq(Seq(NlMsgs) \ {<<>>}), q # <<>>, t = Tail(q), k \in 1 .. Len(t)
        <4>3. Stands(q, m)
          BY <4>2, Zenon DEF Stands
        <4>. QED BY <4>3, GramPlaces
      <3>. QED BY <2>4, <3>1, <3>2
    <2>10. LeftOver' /\ Begun' /\ Returned'
      BY <1>1, <2>3, <2>9 DEF NlInv, LeftOver, Begun, Returned, OfAList
    <2>11. TheEnd' = TheEnd /\ TheVerdict' = TheVerdict /\ TheInfo' = TheInfo
      BY <1>1, <2>3 DEF TheEnd, TheVerdict, TheInfo, EndMessage
    <2>12. \A i : TheItem(i)' = TheItem(i) /\ Shown(i)' = Shown(i)
      BY <1>1, <2>3, <2>11 DEF TheItem, Shown
    <2>13. \A m : (IsNew(m) \/ IsOld(m)) = (IsNew(m) \/ IsOld(m))'
      BY <1>1, <2>3, <2>11, <2>12 DEF IsNew, IsOld, OfAList
    <2>14. nl.op # "set" => ListComes'
      BY <1>1, <2>3, <2>7, <2>11, <2>12, <2>13 DEF ListComes
    <2>15. nl.op = "set" => VerdictComes'
      BY <1>1, <1>4, <2>3, <2>7, <2>11 DEF VerdictComes
    <2>16. Receives'
      BY <1>1, <2>3, <2>14, <2>15 DEF Receives
    <2>. QED BY <2>6, <2>8, <2>10, <2>16 DEF NlInv
  <1>. QED BY <1>2, <1>3, <1>4, Zenon DEF NlRecv

\* The next message of the buffer goes to nobody, to get_xdp_info or to the caller.
LEMMA NextKeeps ==
  ASSUME NlInv, nl.pc = "message", NextMessage(Head(nl.buf)),
         UNCHANGED <<nl_hooks, nl_secs, nl_queue, nl_truth, nl_left, nl_calls, nl_ret, nl_socks>>,
         nl.op = "set" => nl_truth.verdict = "0",
         nl.op # "set" => Head(nl.buf).multi /\ Head(nl.buf) # TheEnd,
         nl.op # "set" => nl_seen' \subseteq Range(Interfaces),
         nl.op = "get" => nl_info' \in {NoInfo, TheInfo},
         nl.op \notin {"set", "get"} => nl_seen \subseteq nl_seen',
         nl.op = "get" /\ nl_info = TheInfo => nl_info' = TheInfo,
         nl.op # "set" => \A i \in Range(Interfaces) :
           Head(nl.buf) = TheItem(i) =>
             IF nl.op = "get" THEN i = IfIndex => nl_info' = TheInfo ELSE i \in nl_seen'
  PROVE  NlInv'
  <1>. PICK P \in Seq(Seq(NlMsgs) \ {<<>>}) : P = ToRead /\ P # <<>>
    BY ToReadIs, BufferIsFirst DEF NlInv
  <1>1. NlTypeOK /\ NlTypeOK' /\ nl.op # "none" /\ (IF nl.op = "set" THEN VerdictComes ELSE ListComes)
    BY NextTyped DEF NlInv, Receives
  <1>. PICK m \in NlMsgs : m = Head(nl.buf) /\ m = P[1][1]
    BY <1>1, BufferIsFirst
  <1>2. /\ nl'.pc = (IF Len(nl.buf) > 1 THEN "message" ELSE "recv") /\ nl'.buf = Tail(nl.buf)
        /\ nl'.multipart = (nl.multipart \/ m.multi)
        /\ nl'.op = nl.op /\ nl'.sock = nl.sock /\ nl'.seq = nl.seq
    BY <1>1 DEF NextMessage, NlTypeOK, NlCalls
  <1>3. ToRead' = RestOf(P)
    <2>1. P[1] = nl.buf /\ Tail(P) = nl_queue[nl.sock]
      BY <1>1, BufferIsFirst
    <2>. QED BY <1>2, <2>1 DEF ToRead, RestOf
  <1>4. Sockets' /\ LeftOver' /\ Begun' /\ Returned'
    BY <1>1, <1>2 DEF NlInv, Sockets, LeftOver, Begun, Returned, OfAList
  <1>5. TheEnd' = TheEnd /\ TheVerdict' = TheVerdict /\ TheInfo' = TheInfo
    BY <1>2 DEF TheEnd, TheVerdict, TheInfo, EndMessage
  <1>6. \A i : TheItem(i)' = TheItem(i)
    BY <1>2 DEF TheItem
  <1>7. \A a : (IsNew(a) \/ IsOld(a)) = (IsNew(a) \/ IsOld(a))'
    BY <1>2, <1>5, <1>6 DEF IsNew, IsOld, OfAList
  <1>8. CASE nl.op = "set"
    <2>1. P = <<<<TheVerdict>>>> /\ nl.multipart = FALSE
      BY <1>1, <1>8 DEF VerdictComes, NlTypeOK, NlCalls
    <2>2. m = TheVerdict /\ nl.buf = <<TheVerdict>> /\ nl_queue[nl.sock] = <<>>
      <3>1. P[1] = nl.buf /\ Tail(P) = nl_queue[nl.sock]
        BY <1>1, BufferIsFirst
      <3>2. \A v : <<<<v>>>>[1] = <<v>> /\ <<v>>[1] = v /\ Tail(<<<<v>>>>) = <<>>
        OBVIOUS
      <3>. QED BY <2>1, <3>1, <3>2
    <2>3. m.multi = FALSE
      BY <2>2 DEF TheVerdict, EndMessage
    <2>4. nl'.pc = "recv" /\ nl'.multipart = FALSE
      <3>1. \A v : ~ (Len(<<v>>) > 1)
        OBVIOUS
      <3>. QED BY <1>2, <2>1, <2>2, <2>3, <3>1
    <2>5. VerdictComes'
      BY <1>8, <2>4 DEF VerdictComes
    <2>6. Receives'
      BY <1>1, <1>2, <1>8, <2>5 DEF Receives
    <2>. QED BY <1>1, <1>4, <2>6 DEF NlInv
  <1>9. CASE nl.op # "set"
    <2>. PICK R : R = RestOf(P)
      OBVIOUS
    <2>1. /\ \A a \in MessagesOf(R) : a \in MessagesOf(P)
          /\ \A a \in MessagesOf(P) : a = m \/ a \in MessagesOf(R)
          /\ R # <<>> => LastOf(R) = LastOf(P)
          /\ R = <<>> => m = LastOf(P)
          /\ \A a : OnlyLast(P, a) => OnlyLast(R, a)
      BY FirstRead, Zenon
    <2>2. /\ LastOf(P) = TheEnd /\ OnlyLast(P, TheEnd)
          /\ \A a \in MessagesOf(P) : IsNew(a) \/ IsOld(a)
          /\ \A i \in Range(Interfaces) : Shown(i) \/ TheItem(i) \in MessagesOf(P)
      BY <1>1, <1>9 DEF ListComes
    <2>3. R # <<>> /\ LastOf(R) = TheEnd /\ OnlyLast(R, TheEnd)
      BY <1>9, <2>1, <2>2
    <2>4. \A a \in MessagesOf(R) : IsNew(a)' \/ IsOld(a)'
      BY <1>7, <2>1, <2>2
    <2>5. ASSUME NEW i \in Range(Interfaces) PROVE Shown(i)' \/ TheItem(i) \in MessagesOf(R)
      <3>1. CASE Shown(i)
        BY <1>1, <1>2, <1>5, <1>9, <3>1 DEF Shown
      <3>2. CASE m = TheItem(i)
        BY <1>2, <1>5, <1>9, <3>2 DEF Shown
      <3>. QED BY <2>1, <2>2, <3>1, <3>2
    <2>6. nl'.multipart = TRUE
      BY <1>1, <1>2, <1>9 DEF NlTypeOK, NlCalls
    <2>7. ListComes'
      BY <1>2, <1>3, <1>5, <1>6, <1>9, <2>3, <2>4, <2>5, <2>6 DEF ListComes
    <2>8. Receives'
      BY <1>1, <1>2, <1>9, <2>7 DEF Receives
    <2>. QED BY <1>1, <1>4, <2>8 DEF NlInv
  <1>. QED BY <1>8, <1>9

\* One message of the datagram.
LEMMA NlMessageKeeps == ASSUME NlInv, NlMessage PROVE NlInv'
  <1>1. /\ nl.pc = "message" /\ NlTypeOK /\ nl.op # "none"
        /\ UNCHANGED <<nl_hooks, nl_secs, nl_queue, nl_truth, nl_left, nl_calls>>
        /\ nl_queue' \in [{"own", "kept"} -> Seq(NlGrams)]
        /\ (nl.sock = "own") = (nl.op \in {"none", "set", "get"})
        /\ IF nl.op = "set" THEN VerdictComes ELSE ListComes
    BY DEF NlMessage, NlInv, Receives, Sockets, NlTypeOK
  <1>. PICK P \in Seq(Seq(NlMsgs) \ {<<>>}) : P = ToRead /\ P # <<>>
    BY <1>1, ToReadIs, BufferIsFirst
  <1>. PICK m \in NlMsgs : m = Head(nl.buf) /\ m = P[1][1]
    BY <1>1, BufferIsFirst
  <1>2. nl.seq \in Nat /\ nl_calls \in Nat /\ nl.sock \in {"own", "kept"}
    BY <1>1 DEF NlTypeOK, NlCalls
  <1>3. CASE nl.op = "set"
    <2>1. m = TheVerdict
      <3>1. P = <<<<TheVerdict>>>>
        BY <1>1, <1>3 DEF VerdictComes
      <3>2. \A v : <<<<v>>>>[1] = <<v>> /\ <<v>>[1] = v
        OBVIOUS
      <3>. QED BY <3>1, <3>2
    <2>2. m.type = "ERROR" /\ m.seq = nl.seq /\ m.error = nl_truth.verdict
      BY <2>1 DEF TheVerdict, EndMessage
    <2>3. CASE m.error = "0"
      <3>1. NextMessage(m) /\ UNCHANGED <<nl_ret, nl_socks>> /\ UNCHANGED <<nl_info, nl_seen>>
        BY <1>1, <2>2, <2>3 DEF NlMessage
      <3>. QED BY <1>1, <1>3, <2>2, <2>3, <3>1, NextKeeps
    <2>4. CASE m.error # "0"
      <3>1. NlReturn(m.error) /\ UNCHANGED <<nl_info, nl_seen>>
        BY <1>1, <2>2, <2>4 DEF NlMessage
      <3>. QED BY <1>1, <1>3, <2>2, <3>1, NlReturnKeeps
    <2>. QED BY <2>3, <2>4
  <1>4. CASE nl.op # "set"
    <2>1. /\ m \in MessagesOf(P) /\ (OnlyLast(P, m) => RestOf(P) = <<>>)
          /\ \A a \in MessagesOf(P) : a = m \/ a \in MessagesOf(RestOf(P))
      BY FirstRead, Zenon
    <2>2. /\ OnlyLast(P, TheEnd) /\ (IsNew(m) \/ IsOld(m))
          /\ \A i \in Range(Interfaces) : Shown(i) \/ TheItem(i) \in MessagesOf(P)
          /\ nl_seen \subseteq Range(Interfaces)
          /\ (nl.op = "get" => nl_info \in {NoInfo, TheInfo})
      BY <1>1, <1>4, <2>1 DEF ListComes
    <2>3. /\ TheEnd.type = "DONE" /\ TheEnd.seq = nl.seq /\ OfAList(TheEnd)
          /\ \A i : /\ TheItem(i).type = "item" /\ TheItem(i).seq = nl.seq /\ TheItem(i).ifi = i
                    /\ TheItem(i).call = nl_calls /\ OfAList(TheItem(i))
                    /\ TheItem(i).attrs = XdpAttrs(nl_truth.hooks[i])
      BY DEF TheEnd, TheItem, EndMessage, OfAList
    <2>4. OfAList(m)
      BY <2>2, <2>3 DEF IsNew, IsOld
    <2>5. CASE m.seq # nl.seq
      <3>1. NlReturn("INVSEQ") /\ UNCHANGED <<nl_info, nl_seen>>
        BY <1>1, <2>5 DEF NlMessage
      <3>. QED BY <1>1, <1>4, <3>1, NlReturnKeeps
    <2>6. CASE m.seq = nl.seq /\ m.type = "DONE"
      <3>1. NlReturn("0") /\ UNCHANGED <<nl_info, nl_seen>>
        BY <1>1, <2>4, <2>6 DEF NlMessage, OfAList
      <3>2. ASSUME IsNew(m) PROVE \A i \in Range(Interfaces) : Shown(i)
        <4>1. m = TheEnd
          BY <2>3, <2>6, <3>2 DEF IsNew
        <4>2. RestOf(P) = <<>>
          BY <2>1, <2>2, <4>1
        <4>3. MessagesOf(RestOf(P)) = {}
          BY <4>2 DEF MessagesOf
        <4>4. \A i : TheItem(i) # m
          BY <2>3, <4>1
        <4>. QED BY <2>1, <2>2, <4>3, <4>4
      <3>3. nl.op = "get" => nl_info = TheInfo
        <4>. SUFFICES ASSUME nl.op = "get" PROVE nl_info = TheInfo
          OBVIOUS
        <4>1. IsNew(m)
          BY <1>1, <2>2 DEF IsOld
        <4>. QED BY <3>2, <4>1, InterfacesThere DEF Shown
      <3>4. nl.sock = "kept" /\ nl.seq \notin nl_left => nl_seen = Range(Interfaces)
        <4>. SUFFICES ASSUME nl.sock = "kept", nl.seq \notin nl_left
                      PROVE  Range(Interfaces) \subseteq nl_seen
          BY <2>2
        <4>1. IsNew(m) /\ nl.op # "get"
          BY <1>1, <2>2, <2>6 DEF IsOld
        <4>. QED BY <3>2, <4>1 DEF Shown
      <3>. QED BY <1>1, <1>4, <3>1, <3>3, <3>4, NlReturnKeeps
    <2>7. CASE m.seq = nl.seq /\ m.type = "item" /\ nl.op = "get"
      <3>1. NextMessage(m) /\ nl_info' = get_xdp_info(nl_info, m) /\ UNCHANGED <<nl_ret, nl_socks, nl_seen>>
        BY <1>1, <2>7 DEF NlMessage, Callback
      <3>. PICK i \in Range(Interfaces) : m = TheItem(i)
        BY <1>1, <2>2, <2>3, <2>7 DEF IsNew, IsOld
      <3>. PICK hook \in Hooks : hook = nl_truth.hooks[i]
        BY <1>1 DEF NlTypeOK
      <3>2. m.ifi = i /\ m.attrs = XdpAttrs(hook)
        BY <2>3
      <3>3. i = IfIndex => nl_info' = TheInfo
        <4>. SUFFICES ASSUME i = IfIndex PROVE nl_info' = TheInfo
          OBVIOUS
        <4>1. TheInfo = InfoOf(hook)
          BY DEF TheInfo
        <4>2. nl_info \in {NoInfo, InfoOf(hook)}
          BY <2>2, <2>7, <4>1
        <4>. PICK old \in {NoInfo, InfoOf(hook)} : old = nl_info
          BY <4>2
        <4>3. get_xdp_info(old, m) = InfoOf(hook)
          BY <3>2, InfoFound
        <4>. QED BY <3>1, <4>1, <4>3
      <3>4. i # IfIndex => nl_info' = nl_info
        <4>. SUFFICES ASSUME i # IfIndex PROVE get_xdp_info(nl_info, m) = nl_info
          BY <3>1
        <4>. PICK old : old = nl_info
          OBVIOUS
        <4>1. get_xdp_info(old, m) = old
          BY <3>2, OtherInterface
        <4>. QED BY <4>1
      <3>5. nl_info' \in {NoInfo, TheInfo} /\ (nl_info = TheInfo => nl_info' = TheInfo)
        BY <2>2, <2>7, <3>3, <3>4
      <3>6. ASSUME NEW j \in Range(Interfaces), m = TheItem(j) PROVE j = i
        <4>1. TheItem(j).ifi = j
          BY <2>3
        <4>. QED BY <3>2, <3>6, <4>1
      <3>7. m.multi /\ m # TheEnd
        BY <2>3, <2>4, <2>7 DEF OfAList
      <3>8. nl_seen' \subseteq Range(Interfaces)
        BY <2>2, <3>1
      <3>9. \A j \in Range(Interfaces) :
               Head(nl.buf) = TheItem(j) =>
                 IF nl.op = "get" THEN j = IfIndex => nl_info' = TheInfo ELSE j \in nl_seen'
        BY <2>7, <3>3, <3>6
      <3>. QED BY <1>1, <1>4, <2>7, <3>1, <3>5, <3>7, <3>8, <3>9, NextKeeps
    <2>8. CASE m.seq = nl.seq /\ m.type = "item" /\ nl.op # "get"
      <3>1. /\ nl_seen' = (IF m.call = nl_calls THEN nl_seen \cup {m.ifi} ELSE nl_seen)
            /\ UNCHANGED nl_info
            /\ \/ NextMessage(m) /\ UNCHANGED <<nl_ret, nl_socks>>
               \/ NlReturn("stopped")
        BY <1>1, <1>4, <2>8 DEF NlMessage, Callback
      <3>2. m.call = nl_calls => \E i \in Range(Interfaces) : m = TheItem(i)
        <4>. SUFFICES ASSUME m.call = nl_calls PROVE \E i \in Range(Interfaces) : m = TheItem(i)
          OBVIOUS
        <4>1. ~ (m.call < nl_calls)
          BY <1>2
        <4>2. IsNew(m)
          BY <2>2, <4>1 DEF IsOld
        <4>. QED BY <2>3, <2>8, <4>2 DEF IsNew
      <3>3. nl_seen' \subseteq Range(Interfaces) /\ nl_seen \subseteq nl_seen'
        BY <2>2, <2>3, <3>1, <3>2
      <3>4. \A i \in Range(Interfaces) : m = TheItem(i) => i \in nl_seen'
        BY <2>3, <3>1
      <3>5. m.multi /\ m # TheEnd
        BY <2>3, <2>4, <2>8 DEF OfAList
      <3>6. CASE NextMessage(m) /\ UNCHANGED <<nl_ret, nl_socks>>
        BY <1>1, <1>4, <2>8, <3>1, <3>3, <3>4, <3>5, <3>6, NextKeeps
      <3>7. CASE NlReturn("stopped")
        BY <1>1, <1>4, <2>8, <3>1, <3>7, NlReturnKeeps
      <3>. QED BY <3>1, <3>6, <3>7
    <2>9. m.type \in {"item", "DONE"}
      BY <2>4 DEF OfAList
    <2>. QED BY <2>5, <2>6, <2>7, <2>8, <2>9
  <1>. QED BY <1>3, <1>4

\* Time passes between two calls.
LEMMA NlTickKeeps == ASSUME NlInv, NlTick PROVE NlInv'
  <1>1. /\ nl.pc = "idle" /\ nl_secs' = nl_secs + 1
        /\ UNCHANGED <<nl_hooks, nl_socks, nl_queue, nl, nl_info, nl_ret, nl_truth, nl_seen, nl_left,
                       nl_calls>>
    BY DEF NlTick
  <1>2. NlTypeOK'
    BY <1>1 DEF NlInv, NlTypeOK
  <1>3. Sockets' /\ LeftOver' /\ Begun' /\ Receives'
    BY <1>1 DEF NlInv, Sockets, LeftOver, Begun, Receives, OfAList
  <1>4. Returned'
    BY <1>1 DEF NlInv, Returned, TheInfo, SetIsReported, ListingIsWhole, Ended
  <1>. QED BY <1>2, <1>3, <1>4 DEF NlInv

LEMMA NlStep == NlInv /\ [NlNext]_nlVars => NlInv'
  <1>. SUFFICES ASSUME NlInv, [NlNext]_nlVars PROVE NlInv'
    OBVIOUS
  <1>0. nl_secs \in Nat /\ 0 \in Nat /\ 1 \in Nat /\ {} \in SUBSET LinkModes
    BY DEF NlInv, NlTypeOK
  <1>1. CASE \E id \in Ids \cup {0}, flags \in {{}} \cup {{m} : m \in LinkModes} :
               bpf_set_link_xdp_fd(id, flags)
    <2>. PICK id \in Ids \cup {0}, flags \in {{}} \cup {{m} : m \in LinkModes} :
           bpf_set_link_xdp_fd(id, flags)
      BY <1>1
    <2>1. id \in Nat /\ flags \in SUBSET LinkModes
      BY InterfacesThere
    <2>2. BeginCall("set", "own", flags, id, 1, "open")
      BY DEF bpf_set_link_xdp_fd
    <2>. QED BY <1>0, <2>1, <2>2, NlBeginKeeps
  <1>2. CASE \E flags \in SUBSET LinkModes : bpf_get_link_xdp_info(flags)
    <2>. PICK flags \in SUBSET LinkModes : bpf_get_link_xdp_info(flags)
      BY <1>2
    <2>1. CASE BeginCall("get", "own", flags, 0, nl_secs, "idle") /\ nl_ret' = "EINVAL"
      BY <1>0, <2>1, NlBeginKeeps
    <2>2. CASE BeginCall("get", "own", flags, 0, nl_secs, "open") /\ nl_ret' = "none"
      BY <1>0, <2>2, NlBeginKeeps
    <2>. QED BY <2>1, <2>2 DEF bpf_get_link_xdp_info
  <1>3. CASE libbpf_nl_get_link \/ libbpf_nl_get_class \/ libbpf_nl_get_qdisc \/ libbpf_nl_get_filter
    <2>. PICK what \in {"link", "class", "qdisc", "filter"} : nl_list(what)
      BY <1>3 DEF libbpf_nl_get_link, libbpf_nl_get_class, libbpf_nl_get_qdisc, libbpf_nl_get_filter
    <2>1. BeginCall(what, "kept", {}, 0, nl_secs, "send")
      BY DEF nl_list
    <2>. QED BY <1>0, <2>1, NlBeginKeeps
  <1>4. CASE libbpf_netlink_open
    BY <1>4, NlOpenKeeps
  <1>5. CASE NlSend
    BY <1>5, NlSendKeeps
  <1>6. CASE NlRecv
    BY <1>6, NlRecvKeeps
  <1>7. CASE NlMessage
    BY <1>7, NlMessageKeeps
  <1>8. CASE NlTick
    BY <1>8, NlTickKeeps
  <1>9. CASE UNCHANGED nlVars
    <2>1. NlTypeOK'
      BY <1>9 DEF NlInv, NlTypeOK, nlVars
    <2>2. Sockets' /\ LeftOver' /\ Begun'
      BY <1>9 DEF NlInv, Sockets, LeftOver, Begun, IsOld, OfAList, nlVars
    <2>3. Receives'
      BY <1>9 DEF NlInv, Receives, VerdictComes, ListComes, ToRead, TheVerdict, TheEnd, TheItem,
                  EndMessage, IsNew, IsOld, OfAList, Shown, TheInfo, nlVars
    <2>4. Returned'
      BY <1>9 DEF NlInv, Returned, TheInfo, SetIsReported, ListingIsWhole, Ended, nlVars
    <2>. QED BY <2>1, <2>2, <2>3, <2>4 DEF NlInv
  <1>. QED BY <1>1, <1>2, <1>3, <1>4, <1>5, <1>6, <1>7, <1>8, <1>9 DEF NlNext

\* An id is what InfoOf says of the hooks.
LEMMA IdIsFresh ==
  ASSUME NEW hook \in Hooks, NEW flags \in SUBSET LinkModes
  PROVE  get_xdp_id(InfoOf(hook), flags) =
           CASE Cardinality(Attached(hook)) = 1 -> hook[CHOOSE m \in Attached(hook) : TRUE]
             [] Cardinality(Attached(hook)) > 1 /\ flags # {} -> hook[CHOOSE m \in flags : TRUE]
             [] OTHER -> 0
  <1>. PICK c \in Nat : c = Cardinality(Attached(hook))
    BY ModesOfHook
  <1>. PICK mode : mode = ModeOf(hook)
    OBVIOUS
  <1>1. /\ c > 1 => mode = "MULTI"
        /\ c = 1 => mode \in LinkModes /\ mode = CHOOSE m \in Attached(hook) : TRUE
        /\ c = 0 => mode = "NONE"
    BY ModesOfHook DEF Attached
  <1>2. "MULTI" \notin LinkModes
    BY DEF LinkModes
  <1>. PICK info : info = InfoOf(hook)
    OBVIOUS
  <1>3. /\ info.attach_mode = mode /\ info.id_of = hook
        /\ info.prog_id = IF c = 1 THEN hook[mode] ELSE 0
    BY DEF InfoOf
  <1>4. get_xdp_id(info, flags) =
          IF mode # "MULTI" THEN (IF c = 1 THEN hook[mode] ELSE 0)
          ELSE IF flags = {} THEN 0 ELSE hook[CHOOSE m \in flags : TRUE]
    BY <1>3 DEF get_xdp_id
  <1>5. c = 0 \/ c = 1 \/ c > 1
    OBVIOUS
  <1>. QED BY <1>1, <1>2, <1>4, <1>5

\* Netlink.tla: under lost answers, refused requests, stale messages and programs that
\* come and go meanwhile, an id that bpf_get_link_xdp_id gives is one that the kernel
\* had, bpf_set_link_xdp_fd reports the kernel's verdict, a listing that ends is whole,
\* no call leaves its socket open, and bpf_netlink_recv never waits for nobody.
THEOREM AnswersAlwaysRight == NlSpec => []AnswersAreRight
  <1>1. NlInv => AnswersAreRight
    <2>. SUFFICES ASSUME NlInv PROVE AnswersAreRight
      OBVIOUS
    <2>1. GetIsFresh
      <3>. SUFFICES ASSUME nl.pc = "idle", nl.op = "get", nl_ret = "0"
                    PROVE  LET hook == nl_truth.hooks[IfIndex]
                               on == Attached(hook)
                           IN get_xdp_id(nl_info, nl.flags) =
                                CASE Cardinality(on) = 1 -> hook[CHOOSE m \in on : TRUE]
                                  [] Cardinality(on) > 1 /\ nl.flags # {} ->
                                       hook[CHOOSE m \in nl.flags : TRUE]
                                  [] OTHER -> 0
        BY DEF GetIsFresh, Ended
      <3>. PICK hook \in Hooks : hook = nl_truth.hooks[IfIndex]
        BY InterfacesThere DEF NlInv, NlTypeOK
      <3>. PICK flags \in SUBSET LinkModes : flags = nl.flags
        BY DEF NlInv, NlTypeOK, NlCalls
      <3>1. nl_info = InfoOf(hook)
        BY DEF NlInv, Returned, TheInfo
      <3>. QED BY <3>1, IdIsFresh
    <2>2. SetIsReported /\ ListingIsWhole
      BY DEF NlInv, Returned, SetIsReported, ListingIsWhole, Ended
    <2>3. SocketsClosed
      BY DEF NlInv, Sockets, SocketsClosed
    <2>4. NeverWaitsInVain
      <3>. SUFFICES ASSUME nl.pc = "recv", nl.multipart PROVE nl_queue[nl.sock] # <<>>
        BY DEF NeverWaitsInVain
      <3>1. ToRead = nl_queue[nl.sock]
        BY DEF ToRead
      <3>2. CASE nl.op = "set"
        <4>1. ToRead = <<<<TheVerdict>>>>
          BY <3>2 DEF NlInv, Receives, VerdictComes
        <4>2. \A v : <<v>> # <<>>
          OBVIOUS
        <4>. QED BY <3>1, <4>1, <4>2
      <3>3. CASE nl.op # "set"
        BY <3>1, <3>3 DEF NlInv, Receives, ListComes
      <3>. QED BY <3>2, <3>3
    <2>. QED BY <2>1, <2>2, <2>3, <2>4 DEF AnswersAreRight
  <1>. QED BY <1>1, NlStart, NlStep, PTL DEF NlSpec

-----------------------------------------------------------------------------
(* Object loading.                                                         *)

OlPcs == {"opened", "reuse", "create", "fill", "pin", "relocate", "progs", "done", "fail", "unloaded"}
OnMaps == {"reuse", "create", "fill", "pin"}
Linking == {"opened"} \cup OnMaps \cup {"relocate"}
AllMaps == 1 .. MapCount
AllProgs == 1 .. ProgCount

Code == [op : {"ld", "call", "exit"}, arg : Nat, imm : Int]
LoadedMap == [fd : BOOLEAN, id : Nat, pinned : BOOLEAN, reused : BOOLEAN, filled : BOOLEAN,
              frozen : BOOLEAN]

\* ObjectLoad.tla: what the variables are.
OlTypes ==
  /\ ol_progs \in ObjPrograms
  /\ ol \in [pc : OlPcs, i : Nat] /\ ol_loaded \in BOOLEAN
  /\ ol_map \in [AllMaps -> LoadedMap]
  /\ ol_insns \in [AllProgs -> Seq(Code)] /\ ol_kernel \in [AllProgs -> Seq(Code)]
  /\ ol_pins \in [AllMaps -> Nat] /\ ol_before \in [AllMaps -> Nat]

\* Where a call is: on a map of the object, on a program of it, and at its end.
OlPlace ==
  /\ ol.pc # "opened" => ol_loaded
  /\ ol.pc \in OnMaps => ol.i \in AllMaps
  /\ ol.pc \in {"relocate", "progs"} => ol.i \in AllProgs

\* The maps that the call has not come to, and those that it has finished.
Ahead(m) == \/ ol.pc = "opened"
            \/ ol.pc \in {"reuse", "create"} /\ m >= ol.i
            \/ ol.pc \in {"fill", "pin"} /\ m > ol.i
Finished(m) == (ol.pc \in OnMaps /\ m < ol.i) \/ ol.pc \in {"relocate", "progs", "done"}

\* The maps of .data and .rodata have the data of the file.
HasData(m) == ObjMaps[m].internal \in {"data", "rodata"} => ol_map[m].filled

\* The maps before the one at hand are made, and those after it are not.
OlMaps ==
  /\ \A m \in AllMaps : Ahead(m) => ol_map[m] = NewMap
  /\ ol.pc \in {"fill", "pin"} =>
       ol_map[ol.i].id = ol.i /\ ~ ol_map[ol.i].pinned /\ ~ ol_map[ol.i].reused
  /\ ol.pc = "pin" => HasData(ol.i)
  /\ \A m \in AllMaps : Finished(m) =>
       /\ ol_map[m].id # 0 /\ HasData(m)
       /\ ObjMaps[m].pin => ol_pins[m] = ol_map[m].id

\* A map that this load pinned is there where nothing was; the rest are as others
\* left them.
OlPinned ==
  /\ \A m \in AllMaps : IF ToUnpin(m) THEN ol_pins[m] = m /\ ol_before[m] = 0
                                      ELSE ol_pins[m] = ol_before[m]
  /\ ol_ret = "error" => ol.pc = "unloaded" /\ ol_pins = ol_before

\* The descriptors that can be open, by what opened them.
OlOpen ==
  \A d \in ol_open :
    \/ ol.pc # "unloaded" /\ \/ \E m \in AllMaps : d = <<"map", m>>
                             \/ \E p \in AllProgs : d = <<"prog", p>>
    \/ \E m \in AllMaps : d = <<"pin", m>> /\ ol_map[m].reused
    \/ ol.pc \in {"fail", "unloaded"} /\ \E m \in AllMaps : d = <<"lost", m>> /\ ~ ol_map[m].reused

Source(p) == ol_progs[p].insns
\* The instructions as the object file has them.
AsRead(p) == [k \in DOMAIN Source(p) |-> Compiled(Source(p)[k])]

\* From at on, the code has these instructions, and its loads have the maps.
HasPart(code, at, insns) ==
  \A k \in DOMAIN insns :
    /\ code[at + k].op = insns[k].op /\ code[at + k].arg = insns[k].arg
    /\ insns[k].op = "ld" => code[at + k].imm = ol_map[insns[k].arg].id

\* The code of a program after relocation: its own instructions, and .text after
\* them if it calls a function.
Linked(p, code) ==
  /\ code \in Seq(Code)
  /\ HasCall(p) => p # 1 /\ Text = {1} /\ ~ HasCall(1)
  /\ Len(code) = Len(Source(p)) + (IF HasCall(p) THEN Len(Source(1)) ELSE 0)
  /\ HasPart(code, 0, Source(p))
  /\ HasCall(p) => HasPart(code, Len(Source(p)), Source(1))
  /\ \A k \in DOMAIN Source(p) : Source(p)[k].op = "call" =>
       code[k].imm = Source(p)[k].arg - 1 + Len(Source(p)) - (k - 1)

\* The programs that relocation has passed are linked, and stay so until they are loaded.
OlCode ==
  /\ ol.pc \in {"opened"} \cup OnMaps => \A p \in AllProgs : ol_insns[p] = AsRead(p)
  /\ ol.pc = "relocate" => \A p \in AllProgs :
       IF p < ol.i THEN Linked(p, ol_insns[p]) ELSE ol_insns[p] = AsRead(p)
  /\ ol.pc = "progs" => \A p \in AllProgs : p >= ol.i => Linked(p, ol_insns[p])

\* Nothing is loaded before all is linked; what the kernel has is linked, and all the maps
\* were made by then.
OlKernel ==
  /\ ol.pc \in Linking => \A p \in AllProgs : ol_kernel[p] = <<>>
  /\ \A p \in AllProgs : ol_kernel[p] # <<>> =>
       /\ Linked(p, ol_kernel[p])
       /\ \A m \in AllMaps : ol_map[m].id # 0 /\ HasData(m)

\* The invariant.
OlInv == OlTypes /\ OlPlace /\ OlMaps /\ OlPinned /\ OlOpen /\ OlCode /\ OlKernel

-----------------------------------------------------------------------------
(* Sequences, and the code of programs.                                    *)

\* Sequences.
LEMMA SeqFacts ==
  ASSUME NEW S, NEW s \in Seq(S)
  PROVE  /\ Len(s) \in Nat /\ DOMAIN s = 1 .. Len(s)
         /\ \A k \in 1 .. Len(s) : s[k] \in S
         /\ s # <<>> => Len(s) # 0
  OBVIOUS

LEMMA Appended ==
  ASSUME NEW S, NEW s \in Seq(S), NEW t \in Seq(S)
  PROVE  /\ s \o t \in Seq(S) /\ Len(s \o t) = Len(s) + Len(t)
         /\ \A k \in 1 .. Len(s) : (s \o t)[k] = s[k]
         /\ \A k \in 1 .. Len(t) : (s \o t)[Len(s) + k] = t[k]
  OBVIOUS

\* Where a call goes: to the function at a in the copy of .text behind own instructions.
LEMMA CallArithmetic ==
  ASSUME NEW k \in Int, NEW own \in Nat, NEW a \in Nat, NEW n \in Nat, a < n,
         NEW imm \in Int, imm = a - 1 + own - (k - 1)
  PROVE  /\ (k - 1) + imm + 1 = own + a /\ (k - 1) + imm + 1 + 1 = own + (a + 1)
         /\ a + 1 \in 1 .. n
  OBVIOUS

\* The programs are what the compiler emits.
LEMMA OlPrograms ==
  ASSUME OlTypes
  PROVE  /\ MapCount \in Nat /\ ProgCount \in Nat /\ 1 \in AllProgs /\ AllMaps = DOMAIN ObjMaps
         /\ \A p \in AllProgs :
              /\ Source(p) \in Seq(Insns) /\ DOMAIN Source(p) = 1 .. Len(Source(p))
              /\ Len(Source(p)) \in Nat
              /\ \A k \in DOMAIN Source(p) :
                   /\ Source(p)[k] \in Insns
                   /\ Source(p)[k].op = "ld" => Source(p)[k].arg \in AllMaps
                   /\ Source(p)[k].op = "call" /\ Text = {1} => Source(p)[k].arg < Len(Source(1))
         /\ Text \subseteq {1}
  <1> DEFINE Sections == [sec : STRING, insns : Seq(Insns)]
  <1>1. AsCompiled(ol_progs)
    BY ObjectLoadAssumption DEF OlTypes
  <1>2. ol_progs \in Seq(Sections) /\ ol_progs # <<>>
    BY <1>1 DEF AsCompiled
  <1>3. /\ Len(ol_progs) \in Nat /\ DOMAIN ol_progs = 1 .. Len(ol_progs)
        /\ \A p \in 1 .. Len(ol_progs) : ol_progs[p] \in Sections
        /\ Len(ol_progs) # 0
    <2> HIDE DEF Sections
    <2> QED BY ONLY <1>2, SeqFacts
  <1>5. MapCount \in Nat /\ DOMAIN ObjMaps = AllMaps
    BY ObjectLoadAssumption DEF MapCount, AllMaps
  <1>6. ProgCount \in Nat /\ 1 \in AllProgs /\ AllProgs = DOMAIN ol_progs
    BY <1>3 DEF ProgCount, AllProgs
  <1>7. Text \subseteq {1}
    BY <1>1, <1>6 DEF Text, AsCompiled, AllProgs
  <1>8. Text = {1} => ol_progs[1].sec = ".text"
    BY DEF Text
  <1>9. ASSUME NEW p \in AllProgs
        PROVE  /\ Source(p) \in Seq(Insns) /\ DOMAIN Source(p) = 1 .. Len(Source(p))
               /\ Len(Source(p)) \in Nat
               /\ \A k \in DOMAIN Source(p) : Source(p)[k] \in Insns
    <2>1. Source(p) \in Seq(Insns)
      BY <1>3, <1>6 DEF Source
    <2> QED BY ONLY <2>1
  <1>10. ASSUME NEW p \in AllProgs, NEW k \in DOMAIN Source(p)
         PROVE  /\ Source(p)[k].op = "ld" => Source(p)[k].arg \in AllMaps
                /\ Source(p)[k].op = "call" /\ Text = {1} => Source(p)[k].arg < Len(Source(1))
    BY <1>1, <1>5, <1>6, <1>8 DEF AsCompiled, Source
  <1> QED BY <1>5, <1>6, <1>7, <1>9, <1>10

LEMMA AsReadTyped ==
  ASSUME OlTypes, NEW p \in AllProgs
  PROVE  /\ AsRead(p) \in Seq(Code) /\ DOMAIN AsRead(p) = DOMAIN Source(p)
         /\ Len(AsRead(p)) = Len(Source(p))
         /\ \A k \in DOMAIN Source(p) : AsRead(p)[k] = Compiled(Source(p)[k])
  <1> DEFINE n == Len(Source(p))
  <1>1. /\ n \in Nat /\ DOMAIN Source(p) = 1 .. n
        /\ \A k \in 1 .. n : Source(p)[k] \in Insns
    BY OlPrograms
  <1>2. \A k \in 1 .. n : Compiled(Source(p)[k]) \in Code
    BY <1>1 DEF Compiled, Insns, Code
  <1>3. AsRead(p) \in [1 .. n -> Code]
    BY <1>1, <1>2 DEF AsRead
  <1>4. AsRead(p) \in Seq(Code) /\ Len(AsRead(p)) = n
    <2> HIDE DEF n
    <2> QED BY ONLY <1>1, <1>3
  <1> QED BY <1>1, <1>4 DEF AsRead

\* Linked code stays linked while the maps keep their ids.
LEMMA LinkedStays ==
  ASSUME OlTypes, UNCHANGED ol_progs, \A m \in AllMaps : ol_map'[m].id = ol_map[m].id,
         NEW p \in AllProgs, NEW code, Linked(p, code)
  PROVE  Linked(p, code)'
  <1>1. /\ AllProgs' = AllProgs /\ AllMaps' = AllMaps /\ Text' = Text
        /\ \A q : Source(q)' = Source(q) /\ (HasCall(q)' <=> HasCall(q))
    BY DEF AllProgs, AllMaps, ProgCount, MapCount, Text, HasCall, Source
  <1>2. ASSUME NEW q \in AllProgs, NEW at, HasPart(code, at, Source(q))
        PROVE  HasPart(code, at, Source(q))'
    BY <1>1, <1>2, OlPrograms DEF HasPart
  <1>3. 1 \in AllProgs
    BY OlPrograms
  <1> QED BY <1>1, <1>2, <1>3 DEF Linked

\* Linked code has all its references resolved.
LEMMA LinkedIsResolved ==
  ASSUME OlTypes, NEW p \in AllProgs, NEW code, Linked(p, code),
         \A m \in AllMaps : ol_map[m].id # 0 /\ HasData(m)
  PROVE  Resolved(p, code)
  <1> DEFINE own == Len(Source(p))
             text == IF HasCall(p) THEN Len(Source(1)) ELSE 0
  <1>1. /\ own \in Nat /\ text \in Nat /\ 1 \in AllProgs
        /\ DOMAIN Source(p) = 1 .. own /\ DOMAIN Source(1) = 1 .. Len(Source(1))
    BY OlPrograms
  <1>2. DOMAIN code = 1 .. own + text
    <2>1. code \in Seq(Code) /\ Len(code) = own + text
      BY DEF Linked
    <2> QED BY ONLY <2>1
  <1>3. ASSUME NEW k \in 1 .. own
        PROVE  /\ code[k].op = Source(p)[k].op /\ code[k].arg = Source(p)[k].arg
               /\ code[k].op = "ld" => code[k].imm = ol_map[code[k].arg].id /\ code[k].arg \in AllMaps
               /\ code[k].op = "call" => code[k].imm = Source(p)[k].arg - 1 + own - (k - 1)
    <2>1. 0 + k = k
      OBVIOUS
    <2>2. /\ code[k].op = Source(p)[k].op /\ code[k].arg = Source(p)[k].arg
          /\ Source(p)[k].op = "ld" => code[k].imm = ol_map[Source(p)[k].arg].id
      BY <1>1, <2>1 DEF Linked, HasPart
    <2>3. Source(p)[k].op = "ld" => Source(p)[k].arg \in AllMaps
      BY <1>1, OlPrograms
    <2>4. Source(p)[k].op = "call" => code[k].imm = Source(p)[k].arg - 1 + own - (k - 1)
      BY <1>1 DEF Linked
    <2> QED BY <2>2, <2>3, <2>4
  <1>4. ASSUME HasCall(p), NEW j \in 1 .. Len(Source(1))
        PROVE  /\ code[own + j].op = Source(1)[j].op /\ code[own + j].arg = Source(1)[j].arg
               /\ code[own + j].op = "ld" =>
                    code[own + j].imm = ol_map[code[own + j].arg].id /\ code[own + j].arg \in AllMaps
               /\ code[own + j].op # "call"
    <2>1. /\ code[own + j].op = Source(1)[j].op /\ code[own + j].arg = Source(1)[j].arg
          /\ Source(1)[j].op = "ld" => code[own + j].imm = ol_map[Source(1)[j].arg].id
      BY <1>1, <1>4 DEF Linked, HasPart
    <2>2. Source(1)[j].op = "ld" => Source(1)[j].arg \in AllMaps
      BY <1>1, OlPrograms
    <2>3. Source(1)[j].op # "call"
      BY <1>1, <1>4 DEF Linked, HasCall, Source
    <2> QED BY <2>1, <2>2, <2>3
  <1>5. ASSUME NEW k \in DOMAIN code
        PROVE  /\ code[k].op = "ld" => code[k].imm = ol_map[code[k].arg].id /\ code[k].arg \in AllMaps
               /\ code[k].op = "call" => k \in 1 .. own
    <2>1. CASE k \in 1 .. own
      BY <1>3, <2>1
    <2>2. CASE k \notin 1 .. own
      <3>1. HasCall(p) /\ k - own \in 1 .. Len(Source(1)) /\ own + (k - own) = k
        BY <1>1, <1>2, <2>2
      <3> DEFINE j == k - own
      <3>2. /\ code[own + j].op = "ld" =>
                 code[own + j].imm = ol_map[code[own + j].arg].id /\ code[own + j].arg \in AllMaps
            /\ code[own + j].op # "call"
        <4> HIDE DEF j
        <4>1. j \in 1 .. Len(Source(1))
          BY <3>1 DEF j
        <4> QED BY <1>4, <3>1, <4>1
      <3> QED BY <3>1, <3>2
    <2> QED BY <2>1, <2>2
  <1>6. ASSUME NEW k \in DOMAIN code, code[k].op = "ld"
        PROVE  /\ code[k].imm = ol_map[code[k].arg].id /\ code[k].imm # 0
               /\ ObjMaps[code[k].arg].internal \in {"data", "rodata"} => ol_map[code[k].arg].filled
    BY <1>5, <1>6 DEF HasData
  <1>7. ASSUME NEW k \in DOMAIN code, code[k].op = "call"
        PROVE  LET target == (k - 1) + code[k].imm + 1
                   txt == ol_progs[CHOOSE t \in Text : TRUE].insns
               IN /\ target + 1 \in DOMAIN code
                  /\ target = Len(ol_progs[p].insns) + code[k].arg
                  /\ code[target + 1].arg = txt[code[k].arg + 1].arg
    <2>1. k \in 1 .. own
      BY <1>5, <1>7
    <2> DEFINE a == Source(p)[k].arg
               target == (k - 1) + code[k].imm + 1
    <2>2. code[k].arg = a /\ code[k].imm = a - 1 + own - (k - 1) /\ Source(p)[k].op = "call"
      BY <1>3, <1>7, <2>1
    <2>3. HasCall(p)
      BY <1>1, <2>1, <2>2 DEF HasCall, Source
    <2>4. Text = {1}
      BY <2>3 DEF Linked
    <2>5. a \in Nat /\ a < Len(Source(1)) /\ Len(Source(1)) \in Nat
      BY <1>1, <2>1, <2>2, <2>4, OlPrograms DEF Insns
    <2>6. target = own + a /\ target + 1 = own + (a + 1) /\ a + 1 \in 1 .. Len(Source(1))
      <3> DEFINE imm == code[k].imm
      <3>1. k \in Int /\ own \in Int /\ imm = a - 1 + own - (k - 1)
        BY <1>1, <2>1, <2>2
      <3>2. a \in Nat /\ a < Len(Source(1)) /\ Len(Source(1)) \in Nat
        BY <2>5
      <3>3. target = (k - 1) + imm + 1
        OBVIOUS
      <3>0. own \in Nat
        BY <1>1
      <3>4. imm \in Int
        <4> HIDE DEF a, own, imm
        <4> QED BY ONLY <3>1, <3>2
      <3> HIDE DEF a, own, imm
      <3>5. /\ (k - 1) + imm + 1 = own + a /\ (k - 1) + imm + 1 + 1 = own + (a + 1)
            /\ a + 1 \in 1 .. Len(Source(1))
        BY ONLY <3>0, <3>1, <3>2, <3>4, CallArithmetic
      <3> HIDE DEF target
      <3> QED BY <3>3, <3>5, Zenon
    <2>7. target + 1 \in DOMAIN code
      BY <1>1, <1>2, <2>3, <2>5, <2>6
    <2>8. code[target + 1].arg = Source(1)[a + 1].arg
      BY <1>4, <2>3, <2>6
    <2>9. (CHOOSE t \in Text : TRUE) = 1
      BY <2>4
    <2> QED BY <2>2, <2>6, <2>7, <2>8, <2>9 DEF Source
  <1> QED BY <1>6, <1>7 DEF Resolved

\* bpf_program__relocate links the code as read, once .text is linked.
LEMMA RelocatedLinks ==
  ASSUME OlTypes, NEW p \in AllProgs, ol_insns[p] = AsRead(p), p # 1 => Linked(1, ol_insns[1]),
         ~ (HasCall(p) /\ (p \in Text \/ Text = {}))
  PROVE  Linked(p, Relocated(p))
  <1> DEFINE n == Len(Source(p))
             own == WithMaps(ol_insns[p])
             linked == [k \in DOMAIN own |->
                          IF own[k].op = "call" THEN [own[k] EXCEPT !.imm = CallTarget(own[k], k, Len(own))]
                          ELSE own[k]]
             text == ol_insns[1]
  <1>1. /\ n \in Nat /\ 1 \in AllProgs /\ DOMAIN Source(p) = 1 .. n
        /\ DOMAIN Source(1) = 1 .. Len(Source(1)) /\ Len(Source(1)) \in Nat
        /\ \A k \in 1 .. n : Source(p)[k] \in Insns /\ (Source(p)[k].op = "ld" => Source(p)[k].arg \in AllMaps)
    BY OlPrograms
  <1>2. /\ DOMAIN ol_insns[p] = 1 .. n
        /\ \A k \in 1 .. n : ol_insns[p][k] = Compiled(Source(p)[k])
    BY <1>1, AsReadTyped
  <1>3. \A m \in AllMaps : ol_map[m].id \in Nat
    BY DEF OlTypes, LoadedMap
  <1>4. /\ DOMAIN own = 1 .. n /\ own \in [1 .. n -> Code]
        /\ \A k \in 1 .. n :
             /\ own[k].op = Source(p)[k].op /\ own[k].arg = Source(p)[k].arg
             /\ own[k].op = "ld" => own[k].imm = ol_map[own[k].arg].id
             /\ own[k].op = "call" => own[k].imm = own[k].arg - 1
    <2>1. DOMAIN own = 1 .. n
      BY <1>2 DEF WithMaps
    <2>2. ASSUME NEW k \in 1 .. n
          PROVE  /\ own[k] \in Code
                 /\ own[k].op = Source(p)[k].op /\ own[k].arg = Source(p)[k].arg
                 /\ own[k].op = "ld" => own[k].imm = ol_map[own[k].arg].id
                 /\ own[k].op = "call" => own[k].imm = own[k].arg - 1
      <3> DEFINE c == Compiled(Source(p)[k])
      <3>1. own[k] = IF c.op = "ld" THEN [c EXCEPT !.imm = ol_map[c.arg].id] ELSE c
        BY <1>2 DEF WithMaps
      <3>2. Source(p)[k] \in Insns /\ (Source(p)[k].op = "ld" => Source(p)[k].arg \in AllMaps)
        BY <1>1
      <3>3. /\ c \in Code /\ c.op = Source(p)[k].op /\ c.arg = Source(p)[k].arg
            /\ c.op = "call" => c.imm = c.arg - 1
        BY <3>2 DEF Compiled, Insns, Code
      <3>4. c.op = "ld" => ol_map[c.arg].id \in Nat
        BY <1>3, <3>2, <3>3
      <3> QED
        <4> HIDE DEF c
        <4> QED BY <3>1, <3>3, <3>4 DEF Code
    <2> QED BY <2>1, <2>2 DEF WithMaps
  <1>5. own \in Seq(Code) /\ Len(own) = n
    <2> HIDE DEF n, own
    <2> QED BY ONLY <1>1, <1>4
  <1>6. /\ DOMAIN linked = 1 .. n /\ linked \in [1 .. n -> Code]
        /\ \A k \in 1 .. n :
             /\ linked[k].op = Source(p)[k].op /\ linked[k].arg = Source(p)[k].arg
             /\ linked[k].op = "ld" => linked[k].imm = ol_map[linked[k].arg].id
             /\ linked[k].op = "call" => linked[k].imm = linked[k].arg - 1 + n - (k - 1)
    <2> HIDE DEF n, own
    <2>1. ASSUME NEW k \in 1 .. n
          PROVE  /\ linked[k] \in Code
                 /\ linked[k].op = Source(p)[k].op /\ linked[k].arg = Source(p)[k].arg
                 /\ linked[k].op = "ld" => linked[k].imm = ol_map[linked[k].arg].id
                 /\ linked[k].op = "call" => linked[k].imm = linked[k].arg - 1 + n - (k - 1)
      <3> DEFINE c == own[k]
      <3>1. linked[k] = IF c.op = "call" THEN [c EXCEPT !.imm = c.imm + n - (k - 1)] ELSE c
        BY <1>4, <1>5 DEF CallTarget
      <3>2. /\ c \in Code /\ c.op = Source(p)[k].op /\ c.arg = Source(p)[k].arg
            /\ c.op = "ld" => c.imm = ol_map[c.arg].id
            /\ c.op = "call" => c.imm = c.arg - 1
        BY <1>4
      <3>3. k \in Int /\ n \in Int
        BY <1>1
      <3> QED
        <4> HIDE DEF c, linked
        <4> QED BY <3>1, <3>2, <3>3 DEF Code
    <2> QED BY <1>4, <2>1
  <1>7. linked \in Seq(Code) /\ Len(linked) = n
    <2> HIDE DEF n, linked
    <2> QED BY ONLY <1>1, <1>6
  <1>8. CASE ~ HasCall(p)
    <2>1. Relocated(p) = own
      BY <1>8 DEF Relocated
    <2>2. HasPart(own, 0, Source(p))
      <3> SUFFICES ASSUME NEW k \in 1 .. n
                   PROVE  /\ own[0 + k].op = Source(p)[k].op /\ own[0 + k].arg = Source(p)[k].arg
                          /\ Source(p)[k].op = "ld" => own[0 + k].imm = ol_map[Source(p)[k].arg].id
        BY <1>1 DEF HasPart
      <3>1. 0 + k = k
        OBVIOUS
      <3> HIDE DEF own, n
      <3> QED BY <1>4, <3>1
    <2>3. \A k \in DOMAIN Source(p) : Source(p)[k].op # "call"
      BY <1>8 DEF HasCall, Source
    <2>4. Len(own) = Len(Source(p)) + 0
      BY <1>1, <1>5
    <2> HIDE DEF own
    <2> QED BY <1>5, <1>8, <2>1, <2>2, <2>3, <2>4 DEF Linked
  <1>9. CASE HasCall(p)
    <2>1. Text = {1} /\ p # 1
      BY <1>9, OlPrograms
    <2>2. Linked(1, text)
      BY <2>1
    <2>3. ~ HasCall(1)
      BY <2>2 DEF Linked
    <2>4. /\ text \in Seq(Code) /\ Len(text) = Len(Source(1)) /\ HasPart(text, 0, Source(1))
      BY <1>1, <2>2, <2>3 DEF Linked
    <2>5. (CHOOSE t \in Text : TRUE) = 1
      BY <2>1
    <2>6. Relocated(p) = linked \o text
      BY <1>9, <2>5 DEF Relocated
    <2> DEFINE code == linked \o text
               m == Len(Source(1))
    <2>7. /\ code \in Seq(Code) /\ Len(code) = n + m
          /\ \A k \in 1 .. n : code[k] = linked[k]
          /\ \A k \in 1 .. m : code[n + k] = text[k]
      <3>0. linked \in Seq(Code) /\ text \in Seq(Code)
        BY <1>7, <2>4
      <3> HIDE DEF linked, text
      <3>1. /\ linked \o text \in Seq(Code) /\ Len(linked \o text) = Len(linked) + Len(text)
            /\ \A k \in 1 .. Len(linked) : (linked \o text)[k] = linked[k]
            /\ \A k \in 1 .. Len(text) : (linked \o text)[Len(linked) + k] = text[k]
        BY ONLY <3>0, Appended
      <3>2. Len(linked) = n /\ Len(text) = m
        BY <1>7, <2>4
      <3> HIDE DEF n, m
      <3> QED BY ONLY <3>1, <3>2, <1>1
    <2> HIDE DEF code, linked
    <2>8. HasPart(code, 0, Source(p))
      <3> SUFFICES ASSUME NEW k \in 1 .. n
                   PROVE  /\ code[0 + k].op = Source(p)[k].op /\ code[0 + k].arg = Source(p)[k].arg
                          /\ Source(p)[k].op = "ld" => code[0 + k].imm = ol_map[Source(p)[k].arg].id
        BY <1>1 DEF HasPart
      <3>1. 0 + k = k
        OBVIOUS
      <3> HIDE DEF n
      <3> QED BY <1>6, <2>7, <3>1
    <2>9. HasPart(code, n, Source(1))
      <3> SUFFICES ASSUME NEW k \in 1 .. m
                   PROVE  /\ code[n + k].op = Source(1)[k].op /\ code[n + k].arg = Source(1)[k].arg
                          /\ Source(1)[k].op = "ld" => code[n + k].imm = ol_map[Source(1)[k].arg].id
        BY <1>1 DEF HasPart
      <3>1. 0 + k = k
        OBVIOUS
      <3>2. /\ text[0 + k].op = Source(1)[k].op /\ text[0 + k].arg = Source(1)[k].arg
            /\ Source(1)[k].op = "ld" => text[0 + k].imm = ol_map[Source(1)[k].arg].id
        BY <1>1, <2>4 DEF HasPart
      <3> HIDE DEF n, m, text
      <3> QED BY <2>7, <3>1, <3>2
    <2>10. \A k \in DOMAIN Source(p) : Source(p)[k].op = "call" =>
             code[k].imm = Source(p)[k].arg - 1 + n - (k - 1)
      <3> HIDE DEF n, m
      <3> QED BY <1>1, <1>6, <2>7
    <2> QED BY <1>9, <2>1, <2>3, <2>6, <2>7, <2>8, <2>9, <2>10 DEF Linked, code
  <1> QED BY <1>8, <1>9

-----------------------------------------------------------------------------
\* The programs of the object never change.
LEMMA SamePrograms ==
  ASSUME UNCHANGED ol_progs
  PROVE  /\ AllProgs' = AllProgs /\ AllMaps' = AllMaps /\ MapCount' = MapCount
         /\ ProgCount' = ProgCount /\ Text' = Text
         /\ \A q : Source(q)' = Source(q) /\ AsRead(q)' = AsRead(q) /\ (HasCall(q)' <=> HasCall(q))
  BY DEF AllProgs, AllMaps, ProgCount, MapCount, Text, HasCall, Source, AsRead

LEMMA Going ==
  ASSUME NEW pc, NEW i, OlGoto(pc, i)
  PROVE  ol' = [pc |-> pc, i |-> i] /\ ol'.pc = pc /\ ol'.i = i
  BY DEF OlGoto

LEMMA NextMapGoes ==
  ASSUME OlTypes, NEW i \in 0 .. MapCount, NextMap(i)
  PROVE  /\ ol' \in [pc : OlPcs, i : Nat]
         /\ \/ ol'.pc = "reuse" /\ ol'.i = i + 1 /\ i + 1 \in AllMaps
            \/ ol'.pc = "relocate" /\ ol'.i = 1 /\ i = MapCount
  <1>1. MapCount \in Nat
    BY OlPrograms
  <1> QED BY <1>1 DEF NextMap, OlGoto, AllMaps, OlPcs

\* While the maps are made the code is as it was read, and none of it is loaded.
LEMMA MapsKeepCode ==
  ASSUME OlInv, ol.pc \in {"opened"} \cup OnMaps, UNCHANGED <<ol_progs, ol_insns, ol_kernel>>,
         ol'.pc \in OnMaps \cup {"fail"} \/ (ol'.pc = "relocate" /\ ol'.i = 1)
  PROVE  OlCode' /\ OlKernel'
  <1>1. \A p \in AllProgs : ol_insns'[p] = AsRead(p)' /\ ol_kernel'[p] = <<>>
    BY SamePrograms DEF OlInv, OlCode, OlKernel, Linking
  <1>2. OlKernel'
    BY <1>1, SamePrograms DEF OlKernel
  <1>3. OlCode'
    <2>1. ASSUME NEW p \in AllProgs, ol'.pc = "relocate" PROVE ~ (p < ol'.i)
      BY <2>1 DEF OnMaps, AllProgs
    <2> QED BY <1>1, <2>1, SamePrograms DEF OlCode, OnMaps
  <1> QED BY <1>2, <1>3

\* Afterwards what is loaded stays right, for the maps keep their ids and data.
LEMMA KernelKeeps ==
  ASSUME OlTypes, OlKernel, UNCHANGED <<ol_progs, ol_kernel>>,
         \A m \in AllMaps : ol_map'[m].id = ol_map[m].id /\ ol_map'[m].filled = ol_map[m].filled,
         ol.pc \notin Linking => ol'.pc \notin Linking
  PROVE  OlKernel'
  <1>1. AllProgs' = AllProgs /\ AllMaps' = AllMaps
    BY SamePrograms
  <1>2. ASSUME NEW p \in AllProgs, ol_kernel[p] # <<>>
        PROVE  Linked(p, ol_kernel[p])' /\ \A m \in AllMaps : ol_map'[m].id # 0 /\ HasData(m)'
    <2> DEFINE code == ol_kernel[p]
    <2>1. Linked(p, code) /\ \A m \in AllMaps : ol_map[m].id # 0 /\ HasData(m)
      BY <1>2 DEF OlKernel
    <2>2. \A c : Linked(p, c) => Linked(p, c)'
      <3> SUFFICES ASSUME NEW c, Linked(p, c) PROVE Linked(p, c)'
        OBVIOUS
      <3> QED BY LinkedStays
    <2> QED BY <2>1, <2>2 DEF HasData
  <1>3. ol'.pc \in Linking => \A p \in AllProgs : ol_kernel[p] = <<>>
    BY DEF OlKernel
  <1> QED BY <1>1, <1>2, <1>3 DEF OlKernel

\* The start, and the calls that begin.
LEMMA OlInvInit == OlInit => OlInv
  <1> SUFFICES ASSUME OlInit PROVE OlInv
    OBVIOUS
  <1>1. /\ ol_progs \in ObjPrograms /\ ol = [pc |-> "opened", i |-> 1] /\ ol_loaded = FALSE
        /\ ol_ret = "none" /\ ol_map = [m \in AllMaps |-> NewMap] /\ ol_open = {}
        /\ ol_kernel = [p \in AllProgs |-> <<>>] /\ ol_before = ol_pins
        /\ ol_insns = [p \in AllProgs |-> AsRead(p)]
    BY DEF OlInit, AllMaps, AllProgs, ProgCount, AsRead, Source
  <1>2. MapCount \in Nat
    BY ObjectLoadAssumption DEF MapCount
  <1>3. ol_pins \in [AllMaps -> Nat]
    <2>1. PICK found \in [{m \in 1 .. MapCount : ObjMaps[m].pin} -> {0, 100, 200}] :
            ol_pins = [m \in 1 .. MapCount |->
                         IF m \in DOMAIN found /\ found[m] # 0 THEN found[m] + m ELSE 0]
      BY DEF OlInit
    <2> QED BY <1>2, <2>1 DEF AllMaps
  <1>4. ASSUME NEW p \in AllProgs PROVE AsRead(p) \in Seq(Code)
    <2> DEFINE s == Source(p)
               n == Len(s)
    <2>1. ol_progs \in Seq([sec : STRING, insns : Seq(Insns)])
      BY <1>1, ObjectLoadAssumption DEF AsCompiled
    <2>2. ol_progs[p] \in [sec : STRING, insns : Seq(Insns)]
      <3> DEFINE Sections == [sec : STRING, insns : Seq(Insns)]
      <3>1. ol_progs \in Seq(Sections)
        BY <2>1
      <3>2. \A q \in 1 .. Len(ol_progs) : ol_progs[q] \in Sections
        <4> HIDE DEF Sections
        <4> QED BY ONLY <3>1, SeqFacts
      <3> QED BY <3>2 DEF AllProgs, ProgCount
    <2>3. s \in Seq(Insns)
      BY <2>2 DEF Source
    <2>4. n \in Nat /\ DOMAIN s = 1 .. n /\ \A k \in 1 .. n : s[k] \in Insns
      <3> HIDE DEF s
      <3> QED BY ONLY <2>3
    <2>5. \A k \in 1 .. n : Compiled(s[k]) \in Code
      BY <2>4 DEF Compiled, Insns, Code
    <2>6. AsRead(p) \in [1 .. n -> Code]
      BY <2>4, <2>5 DEF AsRead
    <2> HIDE DEF n
    <2> QED BY ONLY <2>4, <2>6
  <1>5. OlTypes
    <2>1. NewMap \in LoadedMap
      BY DEF NewMap, LoadedMap
    <2>2. ol_insns \in [AllProgs -> Seq(Code)]
      BY <1>1, <1>4
    <2>3. <<>> \in Seq(Code)
      OBVIOUS
    <2> QED BY <1>1, <1>3, <2>1, <2>2, <2>3 DEF OlTypes, OlPcs
  <1>6. OlPlace /\ OlMaps /\ OlOpen
    BY <1>1 DEF OlPlace, OlMaps, OlOpen, OnMaps, Ahead, Finished
  <1>7. OlPinned
    BY <1>1 DEF OlPinned, ToUnpin, NewMap
  <1>8. OlCode /\ OlKernel
    BY <1>1 DEF OlCode, OlKernel, OnMaps
  <1> QED BY <1>5, <1>6, <1>7, <1>8 DEF OlInv

LEMMA LoadKeeps == ASSUME OlInv, bpf_object__load PROVE OlInv'
  <1>1. UNCHANGED <<ol_progs, ol_map, ol_insns, ol_pins, ol_open, ol_kernel, ol_before, ol_faults>>
    BY DEF bpf_object__load
  <1>2. CASE ol_loaded
    <2>1. ol_ret' = "EINVAL" /\ UNCHANGED <<ol, ol_loaded>>
      BY <1>2 DEF bpf_object__load
    <2>2. OlTypes' /\ OlPlace' /\ OlMaps' /\ OlOpen'
      BY <1>1, <2>1, SamePrograms DEF OlInv, OlTypes, OlPlace, OlMaps, OlOpen, Ahead, Finished, HasData
    <2>3. OlPinned'
      BY <1>1, <2>1, SamePrograms DEF OlInv, OlPinned, ToUnpin
    <2>4. OlKernel'
      BY <1>1, <2>1, KernelKeeps DEF OlInv
    <2>5. OlCode'
      BY <1>1, <1>2, <2>1, SamePrograms DEF OlInv, OlCode, OnMaps, bpf_object__load
    <2> QED BY <2>2, <2>3, <2>4, <2>5 DEF OlInv
  <1>3. CASE ~ ol_loaded
    <2>1. ol.pc = "opened" /\ ol_loaded' = TRUE /\ NextMap(0) /\ UNCHANGED ol_ret
      BY <1>3 DEF bpf_object__load, OlInv, OlPlace
    <2>2. MapCount \in Nat /\ 1 \in AllProgs /\ OlTypes
      BY OlPrograms DEF OlInv
    <2>3. /\ ol' \in [pc : OlPcs, i : Nat] /\ ol'.i = 1
          /\ (ol'.pc = "reuse" /\ 1 \in AllMaps) \/ (ol'.pc = "relocate" /\ MapCount = 0)
      <3>1. 0 \in 0 .. MapCount /\ 0 + 1 = 1
        BY <2>2
      <3> QED BY <2>1, <2>2, <3>1, NextMapGoes
    <2>4. OlTypes' /\ OlPlace'
      BY <1>1, <2>1, <2>2, <2>3, SamePrograms DEF OlTypes, OlPlace, OnMaps
    <2>5. OlMaps'
      <3>1. \A m \in AllMaps : ol_map[m] = NewMap
        BY <2>1 DEF OlInv, OlMaps, Ahead
      <3>2. \A m \in AllMaps : ~ Finished(m)'
        BY <2>2, <2>3 DEF Finished, OnMaps, AllMaps
      <3> QED BY <1>1, <2>3, <3>1, <3>2, SamePrograms DEF OlMaps
    <2>6. OlPinned'
      BY <1>1, <2>1, SamePrograms DEF OlInv, OlPinned, ToUnpin
    <2>7. OlOpen'
      BY <1>1, <2>1, <2>3, SamePrograms DEF OlInv, OlOpen
    <2>8. OlCode' /\ OlKernel'
      BY <1>1, <2>1, <2>3, MapsKeepCode DEF OnMaps
    <2> QED BY <2>4, <2>5, <2>6, <2>7, <2>8 DEF OlInv
  <1> QED BY <1>2, <1>3

LEMMA OtherPinsKeeps == ASSUME OlInv, NEW n \in AllMaps, OtherPins(n) PROVE OlInv'
  <1>1. /\ ol_pins[n] = 0 /\ ol.pc \in OnMaps
        /\ ol_pins' = [ol_pins EXCEPT ![n] = 100 + n]
        /\ ol_before' = [ol_before EXCEPT ![n] = 100 + n]
        /\ UNCHANGED <<ol_progs, ol, ol_loaded, ol_ret, ol_map, ol_insns, ol_open, ol_kernel>>
    BY DEF OtherPins, OnMaps
  <1>2. n \in Nat /\ n # 0 /\ OlTypes
    BY OlPrograms DEF AllMaps, OlInv
  <1>3. OlTypes' /\ OlPlace' /\ OlOpen'
    BY <1>1, <1>2, SamePrograms DEF OlInv, OlTypes, OlPlace, OlOpen
  <1>4. OlMaps'
    <2>1. ASSUME NEW m \in AllMaps, Finished(m) PROVE ObjMaps[m].pin => ol_pins'[m] = ol_pins[m]
      <3>1. ol_map[m].id # 0 /\ (ObjMaps[m].pin => ol_pins[m] = ol_map[m].id)
        BY <2>1 DEF OlInv, OlMaps
      <3> QED BY <1>1, <1>2, <3>1 DEF OlTypes
    <2> QED BY <1>1, <2>1, SamePrograms DEF OlInv, OlMaps, Ahead, Finished, HasData
  <1>5. OlPinned'
    <2>1. ASSUME NEW m \in AllMaps
          PROVE  IF ToUnpin(m) THEN ol_pins'[m] = m /\ ol_before'[m] = 0
                               ELSE ol_pins'[m] = ol_before'[m]
      <3>1. IF ToUnpin(m) THEN ol_pins[m] = m /\ ol_before[m] = 0 ELSE ol_pins[m] = ol_before[m]
        BY DEF OlInv, OlPinned
      <3> QED BY <1>1, <1>2, <3>1 DEF OlTypes
    <2>2. ol_ret' # "error"
      BY <1>1 DEF OlInv, OlPinned, OnMaps
    <2> QED BY <1>1, <2>1, <2>2, SamePrograms DEF OlPinned, ToUnpin
  <1>6. OlCode' /\ OlKernel'
    BY <1>1, MapsKeepCode
  <1> QED BY <1>3, <1>4, <1>5, <1>6 DEF OlInv

-----------------------------------------------------------------------------
\* A failure while the maps are made keeps what is pinned.
LEMMA MapsFail ==
  ASSUME OlInv, ol.pc \in OnMaps, OlGoto("fail", 1),
         UNCHANGED <<ol_progs, ol_loaded, ol_ret, ol_insns, ol_pins, ol_kernel, ol_before>>,
         ol_map' \in [AllMaps -> LoadedMap],
         \A m \in AllMaps : ol_map'[m].pinned = ol_map[m].pinned /\ ol_map'[m].reused = ol_map[m].reused,
         OlOpen'
  PROVE  OlInv'
  <1>1. ol' = [pc |-> "fail", i |-> 1] /\ ol'.pc = "fail"
    BY Going
  <1>2. OlTypes' /\ OlPlace'
    BY <1>1, SamePrograms DEF OlInv, OlTypes, OlPlace, OlPcs, OnMaps
  <1>3. OlMaps'
    BY <1>1 DEF OlMaps, Ahead, Finished, OnMaps
  <1>4. OlPinned'
    <2>1. ol_ret' # "error"
      BY DEF OlInv, OlPinned, OnMaps
    <2> QED BY <2>1, SamePrograms DEF OlInv, OlPinned, ToUnpin
  <1>5. OlCode' /\ OlKernel'
    BY <1>1, MapsKeepCode
  <1> QED BY <1>2, <1>3, <1>4, <1>5 DEF OlInv

\* The actions on maps.
LEMMA ReuseKeeps == ASSUME OlInv, ReuseMap PROVE OlInv'
  <1> DEFINE i == ol.i
             id == ol_pins[i]
  <1>1. /\ ol.pc = "reuse" /\ i \in AllMaps /\ OlTypes /\ MapCount \in Nat
        /\ UNCHANGED <<ol_progs, ol_loaded, ol_before, ol_ret, ol_insns, ol_pins, ol_kernel>>
    BY OlPrograms DEF OlInv, OlPlace, OnMaps, ReuseMap, olRest
  <1>2. i \in Nat /\ i # 0 /\ i <= MapCount /\ ol_map[i] = NewMap /\ id \in Nat
    BY <1>1 DEF AllMaps, OlInv, OlMaps, Ahead, OlTypes
  <1>3. ol_ret # "error"
    BY <1>1 DEF OlInv, OlPinned
  <1>4. CASE /\ ~ ObjMaps[i].pin \/ id = 0
             /\ OlGoto("create", i) /\ UNCHANGED <<ol_map, ol_open>>
    <2>1. ol' = [pc |-> "create", i |-> i] /\ ol'.pc = "create" /\ ol'.i = i
      BY <1>4, Going
    <2>2. OlTypes' /\ OlPlace'
      BY <1>1, <1>2, <1>4, <2>1, SamePrograms DEF OlInv, OlTypes, OlPlace, OlPcs, OnMaps
    <2>3. OlMaps' /\ OlOpen'
      BY <1>1, <1>4, <2>1, SamePrograms
         DEF OlInv, OlMaps, OlOpen, Ahead, Finished, HasData, OnMaps
    <2>4. OlPinned'
      BY <1>1, <1>3, <1>4, SamePrograms DEF OlInv, OlPinned, ToUnpin
    <2>5. OlCode' /\ OlKernel'
      BY <1>1, <2>1, MapsKeepCode DEF OnMaps
    <2> QED BY <2>2, <2>3, <2>4, <2>5 DEF OlInv
  <1>5. CASE OlGoto("fail", 1) /\ UNCHANGED ol_map /\ ol_open' \in {ol_open, ol_open \cup {<<"lost", i>>}}
    <2>1. ol'.pc = "fail"
      BY <1>5, Going
    <2>2. ~ ol_map[i].reused
      BY <1>2 DEF NewMap
    <2>3. OlOpen'
      BY <1>1, <1>5, <2>1, <2>2, SamePrograms DEF OlInv, OlOpen
    <2> QED BY <1>1, <1>5, <2>3, MapsFail DEF OlTypes, OnMaps
  <1>6. CASE ObjMaps[i].pin /\ id # 0 /\ bpf_map__reuse_fd(i, id) /\ NextMap(i)
    <2>1. /\ ol' \in [pc : OlPcs, i : Nat]
          /\ \/ ol'.pc = "reuse" /\ ol'.i = i + 1 /\ i + 1 \in AllMaps
             \/ ol'.pc = "relocate" /\ ol'.i = 1 /\ i = MapCount
      BY <1>1, <1>2, <1>6, NextMapGoes
    <2> DEFINE new == [NewMap EXCEPT !.fd = TRUE, !.id = id, !.pinned = TRUE, !.reused = TRUE]
    <2>2. /\ ol_map' = [ol_map EXCEPT ![i] = new]
          /\ ol_open' = ol_open \cup {<<"pin", i>>, <<"map", i>>}
      <3>2. ol_map' = [ol_map EXCEPT ![i] = [ol_map[i] EXCEPT !.fd = TRUE, !.id = id, !.pinned = TRUE,
                                                            !.reused = TRUE]]
        BY <1>6 DEF bpf_map__reuse_fd
      <3> QED BY <1>2, <1>6, <3>2 DEF bpf_map__reuse_fd
    <2>3. /\ ol_map'[i] = new /\ \A m \in AllMaps : m # i => ol_map'[m] = ol_map[m]
      BY <1>1, <2>2 DEF OlTypes
    <2>4. /\ new \in LoadedMap
          /\ new.id = id /\ new.pinned /\ new.reused
      BY <1>2 DEF NewMap, LoadedMap
    <2> HIDE DEF new
    <2>5. 1 \in AllProgs
      BY <1>1, OlPrograms
    <2>6. OlTypes' /\ OlPlace'
      BY <1>1, <2>1, <2>2, <2>4, <2>5, SamePrograms DEF OlInv, OlTypes, OlPlace, OnMaps
    <2>7. OlMaps'
      <3>1. ObjMaps[i].internal \notin {"data", "rodata"}
        BY <1>1, <1>6, ObjectLoadAssumption, OlPrograms
      <3>2. ASSUME NEW m \in AllMaps, Ahead(m)' PROVE ol_map'[m] = NewMap
        <4>1. Ahead(m) /\ m # i
          BY <1>1, <1>2, <2>1, <3>2 DEF Ahead, AllMaps
        <4> QED BY <2>3, <4>1 DEF OlInv, OlMaps
      <3>3. ASSUME NEW m \in AllMaps, Finished(m)'
            PROVE  /\ ol_map'[m].id # 0 /\ HasData(m)'
                   /\ ObjMaps[m].pin => ol_pins'[m] = ol_map'[m].id
        <4>1. CASE m = i
          BY <1>1, <1>6, <2>3, <2>4, <3>1, <4>1 DEF HasData
        <4>2. CASE m # i
          <5>1. Finished(m)
            BY <1>1, <1>2, <2>1, <3>3, <4>2 DEF Finished, AllMaps, OnMaps
          <5> QED BY <1>1, <2>3, <4>2, <5>1 DEF OlInv, OlMaps, HasData
        <4> QED BY <4>1, <4>2
      <3> QED BY <2>1, <3>2, <3>3, SamePrograms, <1>1 DEF OlMaps
    <2>8. OlPinned'
      <3>1. ~ (ol_map[i].pinned /\ ~ ol_map[i].reused) /\ ~ (ol_map'[i].pinned /\ ~ ol_map'[i].reused)
        BY <1>2, <2>3, <2>4 DEF NewMap
      <3> QED BY <1>1, <1>3, <2>3, <3>1, SamePrograms DEF OlInv, OlPinned, ToUnpin
    <2>9. OlOpen'
      <3>1. ol.pc # "unloaded" /\ ol.pc \notin {"fail", "unloaded"} /\ ol'.pc # "unloaded"
        BY <1>1, <2>1
      <3>2. ol_map'[i].reused /\ \A m \in AllMaps : ol_map[m].reused => ol_map'[m].reused
        BY <2>3, <2>4
      <3> QED BY <1>1, <2>2, <3>1, <3>2, SamePrograms DEF OlInv, OlOpen
    <2>10. OlCode' /\ OlKernel'
      BY <1>1, <2>1, MapsKeepCode DEF OnMaps
    <2> QED BY <2>6, <2>7, <2>8, <2>9, <2>10 DEF OlInv
  <1> QED BY <1>4, <1>5, <1>6 DEF ReuseMap

\* err_out of bpf_object__create_maps.
LEMMA ClosedMaps ==
  ASSUME OlInv, NEW ms \in SUBSET AllMaps, CloseMaps(ms)
  PROVE  /\ ol_map' \in [AllMaps -> LoadedMap]
         /\ \A m \in AllMaps :
              ol_map'[m].pinned = ol_map[m].pinned /\ ol_map'[m].reused = ol_map[m].reused
         /\ ol_open' \subseteq ol_open
  <1>1. ol_map \in [AllMaps -> LoadedMap]
    BY DEF OlInv, OlTypes
  <1>2. ASSUME NEW m \in AllMaps
        PROVE  /\ ol_map'[m] \in LoadedMap /\ ol_map'[m].pinned = ol_map[m].pinned
               /\ ol_map'[m].reused = ol_map[m].reused
    <2>1. ol_map'[m] = IF m \in ms THEN [ol_map[m] EXCEPT !.fd = FALSE] ELSE ol_map[m]
      BY DEF CloseMaps, AllMaps
    <2> QED BY <1>1, <2>1 DEF LoadedMap
  <1> QED BY <1>2 DEF CloseMaps, AllMaps

LEMMA FailsClosed ==
  ASSUME OlInv, ol.pc \in OnMaps, OlGoto("fail", 1), NEW ms \in SUBSET AllMaps, CloseMaps(ms),
         UNCHANGED <<olRest, ol_ret, ol_insns, ol_pins, ol_kernel>>
  PROVE  OlInv'
  <1>1. ol'.pc = "fail" /\ UNCHANGED <<ol_progs, ol_loaded, ol_before>>
    BY Going DEF olRest
  <1>2. /\ ol_map' \in [AllMaps -> LoadedMap]
        /\ \A m \in AllMaps :
             ol_map'[m].pinned = ol_map[m].pinned /\ ol_map'[m].reused = ol_map[m].reused
        /\ ol_open' \subseteq ol_open
    BY ClosedMaps
  <1>3. OlOpen'
    BY <1>1, <1>2, SamePrograms DEF OlInv, OlOpen, OnMaps
  <1> QED BY <1>1, <1>2, <1>3, MapsFail

LEMMA CreateKeeps == ASSUME OlInv, CreateMap PROVE OlInv'
  <1> DEFINE i == ol.i
  <1>1. /\ ol.pc = "create" /\ i \in AllMaps /\ OlTypes /\ MapCount \in Nat
        /\ UNCHANGED <<olRest, ol_ret, ol_insns, ol_pins, ol_kernel>>
        /\ UNCHANGED <<ol_progs, ol_loaded, ol_before>>
    BY OlPrograms DEF OlInv, OlPlace, OnMaps, CreateMap, olRest
  <1>2. i \in Nat /\ i # 0 /\ i <= MapCount /\ ol_map[i] = NewMap
    BY <1>1 DEF AllMaps, OlInv, OlMaps, Ahead
  <1>3. ol_ret # "error"
    BY <1>1 DEF OlInv, OlPinned
  <1>4. CASE CloseMaps(1 .. i - 1) /\ OlGoto("fail", 1)
    <2>1. 1 .. i - 1 \in SUBSET AllMaps
      BY <1>1, <1>2 DEF AllMaps
    <2> QED BY <1>1, <1>4, <2>1, FailsClosed DEF OnMaps
  <1>5. CASE /\ ol_map' = [ol_map EXCEPT ![i] = [@ EXCEPT !.fd = TRUE, !.id = i]]
             /\ ol_open' = ol_open \cup {<<"map", i>>} /\ OlGoto("fill", i)
    <2> DEFINE new == [NewMap EXCEPT !.fd = TRUE, !.id = i]
    <2>1. ol' = [pc |-> "fill", i |-> i] /\ ol'.pc = "fill" /\ ol'.i = i
      BY <1>5, Going
    <2>2. ol_map' = [ol_map EXCEPT ![i] = new]
      <3>2. ol_map' = [ol_map EXCEPT ![i] = [ol_map[i] EXCEPT !.fd = TRUE, !.id = i]]
        BY <1>5
      <3> QED BY <1>2, <3>2
    <2>3. ol_map'[i] = new /\ \A m \in AllMaps : m # i => ol_map'[m] = ol_map[m]
      BY <1>1, <2>2 DEF OlTypes
    <2>4. /\ new \in LoadedMap
          /\ new.id = i /\ new.pinned = FALSE /\ new.reused = FALSE
      BY <1>2 DEF NewMap, LoadedMap
    <2> HIDE DEF new
    <2>5. OlTypes' /\ OlPlace'
      BY <1>1, <1>2, <2>1, <2>2, <2>4, SamePrograms DEF OlInv, OlTypes, OlPlace, OlPcs, OnMaps
    <2>6. OlMaps'
      <3>1. ASSUME NEW m \in AllMaps, Ahead(m)' PROVE ol_map'[m] = NewMap
        <4>1. Ahead(m) /\ m # i
          BY <1>1, <1>2, <2>1, <3>1 DEF Ahead, AllMaps
        <4> QED BY <2>3, <4>1 DEF OlInv, OlMaps
      <3>2. ASSUME NEW m \in AllMaps, Finished(m)'
            PROVE  /\ ol_map'[m].id # 0 /\ HasData(m)'
                   /\ ObjMaps[m].pin => ol_pins'[m] = ol_map'[m].id
        <4>1. Finished(m) /\ m # i
          BY <1>1, <1>2, <2>1, <3>2 DEF Finished, AllMaps, OnMaps
        <4> QED BY <1>1, <2>3, <4>1 DEF OlInv, OlMaps, HasData
      <3> QED BY <1>1, <2>1, <2>3, <2>4, <3>1, <3>2, SamePrograms DEF OlMaps
    <2>7. OlPinned'
      <3>1. ~ (ol_map[i].pinned /\ ~ ol_map[i].reused) /\ ~ (ol_map'[i].pinned /\ ~ ol_map'[i].reused)
        BY <1>2, <2>3, <2>4 DEF NewMap
      <3> QED BY <1>1, <1>3, <2>3, <3>1, SamePrograms DEF OlInv, OlPinned, ToUnpin
    <2>8. OlOpen'
      <3>1. \A m \in AllMaps : ol_map'[m].reused = ol_map[m].reused
        <4>1. ol_map'[i].reused = FALSE
          BY <2>3, <2>4
        <4>2. ol_map[i].reused = FALSE
          BY <1>2 DEF NewMap
        <4> QED BY <2>3, <4>1, <4>2
      <3> QED BY <1>1, <1>5, <2>1, <3>1, SamePrograms DEF OlInv, OlOpen
    <2>9. OlCode' /\ OlKernel'
      BY <1>1, <2>1, MapsKeepCode DEF OnMaps
    <2> QED BY <2>5, <2>6, <2>7, <2>8, <2>9 DEF OlInv
  <1> QED BY <1>4, <1>5 DEF CreateMap

\* What a step from one map to the next leaves to show.
LEMMA NextMapKeeps ==
  ASSUME OlInv, ol.pc \in OnMaps, NextMap(ol.i), ol_map' \in [AllMaps -> LoadedMap],
         ol_pins' \in [AllMaps -> Nat],
         UNCHANGED <<olRest, ol_ret, ol_insns, ol_open, ol_kernel>>,
         \A m \in AllMaps : m # ol.i => ol_map'[m] = ol_map[m] /\ ol_pins'[m] = ol_pins[m],
         LET new == ol_map'[ol.i]
         IN /\ new.id # 0 /\ new.reused = ol_map[ol.i].reused
            /\ ObjMaps[ol.i].internal \in {"data", "rodata"} => new.filled
            /\ ObjMaps[ol.i].pin => ol_pins'[ol.i] = new.id
            /\ IF new.pinned /\ ~ new.reused THEN ol_pins'[ol.i] = ol.i /\ ol_before[ol.i] = 0
                                             ELSE ol_pins'[ol.i] = ol_before[ol.i]
  PROVE  OlInv'
  <1> DEFINE i == ol.i
  <1>1. /\ i \in AllMaps /\ i \in 1 .. MapCount /\ OlTypes /\ MapCount \in Nat /\ 1 \in AllProgs
        /\ UNCHANGED <<ol_progs, ol_loaded, ol_before>>
    BY OlPrograms DEF OlInv, OlPlace, olRest, AllMaps
  <1>2. /\ ol' \in [pc : OlPcs, i : Nat]
        /\ \/ ol'.pc = "reuse" /\ ol'.i = i + 1 /\ i + 1 \in AllMaps
           \/ ol'.pc = "relocate" /\ ol'.i = 1 /\ i = MapCount
    BY <1>1, NextMapGoes
  <1>3. OlTypes' /\ OlPlace'
    BY <1>1, <1>2, SamePrograms DEF OlInv, OlTypes, OlPlace, OnMaps
  <1>4. ASSUME NEW m \in AllMaps, Ahead(m)' PROVE ol_map'[m] = NewMap
    <2>1. Ahead(m) /\ m # i
      BY <1>1, <1>2, <1>4 DEF Ahead, AllMaps, OnMaps
    <2> QED BY <2>1 DEF OlInv, OlMaps
  <1>5. ASSUME NEW m \in AllMaps, Finished(m)'
        PROVE  /\ ol_map'[m].id # 0 /\ HasData(m)'
               /\ ObjMaps[m].pin => ol_pins'[m] = ol_map'[m].id
    <2>1. CASE m = i
      BY <2>1 DEF HasData
    <2>2. CASE m # i
      <3>1. Finished(m)
        BY <1>1, <1>2, <1>5, <2>2 DEF Finished, AllMaps, OnMaps
      <3> QED BY <2>2, <3>1 DEF OlInv, OlMaps, HasData
    <2> QED BY <2>1, <2>2
  <1>6. OlMaps'
    BY <1>2, <1>4, <1>5, SamePrograms, <1>1 DEF OlMaps
  <1>7. OlPinned'
    <2>1. ol_ret' # "error"
      BY DEF OlInv, OlPinned, OnMaps
    <2>2. ASSUME NEW m \in AllMaps
          PROVE  IF ToUnpin(m)' THEN ol_pins'[m] = m /\ ol_before'[m] = 0
                                ELSE ol_pins'[m] = ol_before'[m]
      BY <1>1 DEF OlInv, OlPinned, ToUnpin
    <2> QED BY <1>1, <2>1, <2>2, SamePrograms DEF OlPinned
  <1>8. OlOpen'
    <2>1. \A m \in AllMaps : ol_map'[m].reused = ol_map[m].reused
      OBVIOUS
    <2> QED BY <1>1, <1>2, <2>1, SamePrograms DEF OlInv, OlOpen, OnMaps
  <1>9. OlCode' /\ OlKernel'
    BY <1>1, <1>2, MapsKeepCode DEF OnMaps
  <1> QED BY <1>3, <1>6, <1>7, <1>8, <1>9 DEF OlInv

LEMMA FillKeeps == ASSUME OlInv, FillMap PROVE OlInv'
  <1> DEFINE i == ol.i
             c == ol_map[i]
  <1>1. /\ ol.pc = "fill" /\ i \in AllMaps /\ OlTypes /\ MapCount \in Nat
        /\ UNCHANGED <<olRest, ol_ret, ol_insns, ol_pins, ol_kernel>>
        /\ UNCHANGED <<ol_progs, ol_loaded, ol_before>>
    BY OlPrograms DEF OlInv, OlPlace, OnMaps, FillMap, olRest
  <1>2. i \in Nat /\ i # 0 /\ i <= MapCount /\ c \in LoadedMap
    BY <1>1 DEF AllMaps, OlTypes
  <1>3. ol_ret # "error"
    BY <1>1 DEF OlInv, OlPinned
  <1>4. CASE CloseMaps(1 .. i) /\ OlGoto("fail", 1)
    <2>1. 1 .. i \in SUBSET AllMaps
      BY <1>1, <1>2 DEF AllMaps
    <2> QED BY <1>1, <1>4, <2>1, FailsClosed DEF OnMaps
  <1>5. ASSUME NEW new \in LoadedMap, new.id = c.id, new.pinned = c.pinned, new.reused = c.reused,
               ObjMaps[i].internal \in {"data", "rodata"} => new.filled,
               ol_map' = [ol_map EXCEPT ![i] = new], UNCHANGED ol_open, OlGoto("pin", i)
        PROVE  OlInv'
    <2>1. ol' = [pc |-> "pin", i |-> i] /\ ol'.pc = "pin" /\ ol'.i = i
      BY <1>5, Going
    <2>2. ol_map'[i] = new /\ \A m \in AllMaps : m # i => ol_map'[m] = ol_map[m]
      BY <1>1, <1>5 DEF OlTypes
    <2>3. OlTypes' /\ OlPlace'
      BY <1>1, <1>2, <1>5, <2>1, SamePrograms DEF OlInv, OlTypes, OlPlace, OlPcs, OnMaps
    <2>4. OlMaps'
      <3>1. ASSUME NEW m \in AllMaps, Ahead(m)' PROVE ol_map'[m] = NewMap
        <4>1. Ahead(m) /\ m # i
          BY <1>1, <1>2, <2>1, <3>1 DEF Ahead, AllMaps
        <4> QED BY <2>2, <4>1 DEF OlInv, OlMaps
      <3>2. ASSUME NEW m \in AllMaps, Finished(m)'
            PROVE  /\ ol_map'[m].id # 0 /\ HasData(m)'
                   /\ ObjMaps[m].pin => ol_pins'[m] = ol_map'[m].id
        <4>1. Finished(m) /\ m # i
          BY <1>1, <1>2, <2>1, <3>2 DEF Finished, AllMaps, OnMaps
        <4> QED BY <1>1, <2>2, <4>1 DEF OlInv, OlMaps, HasData
      <3>3. c.id = i /\ ~ c.pinned /\ ~ c.reused
        BY <1>1 DEF OlInv, OlMaps
      <3>4. new.id = i /\ ~ new.pinned /\ ~ new.reused
        BY <1>5, <3>3
      <3>5. HasData(i)'
        BY <1>5, <2>1, <2>2 DEF HasData
      <3> QED BY <2>1, <2>2, <3>1, <3>2, <3>4, <3>5, SamePrograms, <1>1 DEF OlMaps
    <2>5. \A m \in AllMaps : ol_map'[m].reused = ol_map[m].reused /\ ol_map'[m].pinned = ol_map[m].pinned
      BY <1>5, <2>2
    <2>6. OlPinned'
      BY <1>1, <1>3, <2>5, SamePrograms DEF OlInv, OlPinned, ToUnpin
    <2>7. OlOpen'
      BY <1>1, <1>5, <2>1, <2>5, SamePrograms DEF OlInv, OlOpen
    <2>8. OlCode' /\ OlKernel'
      BY <1>1, <2>1, MapsKeepCode DEF OnMaps
    <2> QED BY <2>3, <2>4, <2>6, <2>7, <2>8 DEF OlInv
  <1>6. CASE OlGoto("pin", i) /\ UNCHANGED <<ol_map, ol_open>> /\ ObjMaps[i].internal \in {"none", "bss"}
    <2>1. ol_map' = [ol_map EXCEPT ![i] = c]
      BY <1>1, <1>6 DEF OlTypes
    <2>2. ObjMaps[i].internal \notin {"data", "rodata"}
      BY <1>6
    <2> QED BY <1>2, <1>5, <1>6, <2>1, <2>2
  <1>7. CASE /\ OlGoto("pin", i) /\ UNCHANGED ol_open
             /\ \/ ol_map' = [ol_map EXCEPT ![i] = [@ EXCEPT !.filled = TRUE,
                                                            !.frozen = (ObjMaps[i].internal = "rodata")]]
                \/ ol_map' = [ol_map EXCEPT ![i].filled = TRUE]
    <2> DEFINE frozen == [c EXCEPT !.filled = TRUE, !.frozen = (ObjMaps[i].internal = "rodata")]
               filled == [c EXCEPT !.filled = TRUE]
    <2>1. PICK new \in {frozen, filled} : ol_map' = [ol_map EXCEPT ![i] = new]
      BY <1>7
    <2>2. /\ new \in LoadedMap /\ new.id = c.id /\ new.pinned = c.pinned /\ new.reused = c.reused
          /\ new.filled
      BY <1>2, <2>1 DEF LoadedMap
    <2> QED BY <1>5, <1>7, <2>1, <2>2
  <1> QED BY <1>4, <1>6, <1>7 DEF FillMap

LEMMA PinKeeps == ASSUME OlInv, PinMap PROVE OlInv'
  <1> DEFINE i == ol.i
             c == ol_map[i]
  <1>1. /\ ol.pc = "pin" /\ i \in AllMaps /\ OlTypes /\ MapCount \in Nat
        /\ UNCHANGED <<olRest, ol_ret, ol_insns, ol_open, ol_kernel>>
        /\ UNCHANGED <<ol_progs, ol_loaded, ol_before>>
    BY OlPrograms DEF OlInv, OlPlace, OnMaps, PinMap, olRest
  <1>2. i \in Nat /\ i # 0 /\ c \in LoadedMap
    BY <1>1 DEF AllMaps, OlTypes
  <1>3. /\ c.id = i /\ c.pinned = FALSE /\ c.reused = FALSE /\ ol_pins[i] = ol_before[i]
        /\ ObjMaps[i].internal \in {"data", "rodata"} => c.filled
    <2>1. c.id = i /\ ~ c.pinned /\ ~ c.reused /\ HasData(i)
      BY <1>1 DEF OlInv, OlMaps
    <2>2. c.pinned = FALSE /\ c.reused = FALSE
      BY <1>2, <2>1 DEF LoadedMap
    <2>3. ol_pins[i] = ol_before[i]
      BY <1>1, <2>2 DEF OlInv, OlPinned, ToUnpin
    <2> QED BY <2>1, <2>2, <2>3 DEF HasData
  <1>4. CASE ~ ObjMaps[i].pin /\ NextMap(i) /\ UNCHANGED <<ol_map, ol_pins>>
    BY <1>1, <1>2, <1>3, <1>4, NextMapKeeps DEF OnMaps, OlTypes
  <1>5. CASE OlGoto("fail", 1) /\ UNCHANGED <<ol_map, ol_pins>>
    <2>1. ol'.pc = "fail"
      BY <1>5, Going
    <2>2. OlOpen'
      BY <1>1, <1>5, <2>1, SamePrograms DEF OlInv, OlOpen
    <2> QED BY <1>1, <1>5, <2>2, MapsFail DEF OlTypes, OnMaps
  <1>6. CASE /\ ol_pins[i] = 0 /\ NextMap(i)
             /\ ol_pins' = [ol_pins EXCEPT ![i] = i]
             /\ ol_map' = [ol_map EXCEPT ![i].pinned = TRUE]
    <2> DEFINE new == [c EXCEPT !.pinned = TRUE]
    <2>1. /\ new \in LoadedMap /\ new.id = i /\ new.pinned = TRUE /\ new.reused = FALSE
          /\ new.filled = c.filled
      BY <1>2, <1>3 DEF LoadedMap
    <2>2. ol_map' = [ol_map EXCEPT ![i] = new]
      BY <1>6
    <2> HIDE DEF new
    <2>3. /\ ol_map' \in [AllMaps -> LoadedMap] /\ ol_pins' \in [AllMaps -> Nat]
          /\ ol_map'[i] = new /\ ol_pins'[i] = i
          /\ \A m \in AllMaps : m # i => ol_map'[m] = ol_map[m] /\ ol_pins'[m] = ol_pins[m]
      BY <1>1, <1>2, <1>6, <2>1, <2>2 DEF OlTypes
    <2>4. ol_before[i] = 0
      BY <1>3, <1>6
    <2> QED BY <1>1, <1>2, <1>3, <1>6, <2>1, <2>3, <2>4, NextMapKeeps DEF OnMaps
  <1> QED BY <1>4, <1>5, <1>6 DEF PinMap

-----------------------------------------------------------------------------
(* Programs, and the way out.                                              *)

\* Steps after the maps are made change neither them nor the pins.
LEMMA ProgramsKeepMaps ==
  ASSUME OlInv, ol.pc \in {"relocate", "progs"}, UNCHANGED <<olRest, ol_map, ol_pins>>,
         ol' \in [pc : OlPcs, i : Nat], ol'.pc \in {"relocate", "progs", "done", "fail"},
         ol'.pc \in {"relocate", "progs"} => ol'.i \in AllProgs,
         ol_ret' \in {ol_ret, "0"},
         ol_insns' \in [AllProgs -> Seq(Code)], ol_kernel' \in [AllProgs -> Seq(Code)]
  PROVE  OlTypes' /\ OlPlace' /\ OlMaps' /\ OlPinned'
  <1>1. UNCHANGED <<ol_progs, ol_loaded, ol_before>> /\ OlTypes
    BY DEF olRest, OlInv
  <1>2. OlTypes' /\ OlPlace'
    BY <1>1, SamePrograms DEF OlInv, OlTypes, OlPlace, OnMaps
  <1>3. OlMaps'
    <2>1. \A m \in AllMaps : Finished(m) /\ ~ Ahead(m)'
      BY DEF Finished, Ahead
    <2>2. \A m \in AllMaps : ol_map[m].id # 0 /\ HasData(m) /\ (ObjMaps[m].pin => ol_pins[m] = ol_map[m].id)
      BY <2>1 DEF OlInv, OlMaps
    <2> QED BY <1>1, <2>1, <2>2, SamePrograms DEF OlMaps, HasData
  <1>4. OlPinned'
    <2>1. ol_ret' # "error"
      BY DEF OlInv, OlPinned
    <2> QED BY <1>1, <2>1, SamePrograms DEF OlInv, OlPinned, ToUnpin
  <1> QED BY <1>2, <1>3, <1>4

\* The actions on programs.
LEMMA RelocateKeeps == ASSUME OlInv, RelocateProgram PROVE OlInv'
  <1>0. PICK p : p = ol.i
    OBVIOUS
  <1>1. /\ ol.pc = "relocate" /\ p \in AllProgs /\ OlTypes /\ ProgCount \in Nat /\ 1 \in AllProgs
        /\ UNCHANGED <<olRest, ol_ret, ol_map, ol_pins, ol_open, ol_kernel>>
        /\ UNCHANGED <<ol_progs, ol_loaded, ol_before>>
    BY <1>0, OlPrograms DEF OlInv, OlPlace, RelocateProgram, olRest
  <1>2. p \in Nat /\ p >= 1 /\ p <= ProgCount
    BY <1>1 DEF AllProgs
  <1>3. ASSUME NEW q \in AllProgs, NEW code, Linked(q, code) PROVE Linked(q, code)'
    BY <1>1, <1>3, LinkedStays
  <1>4. ASSUME ol'.pc \in {"relocate", "progs", "fail"} PROVE OlKernel' /\ OlOpen'
    <2>1. OlKernel'
      <3>1. \A q \in AllProgs : ol_kernel[q] = <<>>
        BY <1>1 DEF OlInv, OlKernel, Linking
      <3> QED BY <1>1, <3>1, SamePrograms DEF OlKernel
    <2>2. OlOpen'
      BY <1>1, <1>4, SamePrograms DEF OlInv, OlOpen
    <2> QED BY <2>1, <2>2
  <1>5. CASE OlGoto("fail", 1) /\ UNCHANGED ol_insns
    <2>1. ol' = [pc |-> "fail", i |-> 1] /\ ol'.pc = "fail"
      BY <1>5, Going
    <2>2. ol' \in [pc : OlPcs, i : Nat]
      BY <2>1 DEF OlPcs
    <2>3. OlTypes' /\ OlPlace' /\ OlMaps' /\ OlPinned'
      BY <1>1, <1>5, <2>1, <2>2, ProgramsKeepMaps DEF OlTypes
    <2>4. OlCode'
      BY <2>1 DEF OlCode, OnMaps
    <2> QED BY <1>4, <2>1, <2>3, <2>4 DEF OlInv
  <1>6. CASE /\ ~ (HasCall(p) /\ (p \in Text \/ Text = {}))
             /\ ol_insns' = [ol_insns EXCEPT ![p] = Relocated(p)]
             /\ IF p < ProgCount THEN OlGoto("relocate", p + 1) ELSE OlGoto("progs", 1)
    <2>1. \/ ol' = [pc |-> "relocate", i |-> p + 1] /\ p + 1 \in AllProgs
          \/ ol' = [pc |-> "progs", i |-> 1] /\ p = ProgCount
      BY <1>1, <1>2, <1>6 DEF OlGoto, AllProgs
    <2>2. /\ ol' \in [pc : OlPcs, i : Nat] /\ ol'.i \in AllProgs
          /\ \/ ol'.pc = "relocate" /\ ol'.i = p + 1
             \/ ol'.pc = "progs" /\ ol'.i = 1 /\ p = ProgCount
      BY <1>1, <1>2, <2>1 DEF OlPcs
    <2>3. \A q \in AllProgs : IF q < p THEN Linked(q, ol_insns[q]) ELSE ol_insns[q] = AsRead(q)
      BY <1>0, <1>1 DEF OlInv, OlCode
    <2>4. Linked(p, Relocated(p))
      <3>1. ol_insns[p] = AsRead(p)
        BY <1>1, <1>2, <2>3
      <3>2. p # 1 => Linked(1, ol_insns[1])
        BY <1>1, <1>2, <2>3
      <3> QED BY <1>1, <1>6, <3>1, <3>2, RelocatedLinks
    <2>5. PICK code : code = Relocated(p)
      OBVIOUS
    <2>6. PICK insns : ol_insns' = insns
      OBVIOUS
    <2>7. /\ insns[p] = code /\ \A q \in AllProgs : q # p => insns[q] = ol_insns[q]
          /\ insns \in [AllProgs -> Seq(Code)]
      <3>1. code \in Seq(Code)
        BY <2>4, <2>5 DEF Linked
      <3> QED BY <1>1, <1>6, <2>5, <2>6, <3>1 DEF OlTypes
    <2>8. OlTypes' /\ OlPlace' /\ OlMaps' /\ OlPinned'
      BY <1>1, <2>2, <2>6, <2>7, ProgramsKeepMaps DEF OlTypes
    <2>9. ASSUME NEW q \in AllProgs
          PROVE  IF q <= p THEN Linked(q, insns[q])' ELSE insns[q] = AsRead(q)
      <3>1. CASE q = p
        <4>1. Linked(p, code)'
          BY <1>1, <1>3, <2>4, <2>5
        <4> QED BY <1>2, <2>7, <3>1, <4>1
      <3>2. CASE q < p
        <4>1. Linked(q, insns[q])
          BY <1>2, <2>3, <2>7, <3>2
        <4>2. Linked(q, insns[q])'
          BY <1>3, <4>1
        <4> QED BY <1>2, <3>2, <4>2 DEF AllProgs
      <3>3. CASE q > p
        BY <1>2, <2>3, <2>7, <3>3 DEF AllProgs
      <3> QED BY <1>2, <3>1, <3>2, <3>3 DEF AllProgs
    <2>10. OlCode'
      BY <1>1, <1>2, <2>2, <2>6, <2>9, SamePrograms DEF OlCode, OnMaps, AllProgs
    <2> QED BY <1>4, <2>2, <2>8, <2>10 DEF OlInv
  <1> QED BY <1>0, <1>5, <1>6 DEF RelocateProgram

LEMMA LoadProgramKeeps == ASSUME OlInv, LoadProgram PROVE OlInv'
  <1>0. PICK p : p = ol.i
    OBVIOUS
  <1>1. /\ ol.pc = "progs" /\ p \in AllProgs /\ OlTypes /\ ProgCount \in Nat
        /\ UNCHANGED <<olRest, ol_map, ol_pins>> /\ ol_ret' \in {ol_ret, "0"}
        /\ UNCHANGED <<ol_progs, ol_loaded, ol_before>>
    BY <1>0, OlPrograms DEF OlInv, OlPlace, LoadProgram, olRest
  <1>2. p \in Nat /\ p >= 1 /\ p <= ProgCount
    BY <1>1 DEF AllProgs
  <1>3. ASSUME NEW q \in AllProgs, NEW code, Linked(q, code) PROVE Linked(q, code)'
    BY <1>1, <1>3, LinkedStays
  <1>4. /\ \A q \in AllProgs : q >= p => Linked(q, ol_insns[q])
        /\ \A m \in AllMaps : ol_map[m].id # 0 /\ HasData(m)
    BY <1>0, <1>1 DEF OlInv, OlCode, OlMaps, Finished
  <1>5. ASSUME NEW code \in Seq(Code), NEW open \in SUBSET {<<"prog", p>>},
               ol_insns' \in {ol_insns, [ol_insns EXCEPT ![p] = <<>>]},
               ol_kernel' = [ol_kernel EXCEPT ![p] = code],
               code # <<>> => Linked(p, code),
               ol_open' = ol_open \cup open,
               NextProgram(p) \/ OlGoto("fail", 1)
        PROVE  OlInv'
    <2>1. /\ ol' \in [pc : OlPcs, i : Nat]
          /\ \/ ol'.pc = "progs" /\ ol'.i = p + 1 /\ p + 1 \in AllProgs
             \/ ol'.pc = "done" \/ ol'.pc = "fail"
      BY <1>1, <1>2, <1>5 DEF NextProgram, OlGoto, OlPcs, AllProgs
    <2>2. /\ ol_insns' \in [AllProgs -> Seq(Code)]
          /\ \A q \in AllProgs : q # p => ol_insns'[q] = ol_insns[q]
      <3>1. <<>> \in Seq(Code) /\ ol_insns \in [AllProgs -> Seq(Code)]
        BY <1>1 DEF OlTypes
      <3> QED BY <1>1, <1>5, <3>1
    <2>3. /\ ol_kernel' \in [AllProgs -> Seq(Code)] /\ ol_kernel'[p] = code
          /\ \A q \in AllProgs : q # p => ol_kernel'[q] = ol_kernel[q]
      BY <1>1, <1>5 DEF OlTypes
    <2>4. OlTypes' /\ OlPlace' /\ OlMaps' /\ OlPinned'
      BY <1>1, <2>1, <2>2, <2>3, ProgramsKeepMaps DEF OlTypes
    <2>5. OlOpen'
      BY <1>1, <1>5, <2>1, SamePrograms DEF OlInv, OlOpen
    <2>6. OlCode'
      <3>1. PICK insns : insns = ol_insns'
        OBVIOUS
      <3>2. ASSUME NEW q \in AllProgs, q >= p + 1 PROVE Linked(q, insns[q])'
        <4>1. q # p /\ q >= p
          BY <1>2, <3>2 DEF AllProgs
        <4>2. Linked(q, insns[q])
          BY <1>4, <2>2, <3>1, <4>1
        <4> QED BY <1>3, <4>2
      <3> QED BY <1>1, <2>1, <3>1, <3>2, SamePrograms DEF OlCode, OnMaps
    <2>7. OlKernel'
      <3>1. PICK kernel : kernel = ol_kernel'
        OBVIOUS
      <3>2. ASSUME NEW q \in AllProgs, kernel[q] # <<>> PROVE Linked(q, kernel[q])'
        <4>1. Linked(q, kernel[q])
          <5>1. CASE q = p
            BY <1>5, <2>3, <3>1, <3>2, <5>1
          <5>2. CASE q # p
            BY <2>3, <3>1, <3>2, <5>2 DEF OlInv, OlKernel
          <5> QED BY <5>1, <5>2
        <4> QED BY <1>3, <4>1
      <3>3. \A m \in AllMaps : ol_map'[m].id # 0 /\ HasData(m)'
        BY <1>1, <1>4 DEF HasData
      <3> QED BY <1>1, <2>1, <3>1, <3>2, <3>3, SamePrograms DEF OlKernel, Linking, OnMaps
    <2> QED BY <2>4, <2>5, <2>6, <2>7 DEF OlInv
  <1>6. ol_kernel[p] \in Seq(Code) /\ (ol_kernel[p] # <<>> => Linked(p, ol_kernel[p]))
    BY <1>1 DEF OlInv, OlTypes, OlKernel
  <1>7. CASE UNCHANGED <<ol_kernel, ol_open>>
    <2>1. ol_kernel' = [ol_kernel EXCEPT ![p] = ol_kernel[p]] /\ ol_open' = ol_open \cup {}
      BY <1>1, <1>7 DEF OlTypes
    <2>2. /\ ol_insns' \in {ol_insns, [ol_insns EXCEPT ![p] = <<>>]}
          /\ NextProgram(p) \/ OlGoto("fail", 1)
      BY <1>0, <1>7 DEF LoadProgram
    <2> QED BY <1>5, <1>6, <2>1, <2>2
  <1>8. CASE /\ NextProgram(p)
             /\ ol_kernel' = [ol_kernel EXCEPT ![p] = ol_insns[p]]
             /\ ol_open' = ol_open \cup {<<"prog", p>>}
             /\ ol_insns' = [ol_insns EXCEPT ![p] = <<>>]
    <2>1. ol_insns[p] \in Seq(Code) /\ Linked(p, ol_insns[p])
      BY <1>1, <1>2, <1>4 DEF OlTypes
    <2> QED BY <1>5, <1>8, <2>1
  <1> QED BY <1>0, <1>7, <1>8 DEF LoadProgram

\* What bpf_object__unload closes, and what it leaves.
LEMMA UnloadedKeeps ==
  ASSUME OlInv, ol.pc \in {"done", "fail"}, OlGoto("unloaded", 1), ol_open' = Unloaded,
         UNCHANGED <<olRest, ol_insns, ol_kernel>>,
         ol_map' \in [AllMaps -> LoadedMap], ol_pins' \in [AllMaps -> Nat],
         \A m \in AllMaps : ol_map'[m].id = ol_map[m].id /\ ol_map'[m].filled = ol_map[m].filled
                            /\ ol_map'[m].reused = ol_map[m].reused,
         OlPinned'
  PROVE  OlInv'
  <1>1. /\ UNCHANGED <<ol_progs, ol_loaded, ol_before>> /\ OlTypes
        /\ ol' = [pc |-> "unloaded", i |-> 1] /\ ol'.pc = "unloaded"
    BY Going DEF olRest, OlInv
  <1>2. OlTypes' /\ OlPlace'
    BY <1>1, SamePrograms DEF OlInv, OlTypes, OlPlace, OlPcs, OnMaps
  <1>3. OlMaps' /\ OlCode'
    BY <1>1 DEF OlMaps, OlCode, Ahead, Finished, OnMaps
  <1>4. OlOpen'
    <2>1. ASSUME NEW d \in ol_open'
          PROVE  \/ \E m \in AllMaps : d = <<"pin", m>> /\ ol_map'[m].reused
                 \/ \E m \in AllMaps : d = <<"lost", m>> /\ ~ ol_map'[m].reused
      <3>1. /\ d \in ol_open /\ ~ \E m \in AllMaps : d = <<"map", m>>
            /\ ~ \E p \in AllProgs : d = <<"prog", p>>
        BY DEF Unloaded, AllMaps, AllProgs
      <3> QED BY <3>1 DEF OlInv, OlOpen
    <2> QED BY <1>1, <2>1, SamePrograms DEF OlOpen
  <1>5. OlKernel'
    BY <1>1, KernelKeeps DEF OlInv, Linking, OnMaps
  <1> QED BY <1>2, <1>3, <1>4, <1>5 DEF OlInv

\* The failed load unpins what it pinned.
LEMMA FailsKeeps == ASSUME OlInv, LoadFails PROVE OlInv'
  <1>1. OlTypes /\ MapCount \in Nat /\ ol.pc = "fail" /\ ol_ret' = "error" /\ OlGoto("unloaded", 1)
    BY OlPrograms DEF OlInv, LoadFails
  <1>2. ASSUME NEW m \in AllMaps
        PROVE  /\ ol_pins'[m] = IF ToUnpin(m) THEN 0 ELSE ol_pins[m]
               /\ ol_map'[m] \in LoadedMap
               /\ ol_map'[m].id = ol_map[m].id /\ ol_map'[m].filled = ol_map[m].filled
               /\ ol_map'[m].reused = ol_map[m].reused
               /\ ol_map'[m].pinned = IF ToUnpin(m) THEN FALSE ELSE ol_map[m].pinned
    <2>1. /\ ol_pins'[m] = IF ToUnpin(m) THEN 0 ELSE ol_pins[m]
          /\ ol_map'[m] = IF ToUnpin(m) THEN [MapsClosed[m] EXCEPT !.pinned = FALSE] ELSE MapsClosed[m]
          /\ MapsClosed[m] = [ol_map[m] EXCEPT !.fd = FALSE]
      BY DEF LoadFails, AllMaps, MapsClosed
    <2>2. ol_map[m] \in LoadedMap
      BY <1>1 DEF OlTypes
    <2> QED BY <2>1, <2>2 DEF LoadedMap
  <1>3. ol_map' \in [AllMaps -> LoadedMap] /\ ol_pins' \in [AllMaps -> Nat]
    <2>1. DOMAIN ol_map' = AllMaps /\ DOMAIN ol_pins' = AllMaps
      BY DEF LoadFails, AllMaps
    <2>2. /\ ol_map' = [m \in AllMaps |-> ol_map'[m]] /\ ol_pins' = [m \in AllMaps |-> ol_pins'[m]]
      BY DEF LoadFails, AllMaps
    <2>3. ASSUME NEW m \in AllMaps PROVE ol_pins'[m] \in Nat
      <3>1. ol_pins[m] \in Nat
        BY <1>1 DEF OlTypes
      <3>2. ol_pins'[m] \in {0, ol_pins[m]}
        BY <1>2
      <3> QED BY <3>1, <3>2
    <2> QED BY <1>2, <2>2, <2>3
  <1>4. UNCHANGED <<ol_progs, ol_before>>
    BY DEF LoadFails, olRest
  <1>5. OlPinned'
    <2>1. ASSUME NEW m \in AllMaps
          PROVE  ol_pins'[m] = ol_before[m] /\ ~ (ol_map'[m].pinned /\ ~ ol_map'[m].reused)
      <3>1. IF ToUnpin(m) THEN ol_pins[m] = m /\ ol_before[m] = 0 ELSE ol_pins[m] = ol_before[m]
        BY DEF OlInv, OlPinned
      <3> QED BY <1>2, <3>1 DEF ToUnpin
    <2>2. ol_pins' = ol_before
      BY <1>1, <1>3, <2>1 DEF OlTypes
    <2>3. ol'.pc = "unloaded"
      BY <1>1, Going
    <2> QED BY <1>4, <2>1, <2>2, <2>3, SamePrograms DEF OlPinned, ToUnpin
  <1> QED BY <1>1, <1>2, <1>3, <1>5, UnloadedKeeps DEF LoadFails

LEMMA UnloadKeeps == ASSUME OlInv, bpf_object__unload PROVE OlInv'
  <1>1. OlTypes /\ ol.pc = "done" /\ UNCHANGED <<olRest, ol_ret, ol_pins>> /\ OlGoto("unloaded", 1)
    BY DEF OlInv, bpf_object__unload
  <1>2. ASSUME NEW m \in AllMaps
        PROVE  /\ ol_map'[m] \in LoadedMap
               /\ ol_map'[m].id = ol_map[m].id /\ ol_map'[m].filled = ol_map[m].filled
               /\ ol_map'[m].reused = ol_map[m].reused /\ ol_map'[m].pinned = ol_map[m].pinned
    <2>1. ol_map'[m] = [ol_map[m] EXCEPT !.fd = FALSE]
      BY DEF bpf_object__unload, AllMaps, MapsClosed
    <2>2. ol_map[m] \in LoadedMap
      BY <1>1 DEF OlTypes
    <2> QED BY <2>1, <2>2 DEF LoadedMap
  <1>3. ol_map' \in [AllMaps -> LoadedMap] /\ ol_pins' \in [AllMaps -> Nat]
    <2>1. ol_map' = [m \in AllMaps |-> ol_map'[m]]
      BY DEF bpf_object__unload, AllMaps, MapsClosed
    <2> QED BY <1>1, <1>2, <2>1 DEF OlTypes
  <1>4. OlPinned'
    <2>1. ol_ret # "error" /\ UNCHANGED <<ol_progs, ol_before>>
      BY <1>1 DEF OlInv, OlPinned, olRest
    <2> QED BY <1>1, <1>2, <2>1, SamePrograms DEF OlInv, OlPinned, ToUnpin
  <1> QED BY <1>1, <1>2, <1>3, <1>4, UnloadedKeeps DEF bpf_object__unload

\* Every step keeps the invariant.
LEMMA OlInvStep == OlInv /\ [OlNext]_olVars => OlInv'
  <1> SUFFICES ASSUME OlInv, [OlNext]_olVars PROVE OlInv'
    OBVIOUS
  <1>1. CASE UNCHANGED olVars
    <2>1. /\ UNCHANGED <<ol_progs, ol, ol_loaded, ol_ret, ol_map, ol_insns, ol_pins, ol_open, ol_kernel,
                         ol_before>>
      BY <1>1 DEF olVars
    <2>2. OlTypes' /\ OlPlace' /\ OlMaps' /\ OlPinned' /\ OlOpen'
      BY <2>1, SamePrograms DEF OlInv, OlTypes, OlPlace, OlMaps, OlPinned, OlOpen, Ahead, Finished,
                                HasData, ToUnpin
    <2>3. \A p \in AllProgs : \A code : Linked(p, code) => Linked(p, code)'
      BY <2>1, SamePrograms DEF Linked, HasPart
    <2>4. OlKernel'
      BY <2>1, KernelKeeps DEF OlInv
    <2>5. OlCode'
      <3>1. PICK insns : insns = ol_insns
        OBVIOUS
      <3>2. \A p \in AllProgs : Linked(p, insns[p]) => Linked(p, insns[p])'
        BY <2>3
      <3> QED BY <2>1, <3>1, <3>2, SamePrograms DEF OlInv, OlCode
    <2> QED BY <2>2, <2>4, <2>5 DEF OlInv
  <1>2. CASE OlNext
    BY <1>2, LoadKeeps, ReuseKeeps, CreateKeeps, FillKeeps, PinKeeps, RelocateKeeps, LoadProgramKeeps,
       FailsKeeps, UnloadKeeps, OtherPinsKeeps DEF OlNext, AllMaps
  <1> QED BY <1>1, <1>2

\* ObjectLoad.tla: the invariant, for every behaviour of bpf_object__load.
THEOREM LoadInvariant == OlSpec => []OlInv
  BY OlInvInit, OlInvStep, PTL DEF OlSpec

\* ObjectLoad.tla: whatever fails, and whatever others pin meanwhile, a program that the kernel
\* accepts has every map and function that its source names, a failed load leaves the pins as
\* others made them and nothing of the object open, and a finished one uses the pinned maps.
THEOREM ObjectsAlwaysLoadWhole == OlSpec => []LoadsWholeOrNot
  <1>1. OlInv => LoadsWholeOrNot
    <2> SUFFICES ASSUME OlInv PROVE LoadsWholeOrNot
      OBVIOUS
    <2>1. LoadedIsResolved
      <3> SUFFICES ASSUME NEW p \in AllProgs, ol_kernel[p] # <<>> PROVE Resolved(p, ol_kernel[p])
        BY DEF LoadedIsResolved, AllProgs
      <3>1. /\ Linked(p, ol_kernel[p]) /\ OlTypes
            /\ \A m \in AllMaps : ol_map[m].id # 0 /\ HasData(m)
        BY DEF OlInv, OlKernel
      <3> QED BY <3>1, LinkedIsResolved
    <2>2. FailedLoadLeavesPins
      BY DEF OlInv, OlPinned, FailedLoadLeavesPins
    <2>3. UnloadClosesAll
      BY DEF OlInv, OlOpen, UnloadClosesAll
    <2>4. PinnedMapsAreUsed
      BY DEF OlInv, OlMaps, Finished, PinnedMapsAreUsed, AllMaps
    <2> QED BY <2>1, <2>2, <2>3, <2>4 DEF LoadsWholeOrNot
  <1> QED BY <1>1, LoadInvariant, PTL

-----------------------------------------------------------------------------
(* Object opening.                                                         *)

OoPcs == {"new", "elf_init", "endian", "caps", "collect", "btf", "maps", "load_btf", "names", "relocs",
          "finish", "opened", "close", "failed", "closed"}
Sections == oo_file.sections
MapSections == {"maps", ".maps", ".data", ".rodata", ".bss"}
KnownSections == MapSections \cup {".text"}
Resources == {"obj", "fd", "elf", "reloc", "programs", ".text", "xdp", "btf", "btf_ext", "maps", ".data",
              ".rodata", "reloc_desc"}

\* ObjectOpen.tla: what the variables are.
OoTypes ==
  /\ Sections \in SectionLists /\ oo_file.relo \in Relocations
  /\ oo_file.relo.sec \in Range(Sections) \cup {"UNDEF"}
  /\ oo \in [pc : OoPcs, i : Nat]
  /\ oo_progs \in Seq(Nat) /\ oo_held \subseteq Resources

\* The sections before the i-th have been seen, and are known by their indices.
OoIndices ==
  /\ oo.pc = "collect" => oo.i \in 1 .. Len(Sections) + 1
  /\ DOMAIN oo_shndx = KnownSections
  /\ oo.pc \in {"new", "elf_init", "endian", "caps"} => oo_shndx = NoSection /\ oo.i = 1
  /\ \A s \in KnownSections :
       \/ \E n \in DOMAIN Sections : Sections[n] = s /\ oo_shndx[s] = n
       \/ oo_shndx[s] = NoSection[s]
  /\ oo.pc = "collect" => \A n \in DOMAIN Sections :
       n < oo.i /\ Sections[n] \in KnownSections => oo_shndx[Sections[n]] = n
  /\ oo.pc \in {"btf", "maps", "load_btf", "names", "relocs", "finish", "opened"} =>
       \A n \in DOMAIN Sections : Sections[n] \in KnownSections => oo_shndx[Sections[n]] = n

\* What is held is known of by what frees it.
OoKnown ==
  /\ oo.pc = "new" => oo_held = {}
  /\ oo.pc \in {"endian", "caps", "collect"} \/ "reloc" \in oo_held => "elf" \in oo_held
  /\ "fd" \in oo_held /\ "elf" \notin oo_held => oo_shndx = NoSection
  /\ \A s \in {".text", "xdp"} : s \in oo_held =>
       \E k \in DOMAIN oo_progs : oo_progs[k] \in DOMAIN Sections /\ Sections[oo_progs[k]] = s
  /\ oo.pc \in {"failed", "closed"} => oo_held \subseteq {"fd"}
  /\ "fd" \in oo_held => oo.pc = "close" \/ "elf" \in oo_held \/ oo.pc = "failed"
  /\ "btf_ext" \in oo_held => "btf" \in oo_held

\* A map of the object is one of the file, and lies where its type says.
OoMaps ==
  /\ oo.pc \in {"new", "elf_init", "endian", "caps", "collect", "btf", "maps"} => oo_maps = <<>>
  /\ \E count \in Nat : DOMAIN oo_maps = 1 .. count
  /\ \A n \in DOMAIN oo_maps :
       \E s \in MapSections :
         /\ oo_maps[n].type = IF s \in {"maps", ".maps"} THEN "UNSPEC" ELSE s
         /\ oo_maps[n].sec_idx = oo_shndx[s]

\* What the relocation of an open object says is so.
OoRelo ==
  oo.pc \in {"finish", "opened"} =>
    /\ oo_relo.type \in {"LD64", "DATA"} =>
         LET m == oo_maps[oo_relo.map]
         IN /\ m.sec_idx \in DOMAIN Sections /\ Sections[m.sec_idx] = oo_file.relo.sec
            /\ oo_relo.type = "LD64" => m.sec_offset = oo_file.relo.off
    /\ oo_relo.type = "unset" =>
         oo_file.relo.sec = ".text" \/ (oo_file.relo.sec = "UNDEF" /\ ~ InFile(".text"))

\* The invariant.
OoInv == OoTypes /\ OoIndices /\ OoKnown /\ OoMaps /\ OoRelo

-----------------------------------------------------------------------------
(* The maps that are found, and their order.                               *)

\* In a finite set in strict order every place is that of one element.
LEMMA Ranked ==
  ASSUME NEW M, IsFiniteSet(M), NEW R,
         \A a, b \in M : a # b => <<a, b>> \in R \/ <<b, a>> \in R,
         \A a \in M : <<a, a>> \notin R,
         \A a, b, c \in M : <<a, b>> \in R /\ <<b, c>> \in R => <<a, c>> \in R,
         NEW n \in 1 .. Cardinality(M)
  PROVE  \E m \in M : Cardinality({k \in M : <<k, m>> \in R}) = n - 1
  <1> DEFINE before(m) == {k \in M : <<k, m>> \in R}
             c == Cardinality(M)
             rank == [m \in M |-> Cardinality(before(m))]
  <1>1. c \in Nat
    BY FS_CardinalityType
  <1>2. ASSUME NEW m \in M PROVE IsFiniteSet(before(m)) /\ rank[m] \in 0 .. c - 1
    <2>1. before(m) \in SUBSET M /\ before(m) # M
      OBVIOUS
    <2>2. IsFiniteSet(before(m)) /\ Cardinality(before(m)) <= c /\ Cardinality(before(m)) # c
      BY <2>1, FS_Subset
    <2>3. Cardinality(before(m)) \in Nat
      BY <2>2, FS_CardinalityType
    <2> QED BY <1>1, <2>2, <2>3
  <1>3. ASSUME NEW a \in M, NEW b \in M, <<a, b>> \in R PROVE rank[a] # rank[b]
    <2>1. before(a) \in SUBSET before(b) /\ before(a) # before(b)
      BY <1>3
    <2>2. IsFiniteSet(before(b))
      BY <1>2
    <2>3. Cardinality(before(a)) # Cardinality(before(b))
      BY <2>1, <2>2, FS_Subset
    <2> QED BY <2>3
  <1>4. rank \in Injection(M, 0 .. c - 1)
    <2>1. rank \in [M -> 0 .. c - 1]
      BY <1>2
    <2>2. \A a, b \in M : rank[a] = rank[b] => a = b
      BY <1>3
    <2> QED BY <2>1, <2>2 DEF Injection, IsInjective
  <1>5. IsFiniteSet(0 .. c - 1) /\ Cardinality(0 .. c - 1) = c
    <2>1. 0 \in Int /\ c - 1 \in Int
      BY <1>1
    <2>2. IsFiniteSet(0 .. c - 1) /\ Cardinality(0 .. c - 1) = IF 0 > c - 1 THEN 0 ELSE c - 1 - 0 + 1
      BY <2>1, FS_Interval
    <2> QED BY <1>1, <2>2
  <1>6. rank \in Surjection(M, 0 .. c - 1)
    BY <1>4, <1>5, FS_Injection
  <1>7. n - 1 \in 0 .. c - 1
    BY <1>1
  <1>8. PICK m \in M : rank[m] = n - 1
    BY <1>6, <1>7 DEF Surjection
  <1> QED BY <1>8

\* The file has no section twice.
LEMMA OoSections ==
  ASSUME OoTypes
  PROVE  /\ Len(Sections) \in Nat /\ DOMAIN Sections = 1 .. Len(Sections)
         /\ \A a, b \in DOMAIN Sections : Sections[a] = Sections[b] => a = b
         /\ \A n \in DOMAIN Sections : Sections[n] \in Range(Sections)
  <1>1. Sections \in Seq(STRING) /\ IsInjective(Sections)
    BY ObjectOpenAssumption DEF OoTypes
  <1>2. Len(Sections) \in Nat /\ DOMAIN Sections = 1 .. Len(Sections)
    <2> HIDE DEF Sections
    <2> QED BY ONLY <1>1
  <1>3. \A a, b \in DOMAIN Sections : Sections[a] = Sections[b] => a = b
    BY <1>1 DEF IsInjective
  <1>4. \A n \in DOMAIN Sections : Sections[n] \in Range(Sections)
    BY DEF Range
  <1> QED BY <1>2, <1>3, <1>4

\* A section that the object knows is in the file, at its index.
LEMMA KnownIndex ==
  ASSUME OoTypes, OoIndices, NEW s \in MapSections, OoHas(s)
  PROVE  oo_shndx[s] \in DOMAIN Sections /\ Sections[oo_shndx[s]] = s
  <1>1. \/ \E n \in DOMAIN Sections : Sections[n] = s /\ oo_shndx[s] = n
        \/ oo_shndx[s] = NoSection[s]
    BY DEF OoIndices, KnownSections
  <1>2. NoSection[s] = -1
    BY DEF NoSection, MapSections
  <1> QED BY <1>1, <1>2 DEF OoHas

\* A map that is found is described by its section.
LEMMA MapsFoundAre ==
  ASSUME OoTypes, OoIndices, NEW m \in MapsFound
  PROVE  \E s \in MapSections :
           /\ OoHas(s) /\ m.sec_idx = oo_shndx[s] /\ m.sec_offset \in {0, 20}
           /\ m.type = IF s \in {"maps", ".maps"} THEN "UNSPEC" ELSE s
           /\ m = MapAt(m.type, s, m.sec_offset)
  <1>1. PICK s \in MapSections : m \in MapsIn(s)
    BY DEF MapsFound, MapSections
  <1>2. OoHas(s)
    BY <1>1 DEF MapsIn
  <1>3. CASE s \in {"maps", ".maps"}
    <2>1. PICK off \in {0, 20} : m = MapAt("UNSPEC", s, off)
      BY <1>1, <1>2, <1>3 DEF MapsIn
    <2>2. m.sec_idx = oo_shndx[s] /\ m.sec_offset = off /\ m.type = "UNSPEC"
      BY <2>1 DEF MapAt
    <2> QED BY <1>2, <1>3, <2>1, <2>2
  <1>4. CASE s \notin {"maps", ".maps"}
    <2>1. m = MapAt(s, s, 0)
      BY <1>1, <1>2, <1>4 DEF MapsIn
    <2>2. m.sec_idx = oo_shndx[s] /\ m.sec_offset = 0 /\ m.type = s
      BY <2>1 DEF MapAt
    <2> QED BY <1>2, <1>4, <2>1, <2>2
  <1> QED BY <1>3, <1>4

\* Only so many are found.
LEMMA MapsFoundFinite == IsFiniteSet(MapsFound)
  <1>1. ASSUME NEW s PROVE IsFiniteSet(MapsIn(s))
    <2>1. MapsIn(s) \in {{}, {MapAt("UNSPEC", s, 0), MapAt("UNSPEC", s, 20)}, {MapAt(s, s, 0)}}
      BY DEF MapsIn
    <2>2. IsFiniteSet({}) /\ IsFiniteSet({MapAt(s, s, 0)}) /\ IsFiniteSet({MapAt("UNSPEC", s, 0)})
      BY FS_EmptySet, FS_Singleton
    <2>3. IsFiniteSet({MapAt("UNSPEC", s, 0)} \cup {MapAt("UNSPEC", s, 20)})
      BY <2>2, FS_AddElement
    <2>4. {MapAt("UNSPEC", s, 0)} \cup {MapAt("UNSPEC", s, 20)} =
            {MapAt("UNSPEC", s, 0), MapAt("UNSPEC", s, 20)}
      OBVIOUS
    <2> QED BY <2>1, <2>2, <2>3, <2>4
  <1>2. MapsFound = MapsIn("maps") \cup MapsIn(".maps") \cup MapsIn(".data") \cup MapsIn(".rodata")
                      \cup MapsIn(".bss")
    BY Zenon DEF MapsFound
  <1>3. IsFiniteSet(MapsIn("maps") \cup MapsIn(".maps"))
    BY <1>1, FS_Union
  <1>4. IsFiniteSet(MapsIn("maps") \cup MapsIn(".maps") \cup MapsIn(".data"))
    BY <1>1, <1>3, FS_Union
  <1>5. IsFiniteSet(MapsIn("maps") \cup MapsIn(".maps") \cup MapsIn(".data") \cup MapsIn(".rodata"))
    BY <1>1, <1>4, FS_Union
  <1> QED BY <1>1, <1>2, <1>5, FS_Union

\* The sorted maps are maps that were found.
LEMMA SortedMaps ==
  ASSUME OoTypes, OoIndices
  PROVE  /\ DOMAIN Sorted(MapsFound) = 1 .. Cardinality(MapsFound)
         /\ \A n \in DOMAIN Sorted(MapsFound) : Sorted(MapsFound)[n] \in MapsFound
  <1> DEFINE R == {ab \in MapsFound \X MapsFound : compare_bpf_map(ab[1], ab[2])}
  <1>1. \A a, b \in MapsFound : <<a, b>> \in R <=> compare_bpf_map(a, b)
    OBVIOUS
  <1>2. \A a \in MapsFound : a.sec_idx \in Nat /\ a.sec_offset \in Nat
    <2> SUFFICES ASSUME NEW a \in MapsFound PROVE a.sec_idx \in Nat /\ a.sec_offset \in Nat
      OBVIOUS
    <2>1. PICK s \in MapSections : OoHas(s) /\ a.sec_idx = oo_shndx[s] /\ a.sec_offset \in {0, 20}
      BY MapsFoundAre
    <2>2. a.sec_idx \in DOMAIN Sections
      BY <2>1, KnownIndex
    <2> QED BY <2>1, <2>2, OoSections
  <1>3. ASSUME NEW a \in MapsFound, NEW b \in MapsFound, a # b
        PROVE  compare_bpf_map(a, b) \/ compare_bpf_map(b, a)
    <2>1. PICK s \in MapSections :
            /\ OoHas(s) /\ a.sec_idx = oo_shndx[s]
            /\ a.type = IF s \in {"maps", ".maps"} THEN "UNSPEC" ELSE s
            /\ a = MapAt(a.type, s, a.sec_offset)
      BY MapsFoundAre
    <2>2. PICK t \in MapSections :
            /\ OoHas(t) /\ b.sec_idx = oo_shndx[t]
            /\ b.type = IF t \in {"maps", ".maps"} THEN "UNSPEC" ELSE t
            /\ b = MapAt(b.type, t, b.sec_offset)
      BY MapsFoundAre
    <2>3. a.sec_idx = b.sec_idx => s = t
      BY <2>1, <2>2, KnownIndex
    <2>4. a.sec_idx # b.sec_idx \/ a.sec_offset # b.sec_offset
      BY <1>3, <2>1, <2>2, <2>3
    <2> QED BY <1>2, <2>4 DEF compare_bpf_map
  <1>4. \A a \in MapsFound : ~ compare_bpf_map(a, a)
    BY <1>2 DEF compare_bpf_map
  <1>5. \A a, b, c \in MapsFound : compare_bpf_map(a, b) /\ compare_bpf_map(b, c) => compare_bpf_map(a, c)
    BY <1>2 DEF compare_bpf_map
  <1> HIDE DEF R
  <1>6. ASSUME NEW n \in 1 .. Cardinality(MapsFound)
        PROVE  \E m \in MapsFound : Cardinality({k \in MapsFound : compare_bpf_map(k, m)}) = n - 1
    <2>1. PICK m \in MapsFound : Cardinality({k \in MapsFound : <<k, m>> \in R}) = n - 1
      <3>1. \A a, b \in MapsFound : a # b => <<a, b>> \in R \/ <<b, a>> \in R
        BY <1>1, <1>3
      <3>2. \A a \in MapsFound : <<a, a>> \notin R
        BY <1>1, <1>4
      <3>3. \A a, b, c \in MapsFound : <<a, b>> \in R /\ <<b, c>> \in R => <<a, c>> \in R
        BY <1>1, <1>5
      <3> QED BY MapsFoundFinite, <3>1, <3>2, <3>3, Ranked
    <2>2. {k \in MapsFound : <<k, m>> \in R} = {k \in MapsFound : compare_bpf_map(k, m)}
      BY <1>1
    <2> QED BY <2>1, <2>2
  <1>7. ASSUME NEW n \in 1 .. Cardinality(MapsFound)
        PROVE  (CHOOSE m \in MapsFound : Cardinality({k \in MapsFound : compare_bpf_map(k, m)}) = n - 1)
                  \in MapsFound
    BY <1>6
  <1> QED BY <1>7 DEF Sorted

-----------------------------------------------------------------------------
(* Keeping the invariant.                                                  *)

\* Before the sections are read, and after.
Early == {"new", "elf_init", "endian", "caps"}
Late == {"btf", "maps", "load_btf", "names", "relocs", "finish", "opened"}

\* The label changes, the section does not.
LEMMA OoMoves ==
  ASSUME OoTypes, NEW pc \in OoPcs, OoGoto(pc)
  PROVE  oo' \in [pc : OoPcs, i : Nat] /\ oo'.pc = pc /\ oo'.i = oo.i
  BY DEF OoTypes, OoGoto

\* A step that only goes on, with more or less held.
LEMMA OnlyHeldChanges ==
  ASSUME OoInv, UNCHANGED <<oo_file, oo_shndx, oo_progs, oo_maps, oo_relo>>,
         NEW pc \in OoPcs, OoGoto(pc),
         pc \in Early => oo.pc \in Early,
         pc = "collect" => oo.pc = "caps",
         pc \in Late => oo.pc \in Late \/ (oo.pc = "collect" /\ oo.i = Len(Sections) + 1),
         pc \in {"btf", "maps"} => oo.pc \in {"collect", "btf"},
         pc \in {"finish", "opened"} => oo.pc = "finish",
         oo_held' \subseteq Resources, OoKnown'
  PROVE  OoInv'
  <1>1. /\ OoTypes /\ oo' \in [pc : OoPcs, i : Nat] /\ oo'.pc = pc /\ oo'.i = oo.i
    BY OoMoves DEF OoInv
  <1>2. OoTypes'
    BY <1>1 DEF OoTypes, OoInv, Sections
  <1>3. OoIndices'
    <2>1. Len(Sections) \in Nat /\ DOMAIN Sections = 1 .. Len(Sections)
      BY <1>1, OoSections
    <2>2. oo.pc \in Early => oo_shndx = NoSection /\ oo.i = 1
      BY DEF OoInv, OoIndices, Early
    <2>3. /\ DOMAIN oo_shndx = KnownSections
          /\ \A s \in KnownSections :
               \/ \E n \in DOMAIN Sections : Sections[n] = s /\ oo_shndx[s] = n
               \/ oo_shndx[s] = NoSection[s]
      BY DEF OoInv, OoIndices
    <2>4. pc \in Late => \A n \in DOMAIN Sections : Sections[n] \in KnownSections => oo_shndx[Sections[n]] = n
      BY <2>1 DEF OoInv, OoIndices, Late
    <2>5. pc = "collect" => \A n \in DOMAIN Sections : ~ (n < oo.i)
      BY <2>1, <2>2 DEF Early
    <2> QED BY <1>1, <2>1, <2>2, <2>3, <2>4, <2>5 DEF OoIndices, Early, Late, Sections
  <1>4. OoMaps'
    BY <1>1 DEF OoInv, OoMaps, Early
  <1>5. OoRelo'
    BY <1>1 DEF OoInv, OoRelo, InFile, Sections
  <1> QED BY <1>2, <1>3, <1>4, <1>5 DEF OoInv

\* More is held than before, of what needs nothing to be freed.
LEMMA HoldsMore ==
  ASSUME OoInv, UNCHANGED <<oo_file, oo_shndx, oo_progs>>, NEW pc \in OoPcs, OoGoto(pc),
         pc \notin {"new", "failed", "closed"}, oo.pc \notin {"close", "failed", "closed"},
         pc \in {"endian", "caps", "collect"} => oo.pc \in {"endian", "caps"},
         NEW more, oo_held' = oo_held \cup more,
         more \subseteq {"obj", "btf", "btf_ext", "maps", ".data", ".rodata", "reloc_desc"},
         "btf_ext" \in more => "btf" \in more
  PROVE  OoKnown' /\ oo_held' \subseteq Resources
  <1>1. OoTypes /\ oo'.pc = pc
    BY OoMoves DEF OoInv
  <1>2. oo_held' \subseteq Resources
    BY <1>1 DEF OoTypes, Resources
  <1>3. OoKnown'
    BY <1>1 DEF OoInv, OoKnown, Sections, OoPcs
  <1> QED BY <1>2, <1>3

\* The actions on the file.
LEMMA NewKeeps == ASSUME OoInv, bpf_object__new PROVE OoInv'
  <1>1. /\ oo.pc = "new" /\ UNCHANGED <<oo_file, oo_shndx, oo_progs, oo_maps, oo_relo>> /\ OoTypes
    BY DEF bpf_object__new, OoInv
  <1>2. CASE OoHolds({"obj"}) /\ OoGoto("elf_init")
    <2>1. OoKnown' /\ oo_held' \subseteq Resources
      BY <1>1, <1>2, HoldsMore DEF OoHolds, OoPcs
    <2> QED BY <1>1, <1>2, <2>1, OnlyHeldChanges DEF OoPcs, Early, Late
  <1>3. CASE OoGoto("failed") /\ UNCHANGED oo_held
    <2>1. oo'.pc = "failed"
      BY <1>1, <1>3, OoMoves DEF OoPcs
    <2>2. OoKnown' /\ oo_held' \subseteq Resources
      BY <1>1, <1>3, <2>1 DEF OoInv, OoKnown, OoTypes, Sections
    <2> QED BY <1>1, <1>3, <2>2, OnlyHeldChanges DEF OoPcs, Early, Late
  <1> QED BY <1>2, <1>3 DEF bpf_object__new

\* A failure keeps what is held, for bpf_object__close.
LEMMA GoesToClose ==
  ASSUME OoInv, UNCHANGED <<oo_file, oo_shndx, oo_progs, oo_maps, oo_relo>>, OoGoto("close"),
         oo.pc \notin {"close", "failed", "closed"}, NEW more, oo_held' = oo_held \cup more,
         more \subseteq {"obj", "btf", "btf_ext", "maps", ".data", ".rodata", "reloc_desc"},
         "btf_ext" \in more => "btf" \in more
  PROVE  OoInv'
  <1>1. OoKnown' /\ oo_held' \subseteq Resources
    BY HoldsMore DEF OoPcs
  <1> QED BY <1>1, OnlyHeldChanges DEF OoPcs, Early, Late

\* Without an Elf no section has been seen.
LEMMA ElfInitKeeps == ASSUME OoInv, bpf_object__elf_init PROVE OoInv'
  <1>1. /\ oo.pc = "elf_init" /\ UNCHANGED <<oo_file, oo_shndx, oo_progs, oo_maps, oo_relo>> /\ OoTypes
    BY DEF bpf_object__elf_init, OoInv
  <1>2. oo_shndx = NoSection
    BY <1>1 DEF OoInv, OoIndices
  <1>3. CASE OoHolds({"fd", "elf"}) /\ OoGoto("endian")
    <2>1. oo'.pc = "endian"
      BY <1>1, <1>3, OoMoves DEF OoPcs
    <2>2. OoKnown' /\ oo_held' \subseteq Resources
      BY <1>1, <1>3, <2>1 DEF OoHolds, OoInv, OoKnown, OoTypes, Resources, Sections
    <2> QED BY <1>1, <1>3, <2>2, OnlyHeldChanges DEF OoPcs, Early, Late
  <1>4. CASE OoGoto("close") /\ oo_held' \in {oo_held, oo_held \cup {"fd"}}
    <2>1. oo'.pc = "close"
      BY <1>1, <1>4, OoMoves DEF OoPcs
    <2>2. OoKnown' /\ oo_held' \subseteq Resources
      BY <1>1, <1>2, <1>4, <2>1 DEF OoInv, OoKnown, OoTypes, Resources, Sections
    <2> QED BY <1>1, <1>4, <2>2, OnlyHeldChanges DEF OoPcs, Early, Late
  <1> QED BY <1>3, <1>4 DEF bpf_object__elf_init, OoHolds

\* The next actions hold nothing new.
LEMMA EndianKeeps == ASSUME OoInv, bpf_object__check_endianness PROVE OoInv'
  <1>1. /\ oo.pc = "endian" /\ UNCHANGED <<oo_file, oo_shndx, oo_progs, oo_maps, oo_relo, oo_held>>
        /\ OoTypes /\ oo_held' = oo_held \cup {}
    BY DEF bpf_object__check_endianness, OoInv
  <1>2. CASE OoGoto("caps")
    <2>1. OoKnown' /\ oo_held' \subseteq Resources
      BY <1>1, <1>2, HoldsMore DEF OoPcs
    <2> QED BY <1>1, <1>2, <2>1, OnlyHeldChanges DEF OoPcs, Early, Late
  <1>3. CASE OoGoto("close")
    BY <1>1, <1>3, GoesToClose
  <1> QED BY <1>2, <1>3 DEF bpf_object__check_endianness

\* Before the first section.
LEMMA CapsKeeps == ASSUME OoInv, bpf_object__probe_caps PROVE OoInv'
  <1>1. /\ oo.pc = "caps" /\ UNCHANGED <<oo_file, oo_shndx, oo_progs, oo_maps, oo_relo, oo_held>>
        /\ OoGoto("collect") /\ oo_held' = oo_held \cup {}
    BY DEF bpf_object__probe_caps
  <1>2. OoKnown' /\ oo_held' \subseteq Resources
    BY <1>1, HoldsMore DEF OoPcs
  <1> QED BY <1>1, <1>2, OnlyHeldChanges DEF OoPcs, Early, Late

\* After the last section all are known.
LEMMA EndCollectKeeps == ASSUME OoInv, EndCollect PROVE OoInv'
  <1>1. /\ oo.pc = "collect" /\ UNCHANGED <<oo_file, oo_shndx, oo_progs, oo_maps, oo_relo, oo_held>>
        /\ OoGoto("btf") /\ oo_held' = oo_held \cup {} /\ oo.i = Len(Sections) + 1
    BY DEF EndCollect, Sections
  <1>2. OoKnown' /\ oo_held' \subseteq Resources
    BY <1>1, HoldsMore DEF OoPcs
  <1> QED BY <1>1, <1>2, OnlyHeldChanges DEF OoPcs, Early, Late

\* .BTF.ext is held only with .BTF.
LEMMA BtfKeeps == ASSUME OoInv, bpf_object__init_btf PROVE OoInv'
  <1>1. oo.pc = "btf" /\ UNCHANGED <<oo_file, oo_shndx, oo_progs, oo_maps, oo_relo>>
    BY DEF bpf_object__init_btf
  <1>2. PICK more \in {{}, {"btf"}, {"btf", "btf_ext"}} : oo_held' = oo_held \cup more
    <2>1. CASE UNCHANGED oo_held
      BY <2>1
    <2>2. CASE OoHolds({"btf"} \cup (IF InFile(".BTF.ext") THEN {"btf_ext"} ELSE {})) \/ OoHolds({"btf"})
      BY <2>2 DEF OoHolds
    <2> QED BY <2>1, <2>2 DEF bpf_object__init_btf
  <1>3. CASE OoGoto("maps")
    <2>1. OoKnown' /\ oo_held' \subseteq Resources
      BY <1>1, <1>2, <1>3, HoldsMore DEF OoPcs
    <2> QED BY <1>1, <1>3, <2>1, OnlyHeldChanges DEF OoPcs, Early, Late
  <1>4. CASE OoGoto("close")
    BY <1>1, <1>2, <1>4, GoesToClose
  <1> QED BY <1>3, <1>4 DEF bpf_object__init_btf

\* .BTF.ext is dropped with .BTF.
LEMMA LoadBtfKeeps == ASSUME OoInv, sanitize_and_load_btf PROVE OoInv'
  <1>1. /\ oo.pc = "load_btf" /\ UNCHANGED <<oo_file, oo_shndx, oo_progs, oo_maps, oo_relo>> /\ OoTypes
    BY DEF sanitize_and_load_btf, OoInv
  <1>2. PICK pc \in {"close", "names"} : OoGoto(pc)
    BY DEF sanitize_and_load_btf
  <1>3. oo_held' \in {oo_held, oo_held \ {"btf_ext"}, oo_held \ {"btf", "btf_ext"}}
    BY DEF sanitize_and_load_btf
  <1>4. oo'.pc = pc
    BY <1>1, <1>2, OoMoves DEF OoPcs
  <1>5. OoKnown' /\ oo_held' \subseteq Resources
    BY <1>1, <1>2, <1>3, <1>4 DEF OoInv, OoKnown, OoTypes, Resources, Sections
  <1> QED BY <1>1, <1>2, <1>5, OnlyHeldChanges DEF OoPcs, Early, Late

\* Nothing is held for the names.
LEMMA NamesKeeps == ASSUME OoInv, bpf_object__init_prog_names PROVE OoInv'
  <1>1. /\ oo.pc = "names" /\ UNCHANGED <<oo_file, oo_shndx, oo_progs, oo_maps, oo_relo, oo_held>>
        /\ oo_held' = oo_held \cup {}
    BY DEF bpf_object__init_prog_names
  <1>2. CASE OoGoto("relocs")
    <2>1. OoKnown' /\ oo_held' \subseteq Resources
      BY <1>1, <1>2, HoldsMore DEF OoPcs
    <2> QED BY <1>1, <1>2, <2>1, OnlyHeldChanges DEF OoPcs, Early, Late
  <1>3. CASE OoGoto("close")
    BY <1>1, <1>3, GoesToClose
  <1> QED BY <1>2, <1>3 DEF bpf_object__init_prog_names

\* The Elf and what it lends are given back.
LEMMA FinishKeeps == ASSUME OoInv, FinishOpen PROVE OoInv'
  <1>1. /\ oo.pc = "finish" /\ UNCHANGED <<oo_file, oo_shndx, oo_progs, oo_maps, oo_relo>> /\ OoTypes
        /\ oo_held' = ElfFinished
    BY DEF FinishOpen, OoInv
  <1>2. PICK pc \in {"close", "opened"} : OoGoto(pc)
    BY DEF FinishOpen
  <1>3. oo'.pc = pc
    BY <1>1, <1>2, OoMoves DEF OoPcs
  <1>4. OoKnown' /\ oo_held' \subseteq Resources
    BY <1>1, <1>2, <1>3 DEF ElfFinished, OoInv, OoKnown, OoTypes, Resources, Sections
  <1> QED BY <1>1, <1>2, <1>4, OnlyHeldChanges DEF OoPcs, Early, Late

\* Whatever is held is known of, except the descriptor of a file without an Elf.
LEMMA CloseKeeps == ASSUME OoInv, bpf_object__close PROVE OoInv'
  <1>1. /\ oo.pc \in {"close", "opened"} /\ UNCHANGED <<oo_file, oo_shndx, oo_progs, oo_maps, oo_relo>>
        /\ OoTypes /\ oo_held' = ClosedOf
        /\ OoGoto(IF oo.pc = "close" THEN "failed" ELSE "closed")
    BY DEF bpf_object__close, OoInv
  <1>2. oo'.pc = IF oo.pc = "close" THEN "failed" ELSE "closed"
    BY <1>1, OoMoves DEF OoPcs
  <1>3. oo_held \subseteq Resources
    BY <1>1 DEF OoTypes
  <1>4. \A s \in {".text", "xdp"} : s \in oo_held => s \in bpf_program__exit
    BY DEF OoInv, OoKnown, bpf_program__exit, Range, Sections
  <1>5. oo_held' \subseteq {"fd"} /\ ("fd" \in oo_held' => "fd" \in oo_held /\ "elf" \notin oo_held)
    <2>1. "elf" \notin oo_held => "reloc" \notin oo_held
      BY DEF OoInv, OoKnown
    <2>2. "reloc_desc" \in bpf_program__exit
      BY DEF bpf_program__exit
    <2> QED BY <1>1, <1>3, <1>4, <2>1, <2>2 DEF ClosedOf, ElfFinished, Resources
  <1>6. OoKnown'
    BY <1>1, <1>2, <1>5 DEF OoInv, OoKnown
  <1>7. oo_held' \subseteq Resources
    BY <1>5 DEF Resources
  <1> DEFINE pc == IF oo.pc = "close" THEN "failed" ELSE "closed"
  <1>8. pc \in {"failed", "closed"}
    OBVIOUS
  <1> QED BY <1>1, <1>6, <1>7, <1>8, OnlyHeldChanges DEF OoPcs, Early, Late

\* A section that is seen is known by its index, and a program frees its copy.
LEMMA CollectKeeps == ASSUME OoInv, CollectSection PROVE OoInv'
  <1>1. /\ oo.pc = "collect" /\ oo.i <= Len(Sections) /\ UNCHANGED <<oo_file, oo_maps, oo_relo>>
        /\ OoTypes /\ OoIndices /\ OoKnown /\ Sections' = Sections
    BY DEF CollectSection, OoInv, Sections
  <1>2. oo.i \in DOMAIN Sections /\ DOMAIN Sections = 1 .. Len(Sections) /\ Len(Sections) \in Nat /\ oo.i \in Nat
    BY <1>1, OoSections DEF OoIndices
  <1>3. \A a, b \in DOMAIN Sections : Sections[a] = Sections[b] => a = b
    BY <1>1, OoSections
  <1>4. CASE OoGoto("close") /\ UNCHANGED <<oo_shndx, oo_progs, oo_held>>
    <2>1. oo_held' = oo_held \cup {}
      BY <1>4
    <2> QED BY <1>1, <1>4, <2>1, GoesToClose
  <1> DEFINE s == Sections[oo.i]
             H == CASE s = ".relxdp" -> {"reloc"} [] s \in {".text", "xdp"} -> {"programs", s} [] OTHER -> {}
  <1>5. CASE /\ oo' = [oo EXCEPT !.i = @ + 1]
             /\ oo_shndx' = IF s \in DOMAIN oo_shndx THEN [oo_shndx EXCEPT ![s] = oo.i] ELSE oo_shndx
             /\ oo_progs' = IF s \in {".text", "xdp"} THEN Append(oo_progs, oo.i) ELSE oo_progs
             /\ oo_held' = oo_held \cup H
    <2>1. oo' \in [pc : OoPcs, i : Nat] /\ oo'.pc = "collect" /\ oo'.i = oo.i + 1
      BY <1>1, <1>2, <1>5 DEF OoTypes
    <2>2. DOMAIN oo_shndx = KnownSections
      BY <1>1 DEF OoIndices
    <2>3. H \subseteq {"reloc", "programs", ".text", "xdp"} /\ (".text" \in H => s = ".text") /\ ("xdp" \in H => s = "xdp")
      OBVIOUS
    <2> HIDE DEF H
    <2>4. oo_progs \in Seq(Nat) /\ oo_held \subseteq Resources
      BY <1>1 DEF OoTypes
    <2>5. oo_progs' \in Seq(Nat)
      BY <1>2, <1>5, <2>4
    <2>6. OoTypes'
      BY <1>1, <1>5, <2>1, <2>3, <2>4, <2>5 DEF OoTypes, Resources
    <2>7. DOMAIN oo_shndx' = KnownSections
      BY <1>5, <2>2
    <2>8. \A t \in KnownSections : oo_shndx'[t] = IF t = s THEN oo.i ELSE oo_shndx[t]
      BY <1>5, <2>2
    <2>9. \A t \in KnownSections :
            \/ \E n \in DOMAIN Sections : Sections[n] = t /\ oo_shndx'[t] = n
            \/ oo_shndx'[t] = NoSection[t]
      BY <1>1, <1>2, <2>8 DEF OoIndices
    <2>10. \A n \in DOMAIN Sections :
             n < oo.i + 1 /\ Sections[n] \in KnownSections => oo_shndx'[Sections[n]] = n
      <3> SUFFICES ASSUME NEW n \in DOMAIN Sections, n < oo.i + 1, Sections[n] \in KnownSections
                   PROVE  oo_shndx'[Sections[n]] = n
        OBVIOUS
      <3>1. CASE n = oo.i
        BY <2>8, <3>1
      <3>2. CASE n # oo.i
        <4>1. n < oo.i /\ Sections[n] # s
          BY <1>2, <1>3, <3>2
        <4>2. oo_shndx[Sections[n]] = n
          BY <1>1, <4>1 DEF OoIndices
        <4> QED BY <2>8, <4>1, <4>2
      <3> QED BY <3>1, <3>2
    <2>11. OoIndices'
      BY <1>1, <1>2, <2>1, <2>7, <2>9, <2>10 DEF OoIndices
    <2>12. "elf" \in oo_held
      BY <1>1 DEF OoKnown
    <2>13. \A t \in {".text", "xdp"} : t \in oo_held' =>
             \E k \in DOMAIN oo_progs' : oo_progs'[k] \in DOMAIN Sections /\ Sections[oo_progs'[k]] = t
      <3> SUFFICES ASSUME NEW t \in {".text", "xdp"}, t \in oo_held'
                   PROVE  \E k \in DOMAIN oo_progs' :
                            oo_progs'[k] \in DOMAIN Sections /\ Sections[oo_progs'[k]] = t
        OBVIOUS
      <3>1. CASE t \in oo_held
        <4>1. PICK k \in DOMAIN oo_progs : oo_progs[k] \in DOMAIN Sections /\ Sections[oo_progs[k]] = t
          BY <1>1, <3>1 DEF OoKnown
        <4>2. k \in DOMAIN oo_progs' /\ oo_progs'[k] = oo_progs[k]
          BY <1>2, <1>5, <2>4
        <4> QED BY <4>1, <4>2
      <3>2. CASE t \notin oo_held
        <4>1. t = s
          BY <1>5, <2>3, <3>2
        <4>2. oo_progs' = Append(oo_progs, oo.i)
          BY <1>5, <4>1
        <4>3. Len(oo_progs) + 1 \in DOMAIN oo_progs' /\ oo_progs'[Len(oo_progs) + 1] = oo.i
          BY <1>2, <2>4, <4>2
        <4> QED BY <1>2, <4>1, <4>3
      <3> QED BY <3>1, <3>2
    <2>14. "btf_ext" \in oo_held' => "btf" \in oo_held'
      BY <1>1, <1>5, <2>3 DEF OoKnown
    <2>15. OoKnown'
      BY <1>1, <1>5, <2>1, <2>12, <2>13, <2>14 DEF OoKnown
    <2>16. OoMaps'
      BY <1>1, <2>1 DEF OoInv, OoMaps
    <2>17. OoRelo'
      BY <2>1 DEF OoRelo
    <2> QED BY <2>6, <2>11, <2>15, <2>16, <2>17 DEF OoInv
  <1>6. s = ThisSection
    BY DEF ThisSection, Sections
  <1> QED BY <1>4, <1>5, <1>6 DEF CollectSection, OoHolds, bpf_object__add_program

\* The maps of an object are those found.
LEMMA InitMapsKeeps == ASSUME OoInv, bpf_object__init_maps PROVE OoInv'
  <1>1. /\ oo.pc = "maps" /\ UNCHANGED <<oo_file, oo_shndx, oo_progs, oo_relo>>
        /\ OoTypes /\ OoIndices /\ Sections' = Sections
    BY DEF bpf_object__init_maps, OoInv, Sections
  <1>2. PICK more \in SUBSET {"maps", ".data", ".rodata"} : oo_held' = oo_held \cup more
    BY DEF bpf_object__init_maps, OoHolds
  <1>3. CASE UNCHANGED oo_maps /\ OoGoto("close")
    BY <1>1, <1>2, <1>3, GoesToClose
  <1>4. CASE oo_maps' = Sorted(MapsFound) /\ OoGoto("load_btf")
    <2>1. oo' \in [pc : OoPcs, i : Nat] /\ oo'.pc = "load_btf" /\ oo'.i = oo.i
      BY <1>1, <1>4, OoMoves DEF OoPcs
    <2>2. OoKnown' /\ oo_held' \subseteq Resources
      BY <1>1, <1>2, <1>4, HoldsMore DEF OoPcs
    <2>3. OoTypes'
      BY <1>1, <2>1, <2>2 DEF OoTypes, Sections
    <2>4. OoIndices'
      BY <1>1, <2>1 DEF OoIndices
    <2>5. \A n \in DOMAIN oo_maps' :
            \E s \in MapSections :
              /\ oo_maps'[n].type = IF s \in {"maps", ".maps"} THEN "UNSPEC" ELSE s
              /\ oo_maps'[n].sec_idx = oo_shndx[s]
      <3> SUFFICES ASSUME NEW n \in DOMAIN oo_maps'
                   PROVE  \E s \in MapSections :
                            /\ oo_maps'[n].type = IF s \in {"maps", ".maps"} THEN "UNSPEC" ELSE s
                            /\ oo_maps'[n].sec_idx = oo_shndx[s]
        OBVIOUS
      <3>1. oo_maps'[n] \in MapsFound
        BY <1>1, <1>4, SortedMaps
      <3> QED BY <1>1, <3>1, MapsFoundAre
    <2>6. OoMaps'
      <3>1. DOMAIN oo_maps' = 1 .. Cardinality(MapsFound) /\ Cardinality(MapsFound) \in Nat
        BY <1>1, <1>4, SortedMaps, MapsFoundFinite, FS_CardinalityType
      <3> QED BY <1>1, <2>1, <2>5, <3>1 DEF OoMaps
    <2>7. OoRelo'
      BY <2>1 DEF OoRelo
    <2> QED BY <2>2, <2>3, <2>4, <2>6, <2>7 DEF OoInv
  <1> QED BY <1>3, <1>4 DEF bpf_object__init_maps

\* The index that a relocation's section has among the sections that are known.
LEMMA RelocatedSection ==
  ASSUME OoInv, oo.pc \in Late, NEW s \in KnownSections, oo_shndx[s] = shdr_idx
  PROVE  \/ oo_file.relo.sec = s /\ shdr_idx \in DOMAIN Sections /\ Sections[shdr_idx] = s
         \/ s = ".text" /\ oo_file.relo.sec = "UNDEF" /\ ~ InFile(".text")
  <1>1. OoTypes /\ OoIndices
    BY DEF OoInv
  <1>2. Len(Sections) \in Nat /\ DOMAIN Sections = 1 .. Len(Sections)
    BY <1>1, OoSections
  <1> DEFINE r == oo_file.relo.sec
  <1>3. \/ \E n \in DOMAIN Sections : Sections[n] = s /\ oo_shndx[s] = n
        \/ oo_shndx[s] = NoSection[s]
    BY <1>1 DEF OoIndices
  <1>4. NoSection[s] = IF s = ".text" THEN 0 ELSE -1
    BY DEF NoSection, KnownSections, MapSections
  <1>5. CASE r \in Range(Sections)
    <2>1. \E n \in DOMAIN Sections : Sections[n] = r
      BY <1>5 DEF Range
    <2>2. shdr_idx = CHOOSE n \in DOMAIN Sections : Sections[n] = r
      BY <1>5 DEF shdr_idx, SectionIndex, Sections
    <2>3. shdr_idx \in DOMAIN Sections /\ Sections[shdr_idx] = r
      BY <2>1, <2>2
    <2> QED BY <1>2, <1>3, <1>4, <2>3
  <1>6. CASE r \notin Range(Sections)
    <2>1. r = "UNDEF" /\ shdr_idx = 0
      BY <1>1, <1>6 DEF OoTypes, shdr_idx, SectionIndex, Sections
    <2>2. s = ".text"
      BY <1>2, <1>3, <1>4, <2>1
    <2>3. ~ InFile(".text")
      <3> SUFFICES ASSUME ".text" \in Range(Sections) PROVE FALSE
        BY DEF InFile, Sections
      <3>1. PICK n \in DOMAIN Sections : Sections[n] = ".text"
        BY DEF Range
      <3>2. oo_shndx[".text"] = n
        BY <1>1, <3>1 DEF OoIndices, Late, KnownSections
      <3> QED BY <1>2, <2>1, <2>2, <3>2
    <2> QED BY <2>1, <2>2, <2>3
  <1> QED BY <1>5, <1>6

\* The map that is chosen is one that matches.
LEMMA ChosenMap ==
  ASSUME OoInv, \E n \in DOMAIN oo_maps : MatchingMap(oo_maps[n])
  PROVE  map_idx \in DOMAIN oo_maps /\ MatchingMap(oo_maps[map_idx])
  <1> DEFINE T == {n \in DOMAIN oo_maps : MatchingMap(oo_maps[n])}
  <1>1. PICK count \in Nat : DOMAIN oo_maps = 1 .. count
    BY DEF OoInv, OoMaps
  <1>2. T \in SUBSET Nat /\ T # {}
    BY <1>1
  <1>3. PICK x \in T : \A y \in T : x <= y
    BY <1>2, LeastElement
  <1>4. \A k \in 1 .. x - 1 : ~ MatchingMap(oo_maps[k])
    <2> SUFFICES ASSUME NEW k \in 1 .. x - 1, MatchingMap(oo_maps[k]) PROVE FALSE
      OBVIOUS
    <2>1. k \in T
      BY <1>1, <1>2
    <2> QED BY <1>1, <1>3, <2>1
  <1>5. \E n \in DOMAIN oo_maps : MatchingMap(oo_maps[n]) /\ \A k \in 1 .. n - 1 : ~ MatchingMap(oo_maps[k])
    BY <1>3, <1>4
  <1> HIDE DEF T
  <1> QED BY <1>5, Zenon DEF map_idx

DataSections == {".data", ".rodata", ".bss"}

\* A relocation that is described names a map that lies in the section of its symbol.
LEMMA DescribedRelo ==
  ASSUME OoInv, oo.pc = "relocs", NEW r, r = collect_reloc, r.type # "error"
  PROVE  /\ r.type \in {"LD64", "DATA"} =>
              LET m == oo_maps[r.map]
              IN /\ m.sec_idx \in DOMAIN Sections /\ Sections[m.sec_idx] = oo_file.relo.sec
                 /\ r.type = "LD64" => m.sec_offset = oo_file.relo.off
         /\ r.type = "unset" =>
              oo_file.relo.sec = ".text" \/ (oo_file.relo.sec = "UNDEF" /\ ~ InFile(".text"))
  <1>1. oo.pc \in Late /\ OoMaps /\ oo_file.relo.insn \in {"call", "ld64", "other"}
    BY ObjectOpenAssumption DEF Late, OoInv, OoTypes
  <1>2. relo_in_known_section
    BY DEF collect_reloc
  <1>3. CASE r.type = "unset"
    <2>1. ~ IsMaps /\ ~ IsData
      BY <1>1, <1>2, <1>3 DEF collect_reloc
    <2>2. oo_shndx[".text"] = shdr_idx
      BY <1>2, <2>1 DEF relo_in_known_section
    <2> QED BY <1>1, <1>3, <2>2, RelocatedSection DEF KnownSections, MapSections
  <1>4. CASE r.type \in {"LD64", "DATA"}
    <2>1. /\ IsMaps \/ IsData
          /\ \E n \in DOMAIN oo_maps : MatchingMap(oo_maps[n])
          /\ r = [type |-> IF IsData THEN "DATA" ELSE "LD64", map |-> map_idx]
      BY <1>1, <1>2, <1>4 DEF collect_reloc
    <2>2. r.map = map_idx /\ (r.type = "DATA" <=> IsData)
      BY <2>1
    <2> DEFINE m == oo_maps[map_idx]
    <2>3. map_idx \in DOMAIN oo_maps /\ MatchingMap(m)
      BY <2>1, ChosenMap
    <2>4. PICK t \in MapSections :
            /\ m.type = IF t \in {"maps", ".maps"} THEN "UNSPEC" ELSE t
            /\ m.sec_idx = oo_shndx[t]
      BY <1>1, <2>3 DEF OoMaps
    <2>5. CASE IsData
      <3>1. map_type \in DataSections /\ oo_shndx[map_type] = shdr_idx
        <4>1. \E s \in DataSections : oo_shndx[s] = shdr_idx
          BY <2>5 DEF IsData, DataSections
        <4>2. map_type = CHOOSE s \in DataSections : oo_shndx[s] = shdr_idx
          BY <2>5 DEF map_type, DataSections
        <4> QED BY <4>1, <4>2
      <3>2. t = map_type
        BY <2>3, <2>4, <3>1 DEF MatchingMap, DataSections
      <3>3. Sections[shdr_idx] = oo_file.relo.sec /\ shdr_idx \in DOMAIN Sections
        BY <1>1, <3>1, RelocatedSection DEF KnownSections, MapSections, DataSections
      <3> QED BY <1>4, <2>2, <2>4, <2>5, <3>1, <3>2, <3>3
    <2>6. CASE ~ IsData
      <3>1. m.sec_idx = shdr_idx /\ m.sec_offset = oo_file.relo.off
        BY <2>3, <2>6 DEF MatchingMap, map_type
      <3>2. PICK s \in {"maps", ".maps"} : oo_shndx[s] = shdr_idx
        BY <2>1, <2>6 DEF IsMaps
      <3>3. Sections[shdr_idx] = oo_file.relo.sec /\ shdr_idx \in DOMAIN Sections
        BY <1>1, <3>2, RelocatedSection DEF KnownSections, MapSections
      <3> QED BY <1>4, <2>2, <3>1, <3>3
    <2> QED BY <2>5, <2>6
  <1> QED BY <1>3, <1>4

\* A relocation is described, or the object is closed.
LEMMA CollectRelocKeeps == ASSUME OoInv, bpf_object__collect_reloc PROVE OoInv'
  <1>1. /\ oo.pc = "relocs" /\ UNCHANGED <<oo_file, oo_shndx, oo_progs, oo_maps>>
        /\ OoTypes /\ OoIndices /\ OoMaps /\ Sections' = Sections
    BY DEF bpf_object__collect_reloc, OoInv, Sections
  <1>2. CASE OoGoto("close") /\ UNCHANGED <<oo_relo, oo_held>>
    <2>1. oo_held' = oo_held \cup {}
      BY <1>2
    <2> QED BY <1>1, <1>2, <2>1, GoesToClose
  <1> DEFINE pc == IF collect_reloc.type = "error" THEN "close" ELSE "finish"
  <1>3. CASE OoHolds({"reloc_desc"}) /\ oo_relo' = collect_reloc /\ OoGoto(pc)
    <2>1. pc \in OoPcs
      BY DEF OoPcs
    <2>2. oo' \in [pc : OoPcs, i : Nat] /\ oo'.pc = pc /\ oo'.i = oo.i
      BY <1>1, <1>3, <2>1, OoMoves
    <2>3. OoKnown' /\ oo_held' \subseteq Resources
      BY <1>1, <1>3, <2>1, HoldsMore DEF OoHolds
    <2>4. OoTypes'
      BY <1>1, <2>2, <2>3 DEF OoTypes, Sections
    <2>5. OoIndices' /\ OoMaps'
      BY <1>1, <2>2 DEF OoIndices, OoMaps
    <2>6. OoRelo'
      <3>1. oo'.pc \in {"finish", "opened"} => collect_reloc.type # "error"
        BY <2>2
      <3> HIDE DEF pc
      <3> QED BY <1>1, <1>3, <3>1, DescribedRelo DEF OoRelo, InFile, Sections
    <2> QED BY <2>3, <2>4, <2>5, <2>6 DEF OoInv
  <1> QED BY <1>2, <1>3 DEF bpf_object__collect_reloc

\* At the start nothing is held or known.
LEMMA OoInvInit == ASSUME OoInit PROVE OoInv
  <1>1. Sections \in SectionLists /\ oo_file.relo \in Relocations
    BY DEF OoInit, Sections
  <1>2. OoTypes
    BY <1>1 DEF OoInit, OoStart, OoTypes, OoPcs, Sections, Resources
  <1>3. OoIndices
    BY DEF OoInit, OoStart, OoIndices, NoSection, KnownSections, MapSections
  <1>4. OoKnown
    BY DEF OoInit, OoStart, OoKnown
  <1>5. OoMaps
    BY DEF OoInit, OoStart, OoMaps
  <1>6. OoRelo
    BY DEF OoInit, OoStart, OoRelo
  <1> QED BY <1>2, <1>3, <1>4, <1>5, <1>6 DEF OoInv

\* Every step keeps the invariant.
LEMMA OoInvStep == ASSUME OoInv, [OoNext]_ooVars PROVE OoInv'
  <1>1. CASE UNCHANGED ooVars
    BY <1>1 DEF ooVars, OoInv, OoTypes, OoIndices, OoKnown, OoMaps, OoRelo, Sections, InFile
  <1>2. CASE OoNext
    BY <1>2, NewKeeps, ElfInitKeeps, EndianKeeps, CapsKeeps, CollectKeeps, EndCollectKeeps, BtfKeeps,
       InitMapsKeeps, LoadBtfKeeps, NamesKeeps, CollectRelocKeeps, FinishKeeps, CloseKeeps DEF OoNext
  <1> QED BY <1>1, <1>2

\* ObjectOpen.tla: the invariant, for every behaviour of __bpf_object__open.
THEOREM OpenInvariant == OoSpec => []OoInv
  <1>1. OoInit => OoInv
    BY OoInvInit
  <1>2. OoInv /\ [OoNext]_ooVars => OoInv'
    BY OoInvStep
  <1> QED BY <1>1, <1>2, PTL DEF OoSpec

\* ObjectOpen.tla: whatever fails, in a file of any sections in any order, nothing of the object
\* stays held but the one descriptor, the relocation of an open object names the map of its
\* symbol, although the maps were sorted, and .BTF.ext is not without .BTF.
THEOREM ObjectsAlwaysOpenWhole == OoSpec => []OpensWholeOrNot
  <1>1. OoInv => OpensWholeOrNot
    <2> SUFFICES ASSUME OoInv PROVE OpensWholeOrNot
      OBVIOUS
    <2>1. OpenLeavesNothing
      BY DEF OoInv, OoKnown, OpenLeavesNothing
    <2>2. RelocsPointHome /\ RelocsAreDescribed
      BY DEF OoInv, OoRelo, RelocsPointHome, RelocsAreDescribed, Sections
    <2>3. ExtNeedsBtf
      BY DEF OoInv, OoKnown, ExtNeedsBtf
    <2> QED BY <2>1, <2>2, <2>3 DEF OpensWholeOrNot
  <1> QED BY <1>1, OpenInvariant, PTL

-----------------------------------------------------------------------------
(* ProgLoad.                                                               *)

\* The kernel accepts the program, and takes its log.
PlAccepts == pl_case.accepts /\ LogFits
\* What is no fault of load_program.
PlExcused == pl_faults > 0 \/ ~ PlAccepts
PlAttrs == [cut : SUBSET BtfInfo, log : BOOLEAN]
PlLogs == [size : Nat, text : BOOLEAN]
\* The sizes of the buffer: one that grew from LogSize within the kernel's maximum, if that is enough.
PlRoom == PlAccepts => LogSize <= pl_size /\ (pl_case.log_level > 0 => pl_size <= pl_case.max_log)
PlType ==
  /\ pl_case \in [accepts : BOOLEAN, as_kprobe : BOOLEAN, older : SUBSET BtfInfo, log : 0 .. MaxLog,
                  max_log : KernelLogs, log_level : {0, 1}, too_big : BOOLEAN]
  /\ pl_case.accepts => ~ pl_case.too_big
  /\ pl \in {"alloc", "xattr", "sys", "cut", "failed", "kprobe", "loaded", "done"}
  /\ pl_attr \in PlAttrs /\ pl_log \in PlLogs
  /\ pl_size \in Int \ {0} /\ pl_size <= IntMax /\ pl_signals \in Nat /\ pl_faults \in Nat
\* The invariant: a program fails for a full log only when the log is longer than its buffer, and a
\* program that the kernel accepts, with its log, fails for nothing else unless memory ran out.
PlInv ==
  /\ PlType /\ PlRoom
  /\ pl = "xattr" => pl_log.size = pl_size \/ (pl_log.size = 0 /\ pl_errno = "ENOMEM" /\ PlExcused)
  /\ pl \in {"sys", "cut"} => pl_log.size = pl_size /\ (pl_attr.log /\ pl_case.accepts => pl_case.log_level > 0)
  /\ pl = "cut" => pl_errno = KernelSays(pl_attr) /\ pl_errno # "fd"
  /\ pl = "failed" => \/ /\ pl_errno = "ENOSPC" /\ 0 < pl_size /\ pl_size < pl_case.log
                         /\ pl_case.accepts => pl_case.log_level > 0
                      \/ pl_errno # "ENOSPC" /\ PlExcused
  /\ pl = "kprobe" => PlExcused
  /\ pl = "done" => pl_ret = "0" \/ PlExcused

\* How far the load is from its end: the room a log may still lack, then the steps of one round.
PlLacks == IF pl_size < 0 \/ pl_size > MaxLog THEN 0 ELSE MaxLog + 1 - pl_size
PlTries == (IF "func_info" \in pl_attr.cut THEN 0 ELSE 1) + (IF "line_info" \in pl_attr.cut THEN 0 ELSE 1)
           + (IF pl_attr.log THEN 0 ELSE 1)
PlStepsLeft ==
  CASE pl = "alloc" -> 14 [] pl = "xattr" -> 13 [] pl = "sys" -> 6 + 2 * PlTries [] pl = "cut" -> 5 + 2 * PlTries
    [] pl = "failed" -> 4 [] pl \in {"kprobe", "loaded"} -> 1 [] OTHER -> 0
PlMeasure == 15 * PlLacks + PlStepsLeft

\* load_program: a program that the kernel accepts is loaded, whatever records it has to lose and
\* however many signals interrupt it, with a log of up to half the kernel's maximum, unless memory
\* runs out.
LoadedIfAccepted == pl = "done" /\ pl_case.accepts /\ pl_faults = 0 /\ LogFits => pl_ret = "0"
\* load_program: every attempt and every retry brings its end nearer, but the one after a signal,
\* which takes it no further away: nothing else bounds the loop of sys_bpf_prog_load.
EndComesNearer ==
  [][/\ {PlMeasure, PlMeasure'} \subseteq Nat
     /\ PlMeasure' < PlMeasure \/ (PlMeasure' = PlMeasure /\ pl_signals' = pl_signals + 1)]_plVars

\* The measure is a number, and the steps left are few.
LEMMA PlMeasureIs ==
  ASSUME PlInv
  PROVE  /\ PlLacks \in Nat /\ PlTries \in 0 .. 3 /\ PlStepsLeft \in 0 .. 14
         /\ PlMeasure \in Nat
  <1>1. PlLacks \in Nat /\ PlTries \in 0 .. 3
    BY ProgLoadAssumption DEF PlInv, PlType, PlLacks, PlTries
  <1>2. PlStepsLeft \in 0 .. 14
    BY <1>1 DEF PlInv, PlType, PlStepsLeft
  <1> QED BY <1>1, <1>2 DEF PlMeasure

\* The numbers of the case.
LEMMA PlNumbers ==
  ASSUME PlType
  PROVE  /\ LogSize \in Nat \ {0} /\ LogSize <= IntMax /\ IntMax \in Nat /\ MaxLog \in Nat
         /\ pl_case.log \in Nat /\ pl_case.log <= MaxLog
         /\ pl_case.max_log \in Nat /\ pl_case.max_log <= IntMax
         /\ pl_log.size \in Nat /\ pl_size \in Int /\ pl_size # 0
  <1>1. pl_case.log \in 0 .. MaxLog /\ pl_case.max_log \in KernelLogs /\ pl_log.size \in Nat /\ pl_size \in Int \ {0}
    BY DEF PlType, PlLogs
  <1>2. pl_case.max_log \in 0 .. IntMax
    BY <1>1, ProgLoadAssumption
  <1> QED BY <1>1, <1>2, ProgLoadAssumption

\* The kernel's answers.
LEMMA AnswerIs ==
  ASSUME PlInv, NEW attr \in PlAttrs
  PROVE  LET answer == KernelSays(attr) IN
         /\ answer \in {"E2BIG", "EINVAL", "ENOSPC", "fd", "EACCES"}
         /\ answer = "ENOSPC" => attr.log /\ pl_log.size < pl_case.log
         /\ answer = "EINVAL" => attr.log /\ pl_log.size > pl_case.max_log
         /\ pl_case.accepts /\ answer \in {"E2BIG", "EACCES"} => answer = "E2BIG" /\ pl_case.older \ attr.cut # {}
  <1>1. /\ pl_case.log \in Nat /\ pl_case.max_log \in Nat /\ pl_log.size \in Nat
        /\ pl_case.accepts \in BOOLEAN /\ pl_case.too_big \in BOOLEAN /\ attr.log \in BOOLEAN
        /\ pl_case.accepts => ~ pl_case.too_big
    <2>1. PlType
      BY DEF PlInv
    <2> QED BY <2>1, PlNumbers DEF PlType, PlAttrs
  <1> QED BY <1>1 DEF KernelSays

\* A step keeps the invariant and does not take the load further from its end.
PlNearer == PlMeasure' < PlMeasure \/ (PlMeasure' = PlMeasure /\ pl_signals' = pl_signals + 1)
PlGood == PlInv' /\ PlNearer

\* The case does not change, and with it what the kernel makes of the log.
LEMMA CaseStays ==
  ASSUME UNCHANGED pl_case PROVE LogFits' = LogFits /\ PlAccepts' = PlAccepts
  <1> QED BY DEF LogFits, PlAccepts

\* retry_load.
LEMMA AllocLogStep ==
  ASSUME PlInv, AllocLog PROVE PlGood
  <1>1. /\ pl = "alloc" /\ pl' = "xattr" /\ UNCHANGED <<pl_case, pl_attr, pl_size, pl_signals, pl_ret>>
        /\ PlType /\ PlRoom /\ LogFits' = LogFits /\ PlAccepts' = PlAccepts /\ pl_size \in Int
    BY CaseStays DEF PlInv, PlType, AllocLog
  <1>2. PlRoom'
    BY <1>1 DEF PlRoom
  <1>3. PlInv'
    <2>1. \/ /\ pl_size > 0 /\ PlSucceeds
             /\ \E text \in BOOLEAN : pl_log' = [size |-> pl_size, text |-> text]
             /\ UNCHANGED pl_errno
          \/ /\ PlFails \/ (pl_size < 0 /\ PlSucceeds)
             /\ pl_log' = [size |-> 0, text |-> FALSE] /\ pl_errno' = "ENOMEM"
      BY DEF AllocLog
    <2>2. CASE /\ pl_size > 0 /\ PlSucceeds
               /\ \E text \in BOOLEAN : pl_log' = [size |-> pl_size, text |-> text]
               /\ UNCHANGED pl_errno
      <3>1. PICK text \in BOOLEAN : pl_log' = [size |-> pl_size, text |-> text]
        BY <2>2
      <3>2. pl_log' \in PlLogs /\ pl_log'.size = pl_size
        BY <1>1, <2>2, <3>1 DEF PlLogs
      <3>3. PlType'
        BY <1>1, <2>2, <3>2 DEF PlType, PlSucceeds
      <3> QED BY <1>1, <1>2, <3>2, <3>3 DEF PlInv
    <2>3. CASE /\ PlFails \/ (pl_size < 0 /\ PlSucceeds)
               /\ pl_log' = [size |-> 0, text |-> FALSE] /\ pl_errno' = "ENOMEM"
      <3>1. pl_faults' \in Nat /\ (pl_faults' > 0 \/ pl_size < 0)
        BY <1>1, <2>3 DEF PlFails, PlSucceeds, PlType
      <3>2. PlExcused'
        BY <1>1, <3>1, ProgLoadAssumption DEF PlExcused, PlRoom
      <3>3. PlType'
        BY <1>1, <2>3, <3>1 DEF PlType, PlLogs
      <3> QED BY <1>1, <2>3, <1>2, <3>2, <3>3 DEF PlInv
    <2> QED BY <2>1, <2>2, <2>3
  <1>4. PlLacks' = PlLacks /\ PlStepsLeft = 14 /\ PlStepsLeft' = 13
    BY <1>1 DEF PlLacks, PlStepsLeft
  <1> QED BY <1>3, <1>4, PlMeasureIs DEF PlMeasure, PlNearer, PlGood

\* The first try of bpf_load_program_xattr.
LEMMA XattrFirstStep ==
  ASSUME PlInv, XattrFirst PROVE PlGood
  <1>1. /\ pl = "xattr" /\ UNCHANGED <<pl_case, pl_log, pl_size, pl_errno, pl_signals, pl_ret, pl_faults>>
        /\ PlType /\ PlRoom /\ LogFits' = LogFits /\ PlAccepts' = PlAccepts /\ PlExcused' = PlExcused
    BY CaseStays DEF PlInv, XattrFirst, PlExcused
  <1>2. PlLacks' = PlLacks /\ PlStepsLeft = 13
    BY <1>1 DEF PlLacks, PlStepsLeft
  <1>3. CASE pl_log.size = 0
    <2>1. pl' = "failed" /\ UNCHANGED pl_attr /\ pl_errno = "ENOMEM" /\ PlExcused
      BY <1>1, <1>3 DEF XattrFirst, PlInv, PlType
    <2>2. PlInv' /\ PlStepsLeft' = 4
      BY <1>1, <2>1 DEF PlInv, PlType, PlRoom, PlStepsLeft
    <2> QED BY <1>2, <2>2, PlMeasureIs DEF PlMeasure, PlNearer, PlGood
  <1>4. CASE pl_log.size # 0
    <2>1. pl' = "sys" /\ pl_attr' = [cut |-> {}, log |-> pl_case.log_level > 0] /\ pl_log.size = pl_size
      BY <1>1, <1>4 DEF XattrFirst, PlInv, PlType
    <2>2. pl_attr' \in PlAttrs /\ (pl_attr'.log => pl_case.log_level > 0)
      BY <1>1, <2>1 DEF PlAttrs, PlType
    <2>3. PlInv'
      BY <1>1, <2>1, <2>2 DEF PlInv, PlType, PlRoom
    <2>4. PlTries' \in 0 .. 3
      BY DEF PlTries
    <2>5. PlStepsLeft' \in 0 .. 12
      BY <2>1, <2>4 DEF PlStepsLeft
    <2> QED BY <1>2, <2>3, <2>5, PlMeasureIs DEF PlMeasure, PlNearer, PlGood
  <1> QED BY <1>3, <1>4

\* Into the kernel, and again for every signal.
LEMMA SysProgLoadStep ==
  ASSUME PlInv, sys_bpf_prog_load PROVE PlGood
  <1>1. /\ pl = "sys" /\ UNCHANGED <<pl_case, pl_attr, pl_size, pl_ret, pl_faults>>
        /\ PlType /\ PlRoom /\ LogFits' = LogFits /\ PlAccepts' = PlAccepts /\ PlExcused' = PlExcused
        /\ pl_log.size = pl_size /\ (pl_attr.log /\ pl_case.accepts => pl_case.log_level > 0)
    BY CaseStays DEF PlInv, sys_bpf_prog_load, PlExcused
  <1>2. pl_log' \in PlLogs /\ pl_log'.size = pl_log.size
    BY <1>1 DEF sys_bpf_prog_load, PlType, PlLogs
  <1>3. PlLacks' = PlLacks /\ PlTries' = PlTries /\ PlStepsLeft = 6 + 2 * PlTries
    BY <1>1 DEF PlLacks, PlTries, PlStepsLeft
  <1>4. CASE pl_signals' = pl_signals + 1 /\ pl_errno' = "EAGAIN" /\ UNCHANGED pl
    <2>1. PlInv'
      BY <1>1, <1>2, <1>4 DEF PlInv, PlType, PlRoom
    <2>2. PlStepsLeft' = PlStepsLeft
      BY <1>1, <1>3, <1>4 DEF PlStepsLeft
    <2> QED BY <1>3, <1>4, <2>1, <2>2 DEF PlMeasure, PlNearer, PlGood
  <1>5. CASE /\ UNCHANGED pl_signals
             /\ IF KernelSays(pl_attr) = "fd" THEN pl' = "loaded" /\ UNCHANGED pl_errno
                ELSE pl' = "cut" /\ pl_errno' = KernelSays(pl_attr)
    <2>1. KernelSays(pl_attr)' = KernelSays(pl_attr)
      BY <1>1, <1>2 DEF KernelSays
    <2>2. PlInv'
      BY <1>1, <1>2, <1>5, <2>1 DEF PlInv, PlType, PlRoom
    <2>3. PlStepsLeft' < PlStepsLeft /\ PlStepsLeft' \in Nat
      BY <1>3, <1>5, PlMeasureIs DEF PlStepsLeft
    <2> QED BY <1>3, <2>2, <2>3, PlMeasureIs DEF PlMeasure, PlNearer, PlGood
  <1> QED BY <1>4, <1>5 DEF sys_bpf_prog_load

\* Another try with shorter records.
LEMMA XattrCutStep ==
  ASSUME PlInv, XattrCut PROVE PlGood
  <1> DEFINE info == IF "func_info" \in ToCut THEN "func_info" ELSE "line_info"
  <1>1. /\ pl = "cut" /\ UNCHANGED <<pl_case, pl_log, pl_size, pl_signals, pl_ret>>
        /\ PlType /\ PlRoom /\ LogFits' = LogFits /\ PlAccepts' = PlAccepts
        /\ pl_log.size = pl_size /\ (pl_attr.log /\ pl_case.accepts => pl_case.log_level > 0)
    BY CaseStays DEF PlInv, XattrCut
  <1>2. PlLacks' = PlLacks /\ PlStepsLeft = 5 + 2 * PlTries
    BY <1>1 DEF PlLacks, PlStepsLeft
  <1>3. info \in BtfInfo /\ info \notin pl_attr.cut
    BY <1>1 DEF XattrCut, ToCut, BtfInfo, PlType
  <1>4. CASE /\ PlSucceeds /\ pl' = "sys"
             /\ pl_attr' = [pl_attr EXCEPT !.cut = @ \cup {info}]
             /\ UNCHANGED pl_errno
    <2>1. pl_attr' \in PlAttrs /\ pl_attr'.cut = pl_attr.cut \cup {info} /\ pl_attr'.log = pl_attr.log
      BY <1>1, <1>3, <1>4 DEF PlType, PlAttrs
    <2> HIDE DEF info
    <2>2. PlInv'
      BY <1>1, <1>4, <2>1 DEF PlInv, PlType, PlRoom, PlSucceeds
    <2>3. PlTries' < PlTries /\ PlTries' \in 0 .. 3 /\ PlTries \in 0 .. 3
      BY <1>3, <2>1 DEF PlTries, BtfInfo
    <2>4. PlStepsLeft' < PlStepsLeft /\ PlStepsLeft' \in Nat
      BY <1>2, <1>4, <2>3 DEF PlStepsLeft
    <2> QED BY <1>2, <2>2, <2>4, PlMeasureIs DEF PlMeasure, PlNearer, PlGood
  <1>5. CASE PlFails /\ pl_errno' = "ENOMEM" /\ pl' = "failed" /\ UNCHANGED pl_attr
    <2>1. pl_faults' \in Nat /\ PlExcused'
      BY <1>1, <1>5 DEF PlFails, PlExcused, PlType
    <2>2. PlInv' /\ PlStepsLeft' = 4
      BY <1>1, <1>5, <2>1 DEF PlInv, PlType, PlRoom, PlStepsLeft
    <2> QED BY <1>2, <2>2, PlMeasureIs DEF PlMeasure, PlNearer, PlGood
  <1> QED BY <1>4, <1>5 DEF XattrCut

\* The last try has a log.
LEMMA XattrLogStep ==
  ASSUME PlInv, XattrLog PROVE PlGood
  <1>1. /\ pl = "cut" /\ UNCHANGED <<pl_case, pl_size, pl_errno, pl_signals, pl_ret, pl_faults>>
        /\ PlType /\ PlRoom /\ LogFits' = LogFits /\ PlAccepts' = PlAccepts /\ PlExcused' = PlExcused
        /\ pl_log.size = pl_size /\ (pl_attr.log /\ pl_case.accepts => pl_case.log_level > 0)
        /\ pl_errno = KernelSays(pl_attr) /\ pl_errno # "fd" /\ ToCut = {}
    BY CaseStays DEF PlInv, XattrLog, PlExcused
  <1>2. PlLacks' = PlLacks /\ PlStepsLeft = 5 + 2 * PlTries
    BY <1>1 DEF PlLacks, PlStepsLeft
  <1>3. pl_attr \in PlAttrs /\ (pl_case.accepts => ~ pl_case.too_big)
    BY <1>1 DEF PlType
  <1>4. pl_case.accepts => pl_errno \in {"EINVAL", "ENOSPC"}
    BY <1>1, <1>3, AnswerIs DEF ToCut
  <1>5. CASE pl_attr.log
    <2>1. pl' = "failed" /\ UNCHANGED <<pl_attr, pl_log>>
      BY <1>5 DEF XattrLog
    <2>2. \/ /\ pl_errno = "ENOSPC" /\ 0 < pl_size /\ pl_size < pl_case.log
             /\ pl_case.accepts => pl_case.log_level > 0
          \/ pl_errno # "ENOSPC" /\ PlExcused
      <3>1. pl_log.size \in Nat /\ pl_size # 0 /\ pl_size \in Int /\ pl_case.max_log \in Int
        BY <1>1, PlNumbers
      <3>2. CASE pl_errno = "ENOSPC"
        <4>1. pl_log.size < pl_case.log
          BY <1>1, <1>3, <3>2, AnswerIs
        <4> QED BY <1>1, <1>5, <3>1, <3>2, <4>1
      <3>3. CASE pl_errno # "ENOSPC"
        <4>1. pl_case.accepts => pl_size > pl_case.max_log
          BY <1>1, <1>3, <1>4, <3>3, AnswerIs
        <4> QED BY <1>1, <1>5, <3>1, <3>3, <4>1 DEF PlExcused, PlAccepts, PlRoom
      <3> QED BY <3>2, <3>3
    <2>3. PlInv' /\ PlStepsLeft' = 4
      BY <1>1, <2>1, <2>2 DEF PlInv, PlType, PlRoom, PlStepsLeft
    <2> QED BY <1>2, <2>3, PlMeasureIs DEF PlMeasure, PlNearer, PlGood
  <1>6. CASE ~ pl_attr.log
    <2>1. /\ pl' = "sys" /\ pl_attr' = [pl_attr EXCEPT !.log = TRUE]
          /\ pl_log' = [pl_log EXCEPT !.text = FALSE]
      BY <1>6 DEF XattrLog
    <2>2. ~ pl_case.accepts
      BY <1>1, <1>3, <1>4, <1>6, AnswerIs
    <2>3. pl_attr' \in PlAttrs /\ pl_attr'.log /\ pl_attr'.cut = pl_attr.cut
      BY <1>3, <2>1 DEF PlAttrs
    <2>4. pl_log' \in PlLogs /\ pl_log'.size = pl_log.size
      BY <1>1, <2>1 DEF PlType, PlLogs
    <2>5. PlInv'
      BY <1>1, <2>1, <2>2, <2>3, <2>4 DEF PlInv, PlType, PlRoom
    <2>6. PlTries' < PlTries /\ PlTries' \in 0 .. 3 /\ PlTries \in 0 .. 3
      BY <1>6, <2>3 DEF PlTries
    <2>7. PlStepsLeft' < PlStepsLeft /\ PlStepsLeft' \in Nat
      BY <1>2, <2>1, <2>6 DEF PlStepsLeft
    <2> QED BY <1>2, <2>5, <2>7, PlMeasureIs DEF PlMeasure, PlNearer, PlGood
  <1> QED BY <1>5, <1>6

\* Twice the room for the log, which may be a negative number, or an error.
LEMMA LoadFailedStep ==
  ASSUME PlInv, LoadFailed PROVE PlGood
  <1>1. /\ pl = "failed" /\ UNCHANGED <<pl_case, pl_attr, pl_log, pl_errno, pl_signals, pl_faults>>
        /\ PlType /\ PlRoom /\ LogFits' = LogFits /\ PlAccepts' = PlAccepts /\ PlExcused' = PlExcused
    BY CaseStays DEF PlInv, LoadFailed, PlExcused
  <1>2. PlStepsLeft = 4
    BY <1>1 DEF PlStepsLeft
  <1>3. CASE pl_errno = "ENOSPC"
    <2>1. pl_size' = NewSize /\ pl' = "alloc" /\ UNCHANGED pl_ret
      BY <1>3 DEF LoadFailed
    <2>2. /\ 0 < pl_size /\ pl_size < pl_case.log /\ (pl_case.accepts => pl_case.log_level > 0)
          /\ pl_size \in Int /\ pl_size <= IntMax /\ pl_case.log \in 0 .. MaxLog
      BY <1>1, <1>3 DEF PlInv, PlType
    <2>3. /\ pl_size' \in Int \ {0} /\ pl_size' <= IntMax
          /\ pl_size' = 2 * pl_size \/ (pl_size' < 0 /\ 2 * pl_size > IntMax)
      BY <2>1, <2>2, ProgLoadAssumption DEF NewSize
    <2>4. PlRoom'
      <3> SUFFICES ASSUME PlAccepts PROVE LogSize <= pl_size' /\ pl_size' <= pl_case.max_log
        BY <1>1 DEF PlRoom
      <3>1. pl_case.max_log \in 0 .. IntMax /\ LogSize \in Nat
        BY <1>1, PlNumbers
      <3>2. LogSize <= pl_size
        BY <1>1 DEF PlRoom
      <3>3. 2 * (pl_case.log - 1) <= pl_case.max_log
        BY <2>2, <3>1, <3>2 DEF PlAccepts, LogFits
      <3> QED BY <2>2, <2>3, <3>1, <3>2, <3>3, ProgLoadAssumption
    <2>5. PlInv'
      BY <1>1, <2>1, <2>3, <2>4 DEF PlInv, PlType
    <2>6. PlLacks' < PlLacks /\ PlLacks' \in Nat /\ PlLacks \in Nat
      <3>1. \A m \in Nat, p, q \in Int :
              LET Lacks(n) == IF n < 0 \/ n > m THEN 0 ELSE m + 1 - n IN
              0 < p /\ p < m /\ (q = 2 * p \/ q < 0) => Lacks(q) < Lacks(p) /\ {Lacks(p), Lacks(q)} \subseteq Nat
        OBVIOUS
      <3>2. MaxLog \in Nat /\ pl_size \in Int /\ pl_size' \in Int /\ 0 < pl_size /\ pl_size < MaxLog
        BY <1>1, <2>2, <2>3, PlNumbers
      <3> QED BY <2>3, <3>1, <3>2 DEF PlLacks
    <2>7. PlStepsLeft' = 14
      BY <2>1 DEF PlStepsLeft
    <2>8. PlMeasure' < PlMeasure
      <3>1. \A p, q \in Nat : p < q => 15 * p + 14 < 15 * q + 4
        OBVIOUS
      <3>2. PlMeasure' = 15 * (PlLacks') + 14 /\ PlMeasure = 15 * PlLacks + 4
        BY <1>2, <2>7 DEF PlMeasure
      <3> QED BY <2>6, <3>1, <3>2
    <2> QED BY <2>5, <2>8 DEF PlNearer, PlGood
  <1>4. CASE pl_errno # "ENOSPC"
    <2>1. pl' \in {"done", "kprobe"} /\ UNCHANGED pl_size /\ PlExcused
      BY <1>1, <1>4 DEF LoadFailed, PlInv
    <2>2. PlInv'
      BY <1>1, <2>1 DEF PlInv, PlType, PlRoom
    <2>3. PlLacks' = PlLacks /\ PlStepsLeft' \in 0 .. 1
      BY <2>1 DEF PlLacks, PlStepsLeft
    <2> QED BY <1>2, <2>2, <2>3, PlMeasureIs DEF PlMeasure, PlNearer, PlGood
  <1> QED BY <1>3, <1>4

\* The end: as a kprobe, or loaded.
LEMMA PlEndStep ==
  ASSUME PlInv, TryKprobe \/ Loaded PROVE PlGood
  <1>1. /\ pl \in {"kprobe", "loaded"} /\ UNCHANGED <<pl_case, pl_attr, pl_log, pl_size, pl_errno>>
        /\ PlType /\ PlRoom /\ LogFits' = LogFits /\ PlAccepts' = PlAccepts /\ PlLacks' = PlLacks
    BY CaseStays DEF PlInv, TryKprobe, Loaded, PlLacks
  <1>2. CASE Loaded
    <2>1. PlInv'
      BY <1>1, <1>2 DEF PlInv, PlType, PlRoom, Loaded
    <2>2. PlStepsLeft = 1 /\ PlStepsLeft' = 0
      BY <1>2 DEF Loaded, PlStepsLeft
    <2> QED BY <1>1, <2>1, <2>2, PlMeasureIs DEF PlMeasure, PlNearer, PlGood
  <1>3. CASE TryKprobe
    <2>1. /\ pl = "kprobe" /\ pl_faults' \in Nat /\ PlExcused' /\ pl_signals' \in Nat
          /\ pl' = "done" \/ (UNCHANGED pl /\ pl_signals' = pl_signals + 1)
      BY <1>1, <1>3 DEF TryKprobe, PlSucceeds, PlFails, PlExcused, PlInv, PlType
    <2>2. PlInv'
      BY <1>1, <2>1 DEF PlInv, PlType, PlRoom
    <2>3. PlStepsLeft = 1 /\ (pl' = "done" => PlStepsLeft' = 0) /\ (UNCHANGED pl => PlStepsLeft' = 1)
      BY <2>1 DEF PlStepsLeft
    <2> QED BY <1>1, <2>1, <2>2, <2>3, PlMeasureIs DEF PlMeasure, PlNearer, PlGood
  <1> QED BY <1>2, <1>3

\* The invariant at the start.
LEMMA PlInitInv == PlInit => PlInv
  <1> SUFFICES ASSUME PlInit PROVE PlInv
    OBVIOUS
  <1>1. PlType
    BY ProgLoadAssumption DEF PlInit, PlType, PlAttrs, PlLogs
  <1>2. PlRoom
    BY <1>1, ProgLoadAssumption DEF PlInit, PlRoom, PlAccepts, LogFits, PlType
  <1> QED BY <1>1, <1>2 DEF PlInit, PlInv

\* Every step.
LEMMA PlStep ==
  ASSUME PlInv, [PlNext]_plVars PROVE PlInv' /\ (PlNearer \/ UNCHANGED plVars)
  <1>1. CASE UNCHANGED plVars
    <2>1. KernelSays(pl_attr)' = KernelSays(pl_attr) /\ LogFits' = LogFits
      BY <1>1 DEF plVars, KernelSays, LogFits
    <2>2. PlExcused' = PlExcused /\ PlType' = PlType /\ PlRoom' = PlRoom
      BY <1>1, <2>1 DEF plVars, PlExcused, PlAccepts, PlType, PlRoom
    <2> QED BY <1>1, <2>1, <2>2 DEF plVars, PlInv
  <1>2. CASE PlNext
    BY <1>2, AllocLogStep, XattrFirstStep, SysProgLoadStep, XattrCutStep, XattrLogStep, LoadFailedStep, PlEndStep
    DEF PlNext, PlGood
  <1> QED BY <1>1, <1>2

\* ProgLoad.tla: a program that the kernel accepts is loaded once load_program has returned.
THEOREM AcceptedAlwaysLoaded == PlSpec => []LoadedIfAccepted
  <1>1. PlInit => PlInv
    BY PlInitInv
  <1>2. PlInv /\ [PlNext]_plVars => PlInv'
    BY PlStep
  <1>3. PlInv => LoadedIfAccepted
    BY DEF PlInv, PlExcused, PlAccepts, PlType, LoadedIfAccepted
  <1> QED BY <1>1, <1>2, <1>3, PTL DEF PlSpec

\* ProgLoad.tla: every try and retry brings the end of load_program nearer, for a log of any length, a
\* first buffer of any size and integers of any width, but the tries that a signal interrupts.
THEOREM RetriesAlwaysEnd == PlSpec => EndComesNearer
  <1>1. PlInit => PlInv
    BY PlInitInv
  <1>2. PlInv /\ [PlNext]_plVars => PlInv'
    BY PlStep
  <1>3. PlInv /\ PlInv' /\ [PlNext]_plVars => [{PlMeasure, PlMeasure'} \subseteq Nat /\ PlNearer]_plVars
    <2>1. ASSUME PlInv, PlInv' PROVE PlMeasure \in Nat /\ PlMeasure' \in Nat
      <3>1. (PlInv => PlMeasure \in Nat)'
        BY PlMeasureIs, PTL
      <3> QED BY <2>1, <3>1, PlMeasureIs
    <2> QED BY <2>1, PlStep
  <1> QED BY <1>1, <1>2, <1>3, PTL DEF PlSpec, EndComesNearer, PlNearer
=============================================================================
