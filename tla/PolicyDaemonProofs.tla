------------------------- MODULE PolicyDaemonProofs -------------------------
(***************************************************************************)
(* Proofs about PolicyDaemon, for every value of its constants.            *)
(***************************************************************************)
EXTENDS PolicyDaemon, FiniteSetTheorems, SequenceTheorems, WellFoundedInduction, TLAPS

\* The sources of a queue of samples are sources of the traffic.
LEMMA SourcesInType ==
  ASSUME NEW q \in Seq(Sample)
  PROVE  SourcesIn(q) \subseteq Sources
<1>1. q \in [1 .. Len(q) -> Sample]
  BY LenProperties
<1>2. \A i \in DOMAIN q : q[i].src \in Sources
  BY <1>1 DEF Sample
<1> QED
  BY <1>2 DEF SourcesIn

\* What detect_attackers reports is a policy and an address.
LEMMA DetectionsType ==
  ASSUME NEW q \in Seq(Sample), NEW d \in Detections(q)
  PROVE  d \subseteq Policies \X (Sources \cup Phantoms)
<1>1. Exceeding(q) \subseteq Policies \X Sources
  BY SourcesInType DEF Exceeding
<1> QED
  BY <1>1 DEF Detections

\* A change of the black list, done or failed, keeps the types.
LEMMA policy_change_type ==
  ASSUME TypeOK, NEW ip \in Address, NEW action,
         policy_change_black_list(ip, action)
  PROVE  /\ black_list' \subseteq Address \cup Listable
         /\ listed' \subseteq Listable
         /\ fds' \in 0 .. FD_LIMIT
<1>1. CASE ~ CanOpen
  BY <1>1 DEF TypeOK, policy_change_black_list, kernel
<1>2. CASE CanOpen
  <2>1. fds' \in 0 .. FD_LIMIT
    BY <1>2, ConstantsAssumption DEF TypeOK, policy_change_black_list, CanOpen
  <2>2. black_list' \subseteq black_list \cup {ip} /\ listed' \subseteq listed
    BY <1>2 DEF policy_change_black_list
  <2> QED
    BY <2>1, <2>2 DEF TypeOK
<1> QED
  BY <1>1, <1>2

\* A packet that comes to the perf output adds its sample to its ring, or nothing to any.
LEMMA EmitAppends ==
  ASSUME TypeOK, NEW c \in Cpus, Emit(c)
  PROVE  /\ UNCHANGED <<clock, crashes, black_list, listed, pc, now, time_start, prev_time,
                         packets_queue, todo, revents, count_down, fds>>
         /\ arrived < MaxRate /\ arrived' = arrived + 1
         /\ in_flight' = [in_flight EXCEPT ![c] = {}]
         /\ \/ UNCHANGED <<ring, signalled>>
            \/ /\ pc # "down" /\ Len(ring[c]) < RING_CAP
               /\ signalled' = signalled \cup {c}
               /\ \E e \in Sample : /\ e.sec = clock
                                   /\ \E p \in in_flight[c] : p.src = e.src
                                   /\ ring' = [ring EXCEPT ![c] = Append(ring[c], e)]
<1>1. ASSUME NEW p \in in_flight[c]
      PROVE  [src |-> p.src, dst |-> p.dst, sec |-> clock] \in Sample
  BY DEF TypeOK, Addresses, Sample
<1> QED
  BY <1>1 DEF Emit, kernel, timing

-----------------------------------------------------------------------------
(* Type correctness.                                                       *)

\* The variables have their types at the start.
LEMMA TypeInit == Init => TypeOK
BY ConstantsAssumption, EmptySeq DEF Init, TypeOK, Rows, Free, Address

\* Every step keeps the types, one case for each action.
LEMMA TypeStep == TypeOK /\ [Next]_vars => TypeOK'
<1> SUFFICES ASSUME TypeOK, [Next]_vars
             PROVE  TypeOK'
  OBVIOUS
<1> USE ConstantsAssumption
<1>1. CASE Tick
  BY <1>1 DEF TypeOK, Tick, kernel, timing
<1>2. ASSUME NEW c \in Cpus, Emit(c)
      PROVE  TypeOK'
  <2>1. ring' \in [Cpus -> Seq(Sample)] /\ signalled' \subseteq Cpus
    <3>1. \A e \in Sample : Append(ring[c], e) \in Seq(Sample)
      BY AppendProperties DEF TypeOK
    <3>2. CASE UNCHANGED <<ring, signalled>>
      BY <3>2 DEF TypeOK
    <3>3. ASSUME NEW e \in Sample, ring' = [ring EXCEPT ![c] = Append(ring[c], e)],
                 signalled' = signalled \cup {c}
          PROVE  ring' \in [Cpus -> Seq(Sample)] /\ signalled' \subseteq Cpus
      BY <3>1, <3>3 DEF TypeOK
    <3> QED
      BY <1>2, <3>2, <3>3, EmitAppends
  <2>2. in_flight' \in [Cpus -> SUBSET Addresses]
    BY <1>2, EmitAppends DEF TypeOK
  <2>3. arrived' \in 0 .. MaxRate
    <3>1. arrived < MaxRate /\ arrived' = arrived + 1
      BY <1>2, EmitAppends
    <3> QED
      BY <3>1 DEF TypeOK
  <2> QED
    BY <1>2, <2>1, <2>2, <2>3, EmitAppends DEF TypeOK
<1>3. ASSUME NEW ip \in Listable, UpdateList(ip)
      PROVE  TypeOK'
  BY <1>3 DEF TypeOK, UpdateList, traffic, timing
<1>4. CASE Poll
  BY <1>4 DEF TypeOK, Poll, kernel, timing
<1>5. CASE ReadTime
  <2>1. todo' \subseteq Policies \X Address
    BY <1>5, DetectionsType DEF TypeOK, ReadTime, Address
  <2> QED
    BY <1>5, <2>1 DEF TypeOK, ReadTime, kernel, traffic
<1>6. ASSUME NEW v \in todo, BlockNext(v)
      PROVE  TypeOK'
  <2>1. v[2] \in Address
    BY DEF TypeOK
  <2>2. count_down' \in [Rows -> [ip : Address, at : 0 .. MaxClock]]
    BY <1>6, <2>1 DEF TypeOK, BlockNext
  <2>3. policy_change_black_list(v[2], "BLOCK")
    BY <1>6 DEF BlockNext
  <2>4. /\ black_list' \subseteq Address \cup Listable
        /\ listed' \subseteq Listable
        /\ fds' \in 0 .. FD_LIMIT
    BY <2>1, <2>3, policy_change_type
  <2> QED
    BY <1>6, <2>2, <2>4 DEF TypeOK, BlockNext, traffic, timing
<1>7. CASE EndWindow
  BY <1>7, EmptySeq DEF TypeOK, EndWindow, kernel, traffic
<1>8. CASE Unblock
  <2> PICK g \in FirstRow(ExpiredRows) :
             /\ policy_change_black_list(count_down[g].ip, "UNBLOCK")
             /\ count_down' = [count_down EXCEPT ![g].ip = 0]
    BY <1>8 DEF Unblock
  <2>1. count_down[g].ip \in Address
    BY DEF TypeOK, FirstRow, ExpiredRows
  <2>2. count_down' \in [Rows -> [ip : Address, at : 0 .. MaxClock]]
    BY DEF TypeOK, FirstRow, ExpiredRows, Address
  <2>3. /\ black_list' \subseteq Address \cup Listable
        /\ listed' \subseteq Listable
        /\ fds' \in 0 .. FD_LIMIT
    BY <2>1, policy_change_type
  <2> QED
    BY <1>8, <2>2, <2>3 DEF TypeOK, Unblock, traffic, timing
<1>9. CASE EndSweep
  BY <1>9 DEF TypeOK, EndSweep, kernel, traffic
<1>10. ASSUME NEW c \in Cpus, Drain(c)
       PROVE  TypeOK'
  <2>1. packets_queue' \in Seq(Sample)
    BY <1>10, ConcatProperties DEF TypeOK, Drain
  <2>2. ring' \in [Cpus -> Seq(Sample)]
    BY <1>10, EmptySeq DEF TypeOK, Drain
  <2> QED
    BY <1>10, <2>1, <2>2 DEF TypeOK, Drain, kernel, timing
<1>11. CASE EndDrain
  BY <1>11 DEF TypeOK, EndDrain, kernel, traffic, timing
<1>12. ASSUME NEW c \in Cpus, DrainError(c)
       PROVE  TypeOK'
  <2> PICK k \in 0 .. Len(ring[c]) - 1 :
             /\ packets_queue' = packets_queue \o SubSeq(ring[c], 1, k)
             /\ ring' = [ring EXCEPT ![c] = SubSeq(@, k + 1, Len(@))]
    BY <1>12 DEF DrainError
  <2>1. ring[c] \in Seq(Sample) /\ Len(ring[c]) \in Nat
    BY LenProperties DEF TypeOK
  <2>2. \A i \in 1 .. Len(ring[c]) : ring[c][i] \in Sample
    BY <2>1, ElementOfSeq
  <2>3. SubSeq(ring[c], 1, k) \in Seq(Sample)
    BY <2>1, <2>2, SubSeqProperties
  <2>4. SubSeq(ring[c], k + 1, Len(ring[c])) \in Seq(Sample)
    BY <2>1, <2>2, SubSeqProperties
  <2>5. packets_queue' \in Seq(Sample)
    BY <2>3, ConcatProperties DEF TypeOK
  <2>6. ring' \in [Cpus -> Seq(Sample)]
    BY <2>4 DEF TypeOK
  <2> QED
    BY <1>12, <2>5, <2>6 DEF TypeOK, DrainError, kernel, timing
<1>13. CASE Crash
  <2>1. packets_queue' \in Seq(Sample) /\ ring' \in [Cpus -> Seq(Sample)]
    BY <1>13, EmptySeq DEF Crash
  <2>2. count_down' \in [Rows -> [ip : Address, at : 0 .. MaxClock]]
    BY <1>13 DEF Crash, Free, Address
  <2> QED
    BY <1>13, <2>1, <2>2 DEF TypeOK, Crash, kernel
<1>14. CASE Restart
  BY <1>14 DEF TypeOK, Restart, kernel, traffic
<1>15. CASE UNCHANGED vars
  BY <1>15 DEF TypeOK, vars, kernel, traffic, timing
<1>16. ASSUME NEW c \in Cpus, NEW s \in Sources, NEW d \in Destinations, LookUp(c, s, d)
       PROVE  TypeOK'
  <2>1. in_flight' \in [Cpus -> SUBSET Addresses]
    BY <1>16 DEF TypeOK, LookUp, Addresses
  <2> QED
    BY <1>16, <2>1 DEF TypeOK, LookUp, kernel, timing
<1> QED
  BY <1>1, <1>2, <1>3, <1>4, <1>5, <1>6, <1>7, <1>8, <1>9, <1>10, <1>11,
     <1>12, <1>13, <1>14, <1>15, <1>16 DEF Next, Daemon

\* Every variable of the loop and of the kernel keeps its type.
THEOREM TypeCorrect == Spec => []TypeOK
BY TypeInit, TypeStep, PTL DEF Spec

-----------------------------------------------------------------------------
(* A black-listed address of which nothing is held stays so.               *)

\* Appending a sample adds no source but its own.
LEMMA SourcesInAppend ==
  ASSUME NEW q \in Seq(Sample), NEW e \in Sample
  PROVE  SourcesIn(Append(q, e)) \subseteq SourcesIn(q) \cup {e.src}
<1>1. DOMAIN Append(q, e) = 1 .. Len(q) + 1 /\ DOMAIN q = 1 .. Len(q) /\ Len(q) \in Nat
  BY AppendProperties, LenProperties
<1>2. \A i \in 1 .. Len(q) : Append(q, e)[i] = q[i]
  BY AppendProperties
<1>3. Append(q, e)[Len(q) + 1] = e
  BY AppendProperties
<1>4. \A i \in DOMAIN Append(q, e) : Append(q, e)[i].src \in SourcesIn(q) \cup {e.src}
  BY <1>1, <1>2, <1>3 DEF SourcesIn
<1> QED
  BY <1>4 DEF SourcesIn

\* Joining queues adds no source.
LEMMA SourcesInConcat ==
  ASSUME NEW q \in Seq(Sample), NEW r \in Seq(Sample)
  PROVE  SourcesIn(q \o r) \subseteq SourcesIn(q) \cup SourcesIn(r)
<1>1. DOMAIN (q \o r) = 1 .. Len(q) + Len(r) /\ DOMAIN q = 1 .. Len(q) /\ DOMAIN r = 1 .. Len(r)
  BY ConcatProperties, LenProperties
<1>2. Len(q) \in Nat /\ Len(r) \in Nat
  BY LenProperties
<1>3. \A i \in 1 .. Len(q) + Len(r) :
         (q \o r)[i] = IF i <= Len(q) THEN q[i] ELSE r[i - Len(q)]
  BY ConcatProperties
<1>4. ASSUME NEW i \in DOMAIN (q \o r)
      PROVE  (q \o r)[i].src \in SourcesIn(q) \cup SourcesIn(r)
  <2>1. CASE i <= Len(q)
    <3>1. i \in DOMAIN q /\ (q \o r)[i] = q[i]
      BY <1>1, <1>2, <1>3, <2>1
    <3> QED
      BY <3>1 DEF SourcesIn
  <2>2. CASE ~ i <= Len(q)
    <3>1. i - Len(q) \in DOMAIN r /\ (q \o r)[i] = r[i - Len(q)]
      BY <1>1, <1>2, <1>3, <2>2
    <3> QED
      BY <3>1 DEF SourcesIn
  <2> QED
    BY <2>1, <2>2
<1> QED
  BY <1>4 DEF SourcesIn

\* A part of a queue has no source that the queue has not.
LEMMA SourcesInSubSeq ==
  ASSUME NEW q \in Seq(Sample), NEW m \in 1 .. Len(q) + 1, NEW n \in 0 .. Len(q)
  PROVE  /\ SubSeq(q, m, n) \in Seq(Sample)
         /\ SourcesIn(SubSeq(q, m, n)) \subseteq SourcesIn(q)
<1>1. Len(q) \in Nat /\ DOMAIN q = 1 .. Len(q) /\ \A i \in 1 .. Len(q) : q[i] \in Sample
  BY LenProperties, ElementOfSeq
<1>2. /\ SubSeq(q, m, n) \in Seq(Sample)
      /\ Len(SubSeq(q, m, n)) = IF m <= n THEN n - m + 1 ELSE 0
      /\ \A i \in 1 .. n - m + 1 : SubSeq(q, m, n)[i] = q[m + i - 1]
  BY <1>1, SubSeqProperties, SMTT(30)
<1>3. DOMAIN SubSeq(q, m, n) = 1 .. Len(SubSeq(q, m, n))
  BY <1>2, LenProperties
<1>4. ASSUME NEW i \in DOMAIN SubSeq(q, m, n)
      PROVE  m + i - 1 \in DOMAIN q /\ SubSeq(q, m, n)[i] = q[m + i - 1]
  BY <1>1, <1>2, <1>3
<1> QED
  BY <1>2, <1>4 DEF SourcesIn

\* An empty queue has no source.
LEMMA SourcesInEmpty == SourcesIn(<<>>) = {}
BY DEF SourcesIn

\* One step, for one address: nothing puts a mention of it anywhere, and
\* nothing takes it off the black list.
LEMMA UntracedStep ==
  ASSUME TypeOK, [Next]_vars,
         NEW ip \in black_list \ (Phantoms \cup {0}), Untraced(ip)
  PROVE  ip \in black_list' /\ Untraced(ip)'
<1> USE ConstantsAssumption
<1>1. CASE Tick
  BY <1>1 DEF Untraced, Tick, kernel
<1>2. ASSUME NEW c \in Cpus, Emit(c)
      PROVE  ip \in black_list' /\ Untraced(ip)'
  <2>1. ring[c] \in Seq(Sample)
    BY DEF TypeOK
  <2>2. ASSUME NEW e \in Sample, \E p \in in_flight[c] : p.src = e.src
        PROVE  ip \notin SourcesIn(Append(ring[c], e))
    BY <2>1, <2>2, SourcesInAppend DEF Untraced
  <2>3. \A b \in Cpus : ip \notin SourcesIn(ring'[b])
    <3>1. CASE UNCHANGED <<ring, signalled>>
      BY <3>1 DEF Untraced
    <3>2. ASSUME NEW e \in Sample, \E p \in in_flight[c] : p.src = e.src,
                 ring' = [ring EXCEPT ![c] = Append(ring[c], e)]
          PROVE  \A b \in Cpus : ip \notin SourcesIn(ring'[b])
      BY <2>2, <3>2 DEF Untraced, TypeOK
    <3> QED
      BY <1>2, <3>1, <3>2, EmitAppends
  <2>4. \A b \in Cpus : in_flight'[b] \subseteq in_flight[b]
    BY <1>2, EmitAppends DEF TypeOK
  <2> QED
    BY <1>2, <2>3, <2>4, EmitAppends DEF Untraced
<1>3. ASSUME NEW a \in Listable, UpdateList(a)
      PROVE  ip \in black_list' /\ Untraced(ip)'
  BY <1>3 DEF Untraced, UpdateList, traffic
<1>4. CASE Poll
  BY <1>4 DEF Untraced, Poll, kernel
<1>5. CASE ReadTime
  <2>1. \A v \in Exceeding(packets_queue) : v[2] # ip
    BY DEF Untraced, Exceeding
  <2>2. ASSUME NEW t \in Detections(packets_queue) PROVE \A v \in t : v[2] # ip
    <3>1. t \subseteq Exceeding(packets_queue) \cup Policies \X Phantoms
      BY DEF Detections
    <3> QED
      BY <2>1, <3>1
  <2>3. \A v \in todo' : v[2] # ip
    BY <1>5, <2>2 DEF ReadTime, Untraced
  <2> QED
    BY <1>5, <2>3 DEF Untraced, ReadTime, kernel, traffic
<1>6. ASSUME NEW v \in todo, BlockNext(v)
      PROVE  ip \in black_list' /\ Untraced(ip)'
  <2>1. v[2] # ip
    BY DEF Untraced
  <2>2. ip \in black_list'
    BY <1>6 DEF BlockNext, policy_change_black_list, kernel
  <2>3. \A g \in Rows : count_down'[g].ip # ip
    BY <1>6, <2>1 DEF Untraced, BlockNext
  <2> QED
    BY <1>6, <2>2, <2>3 DEF Untraced, BlockNext, traffic
<1>7. CASE EndWindow
  BY <1>7, SourcesInEmpty DEF Untraced, EndWindow, kernel, traffic
<1>8. CASE Unblock
  <2> PICK g \in FirstRow(ExpiredRows) :
             /\ policy_change_black_list(count_down[g].ip, "UNBLOCK")
             /\ count_down' = [count_down EXCEPT ![g].ip = 0]
    BY <1>8 DEF Unblock
  <2>1. count_down[g].ip # ip
    BY DEF Untraced, FirstRow, ExpiredRows
  <2>2. ip \in black_list'
    BY <2>1 DEF policy_change_black_list, kernel
  <2>3. \A h \in Rows : count_down'[h].ip # ip
    BY DEF Untraced, FirstRow, ExpiredRows, TypeOK
  <2> QED
    BY <1>8, <2>2, <2>3 DEF Untraced, Unblock, traffic
<1>9. CASE EndSweep
  BY <1>9 DEF Untraced, EndSweep, kernel, traffic
<1>10. ASSUME NEW c \in Cpus, Drain(c)
       PROVE  ip \in black_list' /\ Untraced(ip)'
  <2>1. ip \notin SourcesIn(packets_queue')
    BY <1>10, SourcesInConcat DEF Untraced, Drain, TypeOK
  <2>2. \A b \in Cpus : ip \notin SourcesIn(ring'[b])
    BY <1>10, SourcesInEmpty DEF Untraced, Drain, TypeOK
  <2> QED
    BY <1>10, <2>1, <2>2 DEF Untraced, Drain, kernel
<1>11. CASE EndDrain
  BY <1>11 DEF Untraced, EndDrain, kernel, traffic
<1>12. ASSUME NEW c \in Cpus, DrainError(c)
       PROVE  ip \in black_list' /\ Untraced(ip)'
  <2> PICK k \in 0 .. Len(ring[c]) - 1 :
             /\ packets_queue' = packets_queue \o SubSeq(ring[c], 1, k)
             /\ ring' = [ring EXCEPT ![c] = SubSeq(@, k + 1, Len(@))]
    BY <1>12 DEF DrainError
  <2>1. ring[c] \in Seq(Sample) /\ Len(ring[c]) \in Nat
    BY LenProperties DEF TypeOK
  <2> DEFINE n == Len(ring[c])
  <2>0. 1 \in 1 .. n + 1 /\ k \in 0 .. n /\ k + 1 \in 1 .. n + 1 /\ n \in 0 .. n
    BY <2>1
  <2>2. SubSeq(ring[c], 1, k) \in Seq(Sample) /\ ip \notin SourcesIn(SubSeq(ring[c], 1, k))
    <3>1. SourcesIn(SubSeq(ring[c], 1, k)) \subseteq SourcesIn(ring[c])
      BY <2>0, <2>1, SourcesInSubSeq
    <3> QED
      BY <2>0, <2>1, <3>1, SourcesInSubSeq DEF Untraced
  <2>3. ip \notin SourcesIn(SubSeq(ring[c], k + 1, Len(ring[c])))
    <3>1. SourcesIn(SubSeq(ring[c], k + 1, n)) \subseteq SourcesIn(ring[c])
      BY <2>0, <2>1, SourcesInSubSeq
    <3> QED
      BY <3>1 DEF Untraced
  <2>4. ip \notin SourcesIn(packets_queue')
    BY <2>2, SourcesInConcat DEF Untraced, TypeOK
  <2>5. \A b \in Cpus : ip \notin SourcesIn(ring'[b])
    BY <2>3 DEF Untraced, TypeOK
  <2> QED
    BY <1>12, <2>4, <2>5 DEF Untraced, DrainError, kernel
<1>13. CASE Crash
  <2>1. \A b \in Cpus : ip \notin SourcesIn(ring'[b])
    BY <1>13, SourcesInEmpty DEF Crash
  <2>2. ip \notin SourcesIn(packets_queue')
    BY <1>13, SourcesInEmpty DEF Crash
  <2>3. \A g \in Rows : count_down'[g].ip # ip
    BY <1>13 DEF Crash, Free
  <2> QED
    BY <1>13, <2>1, <2>2, <2>3 DEF Untraced, Crash, kernel
<1>14. CASE Restart
  BY <1>14 DEF Untraced, Restart, kernel, traffic
<1>15. CASE UNCHANGED vars
  BY <1>15 DEF Untraced, vars, kernel, traffic
<1>16. ASSUME NEW c \in Cpus, NEW s \in Sources, NEW d \in Destinations, LookUp(c, s, d)
       PROVE  ip \in black_list' /\ Untraced(ip)'
  <2>1. s # ip
    BY <1>16 DEF LookUp, Passes
  <2>2. \A b \in Cpus : \A p \in in_flight'[b] : p.src # ip
    BY <1>16, <2>1 DEF LookUp, Untraced, TypeOK
  <2> QED
    BY <1>16, <2>2 DEF LookUp, Untraced, kernel
<1> QED
  BY <1>1, <1>2, <1>3, <1>4, <1>5, <1>6, <1>7, <1>8, <1>9, <1>10, <1>11,
     <1>12, <1>13, <1>14, <1>15, <1>16 DEF Next, Daemon

\* For any number of CPUs, policies and rows, through crashes, failed reads and samples that
\* come after a block: what is black-listed and held nowhere stays black-listed.
THEOREM UntracedIsKept == Spec => UntracedStays
<1>1. TypeOK /\ [Next]_vars
        => [\A ip \in black_list \ (Phantoms \cup {0}) :
              Untraced(ip) => ip \in black_list' /\ Untraced(ip)']_vars
  BY UntracedStep
<1> QED
  BY <1>1, TypeCorrect, PTL DEF Spec, UntracedStays

-----------------------------------------------------------------------------
(* The timers, when the loop keeps up: it reads the clock in every second  *)
(* and finishes its body within one.                                       *)

KeepsUp == ~ Wraps /\ MaxGap = 1 /\ MaxBusy = 0

\* What the two equality tests of event_poller rely on.  prev_time and
\* time_start are set together; between two passes prev_time is the time of the
\* last one; an occupied row is younger than LOCK_TIME, except in the pass that
\* is about to sweep it.
TimerInv ==
  /\ TypeOK
  /\ now <= clock /\ (pc # "down" => clock <= now + 1)
  /\ pc \in {"block", "sweep", "drain"} => clock = now /\ prev_time # 0
  /\ time_start <= now /\ prev_time <= now
  /\ time_start = 0 <=> prev_time = 0
  /\ pc = "down" => prev_time = 0
  /\ pc \in {"poll", "time", "drain"} => prev_time \in {0, now}
  /\ pc \in {"block", "sweep"} => prev_time \in {now - 1, now}
  /\ pc # "block" /\ time_start # 0 => now - time_start < INTERVAL
  /\ pc = "block" => now - time_start = INTERVAL
  /\ \A g \in Rows : count_down[g].ip # 0 =>
       /\ prev_time # 0
       /\ count_down[g].at \in 1 .. now
       /\ now - count_down[g].at <= LOCK_TIME
       /\ prev_time = now => now - count_down[g].at < LOCK_TIME

\* Unsigned subtraction of an earlier time from a later one is subtraction.
LEMMA SinceIsDifference ==
  ASSUME NEW t \in 1 .. MaxClock, NEW u \in 1 .. t
  PROVE  Since(t, u) = t - u
<1>1. t - u \in 0 .. Word - 1
  BY ConstantsAssumption
<1>2. \A x \in 0 .. Word - 1 : x % Word = x
  BY ConstantsAssumption
<1> QED
  BY <1>1, <1>2 DEF Since

\* The invariant of the timers holds at the start.
LEMMA TimerInit == Init => TimerInv
BY TypeInit, ConstantsAssumption DEF Init, TimerInv, Rows, Free

\* The body of the loop in a pass that is on time.
LEMMA TimerStep ==
  ASSUME KeepsUp, TimerInv, [Next]_vars
  PROVE  TimerInv'
<1> USE ConstantsAssumption DEF KeepsUp
<1>0. TypeOK /\ TypeOK'
  BY TypeStep DEF TimerInv
<1>1. CASE Tick
  <2>1. now \in 1 .. MaxClock /\ clock \in 1 .. MaxClock
    BY <1>0 DEF TypeOK
  <2>2. now <= clock
    BY DEF TimerInv
  <2>3. Since(clock, now) = clock - now
    BY <2>1, <2>2, SinceIsDifference
  <2>4. clock' = clock + 1
    BY <1>1, <2>1 DEF Tick
  <2>5. pc # "down" => pc \in {"poll", "time"} /\ clock = now
    BY <1>1, <2>1, <2>2, <2>3 DEF Tick, InBody
  <2> QED
    BY <1>0, <1>1, <2>1, <2>2, <2>4, <2>5 DEF TimerInv, Tick, timing
<1>2. ASSUME NEW c \in Cpus, Emit(c)
      PROVE  TimerInv'
  BY <1>0, <1>2 DEF TimerInv, Emit, timing
<1>3. ASSUME NEW ip \in Listable, UpdateList(ip)
      PROVE  TimerInv'
  BY <1>0, <1>3 DEF TimerInv, UpdateList, timing
<1>4. CASE Poll
  BY <1>0, <1>4 DEF TimerInv, Poll, timing
<1>5. CASE ReadTime
  <2> DEFINE unset == time_start = 0 \/ prev_time = 0
  <2>1. /\ now \in 1 .. MaxClock /\ clock \in 1 .. MaxClock
        /\ time_start \in 0 .. MaxClock /\ prev_time \in 0 .. MaxClock
    BY <1>0 DEF TypeOK
  <2>2. pc = "time" /\ now' = clock /\ clock' = clock /\ count_down' = count_down
    BY <1>5 DEF ReadTime
  <2>3. now <= clock /\ clock <= now + 1 /\ time_start <= now
    BY <2>2 DEF TimerInv
  <2>4. time_start' = (IF unset THEN clock ELSE time_start)
    BY <1>5 DEF ReadTime
  <2>5. prev_time' = (IF unset THEN clock ELSE prev_time)
    BY <1>5 DEF ReadTime
  <2>6. unset <=> time_start = 0
    BY DEF TimerInv
  <2>7. Since(clock, time_start') = clock - time_start'
    BY <2>1, <2>3, <2>4, <2>6, SinceIsDifference
  <2>8. \/ pc' = "block" /\ clock - time_start' = INTERVAL
        \/ pc' = "sweep" /\ clock - time_start' # INTERVAL
    BY <1>5, <2>4, <2>7 DEF ReadTime, WindowDue
  <2>9. time_start # 0 => now - time_start < INTERVAL
    BY <2>2 DEF TimerInv
  <2>10. /\ pc' # "block" => now' - time_start' < INTERVAL
         /\ pc' = "block" => now' - time_start' = INTERVAL
    BY <2>1, <2>2, <2>3, <2>4, <2>6, <2>8, <2>9
  <2>11. prev_time' \in {now' - 1, now'} /\ prev_time' # 0 /\ time_start' # 0
    BY <2>1, <2>2, <2>3, <2>4, <2>5, <2>6 DEF TimerInv
  <2>12. ASSUME NEW g \in Rows, count_down'[g].ip # 0
         PROVE  /\ count_down'[g].at \in 1 .. now'
                /\ now' - count_down'[g].at <= LOCK_TIME
                /\ prev_time' = now' => now' - count_down'[g].at < LOCK_TIME
    <3>1. /\ prev_time = now /\ count_down[g].at \in 1 .. now
          /\ now - count_down[g].at < LOCK_TIME
      BY <2>2, <2>12 DEF TimerInv
    <3> QED
      BY <2>1, <2>2, <2>3, <2>5, <2>6, <3>1 DEF TimerInv
  <2> QED
    BY <1>0, <2>1, <2>2, <2>3, <2>4, <2>8, <2>10, <2>11, <2>12 DEF TimerInv
<1>6. ASSUME NEW v \in todo, BlockNext(v)
      PROVE  TimerInv'
  <2>1. clock = now /\ now \in 1 .. MaxClock /\ prev_time # 0
    BY <1>0, <1>6 DEF TimerInv, BlockNext, TypeOK
  <2>2. \A g \in Rows : count_down'[g] = count_down[g] \/ count_down'[g].at = now
    BY <1>6, <2>1 DEF BlockNext
  <2>3. /\ clock' = clock /\ now' = now /\ pc' = pc
        /\ prev_time' = prev_time /\ time_start' = time_start
    BY <1>6 DEF BlockNext, timing
  <2> QED
    BY <1>0, <2>1, <2>2, <2>3 DEF TimerInv
<1>7. CASE EndWindow
  <2>1. /\ clock' = clock /\ now' = now /\ time_start' = now /\ pc = "block" /\ pc' = "sweep"
        /\ prev_time' = prev_time /\ count_down' = count_down
    BY <1>7 DEF EndWindow
  <2>2. now \in 1 .. MaxClock
    BY <1>0 DEF TypeOK
  <2> QED
    BY <1>0, <2>1, <2>2 DEF TimerInv
<1>8. CASE Unblock
  <2>1. /\ clock' = clock /\ pc' = pc /\ now' = now
        /\ prev_time' = prev_time /\ time_start' = time_start
    BY <1>8 DEF Unblock, timing
  <2>2. \A g \in Rows : count_down'[g].ip # 0 => count_down'[g] = count_down[g]
    BY <1>0, <1>8 DEF Unblock, FirstRow, ExpiredRows, TypeOK
  <2> QED
    BY <1>0, <2>1, <2>2 DEF TimerInv
<1>9. CASE EndSweep
  <2>1. /\ clock' = clock /\ now' = now /\ time_start' = time_start /\ pc = "sweep"
        /\ pc' = "drain" /\ count_down' = count_down
        /\ prev_time' = IF SweepDue THEN now ELSE prev_time
    BY <1>9 DEF EndSweep
  <2>2. /\ now \in 1 .. MaxClock /\ prev_time \in 1 .. MaxClock
        /\ prev_time \in {now - 1, now}
    BY <1>0, <2>1 DEF TimerInv, TypeOK
  <2>3. SweepDue <=> prev_time = now - 1
    BY <2>2, SinceIsDifference DEF SweepDue
  <2>4. prev_time' = now
    BY <2>1, <2>2, <2>3
  <2>5. ASSUME NEW g \in Rows, count_down[g].ip # 0
        PROVE  now - count_down[g].at < LOCK_TIME
    <3>1. count_down[g].at \in 1 .. now
      BY <2>5 DEF TimerInv
    <3>2. Since(now, count_down[g].at) = now - count_down[g].at
      BY <2>2, <3>1, SinceIsDifference
    <3>3. CASE SweepDue
      <4>1. g \notin ExpiredRows
        BY <1>9, <3>3 DEF EndSweep
      <4> QED
        BY <2>2, <2>5, <3>1, <3>2, <4>1 DEF ExpiredRows
    <3>4. CASE ~ SweepDue
      BY <2>2, <2>3, <2>5, <3>4 DEF TimerInv
    <3> QED
      BY <3>3, <3>4
  <2> QED
    BY <1>0, <2>1, <2>2, <2>4, <2>5 DEF TimerInv
<1>10. ASSUME NEW c \in Cpus, Drain(c)
       PROVE  TimerInv'
  BY <1>0, <1>10 DEF TimerInv, Drain, timing
<1>11. CASE EndDrain
  BY <1>0, <1>11 DEF TimerInv, EndDrain, timing
<1>12. ASSUME NEW c \in Cpus, DrainError(c)
       PROVE  TimerInv'
  BY <1>0, <1>12 DEF TimerInv, DrainError, timing
<1>13. CASE Crash
  BY <1>0, <1>13 DEF TimerInv, Crash, Free, TypeOK
<1>14. CASE Restart
  BY <1>0, <1>14 DEF TimerInv, Restart, TypeOK
<1>15. CASE UNCHANGED vars
  BY <1>0, <1>15 DEF TimerInv, vars, timing
<1>16. ASSUME NEW c \in Cpus, NEW s \in Sources, NEW d \in Destinations, LookUp(c, s, d)
       PROVE  TimerInv'
  BY <1>0, <1>16 DEF TimerInv, LookUp, timing
<1> QED
  BY <1>1, <1>2, <1>3, <1>4, <1>5, <1>6, <1>7, <1>8, <1>9, <1>10, <1>11,
     <1>12, <1>13, <1>14, <1>15, <1>16 DEF Next, Daemon

\* The daemon keeps up, so no row outlasts LOCK_TIME, every second is swept
\* and every window is closed after INTERVAL seconds.
THEOREM TimersEnd ==
  ASSUME KeepsUp
  PROVE  Spec => [](LockEnds /\ SweptEachSecond /\ WindowEnds)
<1>1. TimerInv => LockEnds
  BY ConstantsAssumption DEF TimerInv, LockEnds, TypeOK
<1>2. TimerInv => SweptEachSecond
  BY DEF TimerInv, SweptEachSecond
<1>3. TimerInv => WindowEnds
  <2> SUFFICES ASSUME TimerInv, pc = "sweep"
               PROVE  Since(now, time_start) < INTERVAL
    BY DEF WindowEnds
  <2>1. now \in 1 .. MaxClock /\ time_start \in 1 .. now
    BY DEF TimerInv, TypeOK
  <2>2. Since(now, time_start) = now - time_start
    BY <2>1, SinceIsDifference
  <2> QED
    BY <2>1, <2>2 DEF TimerInv
<1> QED
  BY <1>1, <1>2, <1>3, TimerInit, TimerStep, PTL DEF Spec

\* Only the sweep takes an address off the black list, and only when a row of
\* the address has waited for LOCK_TIME seconds of true time.
THEOREM BlocksAreServed ==
  ASSUME KeepsUp
  PROVE  Spec => LockServed
<1>1. ASSUME TimerInv, [Next]_vars, NEW ip \in black_list \ black_list'
      PROVE  \E g \in Rows : count_down[g].ip = ip /\ clock >= count_down[g].at + LOCK_TIME
  <2>1. Unblock
    <3>1. CASE \E c \in Cpus : Emit(c) \/ \E s \in Sources, d \in Destinations : LookUp(c, s, d)
      BY <1>1, <3>1 DEF Emit, LookUp, kernel
    <3>2. CASE \E a \in Listable : UpdateList(a)
      BY <1>1, <3>2 DEF UpdateList
    <3>3. CASE \E v \in todo : BlockNext(v)
      BY <1>1, <3>3 DEF BlockNext, policy_change_black_list, kernel
    <3>4. CASE \E c \in Cpus : Drain(c) \/ DrainError(c)
      BY <1>1, <3>4 DEF Drain, DrainError, kernel
    <3>5. CASE Tick \/ Poll \/ ReadTime \/ EndWindow \/ EndSweep \/ EndDrain
      BY <1>1, <3>5 DEF Tick, Poll, ReadTime, EndWindow, EndSweep, EndDrain, kernel
    <3>6. CASE Crash \/ Restart \/ UNCHANGED vars
      BY <1>1, <3>6 DEF Crash, Restart, vars, kernel
    <3> QED
      BY <1>1, <3>1, <3>2, <3>3, <3>4, <3>5, <3>6 DEF Next, Daemon
  <2> PICK g \in FirstRow(ExpiredRows) : policy_change_black_list(count_down[g].ip, "UNBLOCK")
    BY <2>1 DEF Unblock
  <2>2. count_down[g].ip = ip
    BY <1>1 DEF policy_change_black_list, kernel
  <2>3. g \in Rows /\ count_down[g].ip # 0 /\ Since(now, count_down[g].at) >= LOCK_TIME
    BY DEF FirstRow, ExpiredRows
  <2>4. /\ now \in 1 .. MaxClock /\ clock = now
        /\ count_down[g].at \in 1 .. now
    BY <1>1, <2>1, <2>3 DEF TimerInv, TypeOK, Unblock
  <2>5. Since(now, count_down[g].at) = now - count_down[g].at
    BY <2>4, SinceIsDifference
  <2> QED
    BY <2>2, <2>3, <2>4, <2>5, ConstantsAssumption
<1>2. TimerInv /\ [Next]_vars
        => [\A ip \in black_list \ black_list' : \E g \in Rows :
              count_down[g].ip = ip /\ clock >= count_down[g].at + LOCK_TIME]_vars
  BY <1>1
<1> QED
  BY <1>2, TimerInit, TimerStep, PTL DEF Spec, LockServed

-----------------------------------------------------------------------------
(* No block without a timer, but for the three ways that are named.        *)

\* A free row is found when there is one.
LEMMA FirstFreeRowExists ==
  ASSUME FreeRows # {}
  PROVE  FirstRow(FreeRows) # {}
<1> DEFINE S == FreeRows
<1>1. S \subseteq Nat /\ S # {}
  BY ConstantsAssumption DEF Rows, FreeRows
<1>2. \E g \in S : \A m \in S : ~ (<<m, g>> \in OpToRel(<, Nat))
  BY <1>1, NatLessThanWellFounded, WFMin
<1>3. PICK g \in S : \A m \in S : ~ (<<m, g>> \in OpToRel(<, Nat))
  BY <1>2
<1>4. ASSUME NEW m \in S PROVE g <= m
  <2>1. m \in Nat /\ g \in Nat
    BY <1>1
  <2>2. m < g => <<m, g>> \in OpToRel(<, Nat)
    BY <2>1 DEF OpToRel
  <2>3. ~ (m < g)
    BY <1>3, <2>2, Zenon
  <2> QED
    BY <2>1, <2>3
<1> QED
  BY <1>4 DEF FirstRow

\* One step, for one address that comes to be without a timer.
LEMMA UntimedStep ==
  ASSUME TypeOK, [Next]_vars, NEW ip \in Untimed' \ Untimed
  PROVE  \/ ip \notin black_list /\ FreeRows = {}
         \/ ip \in black_list /\ SweepDue /\ ~ CanOpen
         \/ pc' = "down"
<1>0. /\ ip \in black_list' /\ ip \notin listed' /\ ip # 0
      /\ \A g \in Rows : count_down'[g].ip # ip
      /\ ip \in black_list \ listed => \E g \in Rows : count_down[g].ip = ip
  BY DEF Untimed
<1>1. CASE UNCHANGED <<black_list, listed, count_down>>
  BY <1>0, <1>1
<1>2. CASE \E a \in Listable : UpdateList(a)
  BY <1>0, <1>2 DEF UpdateList
<1>3. ASSUME NEW v \in todo, BlockNext(v)
      PROVE  ip \notin black_list /\ FreeRows = {}
  <2>1. black_list' \subseteq black_list \cup {v[2]} /\ listed' = listed
    BY <1>3 DEF BlockNext, policy_change_black_list, kernel
  <2>2. \A g \in Rows : count_down[g].ip # 0 => count_down'[g] = count_down[g]
    BY <1>3 DEF BlockNext, FirstRow, FreeRows
  <2>3. ip \notin black_list /\ v[2] = ip
    BY <1>0, <2>1, <2>2
  <2>4. ASSUME FreeRows # {} PROVE FALSE
    <3>1. PICK f \in FirstRow(FreeRows) : TRUE
      BY <2>4, FirstFreeRowExists
    <3>2. f \in Rows
      BY DEF FirstRow, FreeRows
    <3>3. count_down'[f].ip = ip
      BY <1>3, <2>3, <3>1, <3>2 DEF BlockNext
    <3> QED
      BY <1>0, <3>2, <3>3
  <2> QED
    BY <2>3, <2>4
<1>4. CASE Unblock
  <2> PICK g \in FirstRow(ExpiredRows) :
             /\ policy_change_black_list(count_down[g].ip, "UNBLOCK")
             /\ count_down' = [count_down EXCEPT ![g].ip = 0]
    BY <1>4 DEF Unblock
  <2>1. SweepDue
    BY <1>4 DEF Unblock
  <2>2. \A h \in Rows : h # g => count_down'[h] = count_down[h]
    BY DEF TypeOK
  <2>3. CASE ~ CanOpen
    <3>1. UNCHANGED <<black_list, listed>>
      BY <2>3 DEF policy_change_black_list, kernel
    <3> QED
      BY <1>0, <2>1, <2>3, <3>1
  <2>4. CASE CanOpen
    <3>1. /\ black_list' = black_list \ {count_down[g].ip}
          /\ listed' = listed \ {count_down[g].ip}
      BY <2>4 DEF policy_change_black_list
    <3> QED
      BY <1>0, <2>2, <3>1
  <2> QED
    BY <2>3, <2>4
<1>5. CASE Crash
  BY <1>5 DEF Crash
<1>6. CASE \E c \in Cpus : Emit(c) \/ \E s \in Sources, d \in Destinations : LookUp(c, s, d)
  <2>1. UNCHANGED <<black_list, listed, count_down>>
    BY <1>6 DEF Emit, LookUp, kernel
  <2> QED
    BY <1>1, <2>1
<1>7. CASE \/ Tick \/ Poll \/ ReadTime \/ EndWindow \/ EndSweep \/ EndDrain \/ Restart
           \/ UNCHANGED vars \/ \E c \in Cpus : Drain(c) \/ DrainError(c)
  <2>1. UNCHANGED <<black_list, listed, count_down>>
    BY <1>7 DEF Tick, Poll, ReadTime, EndWindow, EndSweep, EndDrain, Restart, Drain, DrainError,
                vars, kernel
  <2> QED
    BY <1>1, <2>1
<1> QED
  BY <1>2, <1>3, <1>4, <1>5, <1>6, <1>7 DEF Next, Daemon

\* Of the blocks that the daemon makes only those are left without a row that were made with a
\* full table, that could not be lifted for want of a descriptor, or that outlive the daemon.
THEOREM TimersArePresent == Spec => BlockHasTimer
<1>1. TypeOK /\ [Next]_vars
        => [\A ip \in Untimed' \ Untimed :
              \/ ip \notin black_list /\ FreeRows = {}
              \/ ip \in black_list /\ SweepDue /\ ~ CanOpen
              \/ pc' = "down"]_vars
  BY UntimedStep
<1> QED
  BY <1>1, TypeCorrect, PTL DEF Spec, BlockHasTimer

-----------------------------------------------------------------------------
(* No wake-up is lost.                                                     *)

\* poll starts from a pass that has dealt with every ring it was told of.
NoneReported == pc \in {"poll", "down"} => revents = {}

\* A pass ends with no ring left to be read, also when a read fails.
LEMMA NoneReportedStep == NoneReported /\ [Next]_vars => NoneReported'
<1> SUFFICES ASSUME NoneReported, [Next]_vars PROVE NoneReported'
  OBVIOUS
<1>1. CASE Poll \/ ReadTime \/ EndWindow \/ EndSweep \/ EndDrain \/ Crash \/ Restart
  BY <1>1
  DEF NoneReported, Poll, ReadTime, EndWindow, EndSweep, EndDrain, Crash, Restart, traffic
<1>2. CASE Tick \/ Unblock \/ (\E a \in Listable : UpdateList(a)) \/ (\E v \in todo : BlockNext(v))
  BY <1>2 DEF NoneReported, Tick, Unblock, UpdateList, BlockNext
<1>3. CASE \E c \in Cpus : Drain(c) \/ DrainError(c)
  BY <1>3 DEF NoneReported, Drain, DrainError
<1>4. CASE \E c \in Cpus : Emit(c) \/ \E s \in Sources, d \in Destinations : LookUp(c, s, d)
  BY <1>4 DEF NoneReported, Emit, LookUp
<1>5. CASE UNCHANGED vars
  BY <1>5 DEF NoneReported, vars
<1> QED
  BY <1>1, <1>2, <1>3, <1>4, <1>5 DEF Next, Daemon

\* One step, for one ring that comes to be unreported.
LEMMA UnreportedStep ==
  ASSUME TypeOK, NoneReported, [Next]_vars, NEW c \in Unreported' \ Unreported
  PROVE  pc = "drain" /\ pc' = "poll" /\ c \in revents
<1>0. /\ c \in Cpus /\ ring'[c] # <<>> /\ c \notin signalled' \cup revents'
      /\ ring[c] = <<>> \/ c \in signalled \cup revents
  BY DEF Unreported
<1>1. ASSUME NEW d \in Cpus, Emit(d) PROVE FALSE
  <2>1. revents' = revents /\ signalled \subseteq signalled'
    BY <1>1, EmitAppends
  <2>2. ring'[c] = ring[c] \/ c \in signalled'
    <3>1. CASE UNCHANGED <<ring, signalled>>
      BY <3>1
    <3>2. ASSUME NEW e \in Sample, ring' = [ring EXCEPT ![d] = Append(ring[d], e)],
                 signalled' = signalled \cup {d}
          PROVE  ring'[c] = ring[c] \/ c \in signalled'
      BY <1>0, <3>2 DEF TypeOK
    <3> QED
      BY <1>1, <3>1, <3>2, EmitAppends
  <2> QED
    BY <1>0, <2>1, <2>2
<1>2. CASE Poll
  <2>1. revents' = signalled /\ ring' = ring /\ pc = "poll" /\ pc' = "time"
    BY <1>2 DEF Poll
  <2> QED
    BY <1>0, <2>1 DEF NoneReported
<1>3. ASSUME NEW d \in Cpus, Drain(d) PROVE FALSE
  <2>1. /\ signalled' = signalled /\ revents' = revents \ {d}
        /\ ring' = [ring EXCEPT ![d] = <<>>]
    BY <1>3 DEF Drain
  <2>2. c # d /\ ring'[c] = ring[c]
    BY <1>0, <2>1 DEF TypeOK
  <2> QED
    BY <1>0, <2>1, <2>2
<1>4. ASSUME NEW d \in Cpus, DrainError(d)
      PROVE  pc = "drain" /\ pc' = "poll" /\ c \in revents
  <2>1. /\ pc = "drain" /\ pc' = "poll" /\ d \in revents /\ signalled' = signalled
        /\ \A b \in Cpus : b # d => ring'[b] = ring[b]
    BY <1>4 DEF DrainError, NextRing, TypeOK
  <2> QED
    BY <1>0, <2>1
<1>5. CASE Crash
  BY <1>0, <1>5 DEF Crash
<1>6. CASE \/ Tick \/ ReadTime \/ EndWindow \/ Unblock \/ EndSweep \/ EndDrain \/ Restart
           \/ \E a \in Listable : UpdateList(a)
           \/ \E v \in todo : BlockNext(v)
           \/ \E d \in Cpus, s \in Sources, t \in Destinations : LookUp(d, s, t)
           \/ UNCHANGED vars
  <2>1. UNCHANGED <<ring, signalled, revents>>
    BY <1>6 DEF Tick, ReadTime, EndWindow, Unblock, EndSweep, EndDrain, Restart, UpdateList,
                BlockNext, LookUp, traffic, vars
  <2> QED
    BY <1>0, <2>1
<1> QED
  BY <1>1, <1>2, <1>3, <1>4, <1>5, <1>6 DEF Next, Daemon

\* Between the kernel's signals and the loop that takes them no ring is forgotten, except by the
\* pass that a failed read ends.
THEOREM WakeUpsAreNotLost == Spec => WakeUpsAreKept
<1>1. TypeOK /\ NoneReported /\ [Next]_vars
        => [\A c \in Unreported' \ Unreported :
              pc = "drain" /\ pc' = "poll" /\ c \in revents]_vars
  BY UnreportedStep
<1>2. Init => NoneReported
  BY DEF Init, NoneReported
<1> QED
  BY <1>1, <1>2, NoneReportedStep, TypeCorrect, PTL DEF Spec, WakeUpsAreKept

-----------------------------------------------------------------------------
(* The loop keeps up: nothing waits too long, and the queue never runs over. *)

\* The places of the samples that wait in the queue and in the rings, and those of them that
\* hold a sample of the seconds x to y.
RingPlaces(r) == {e \in Cpus \X (1 .. RING_CAP) : e[2] <= Len(r[e[1]])}
QueuePlaces(q) == {-1} \X DOMAIN q
SampleAt(q, r, e) == IF e[1] = -1 THEN q[e[2]] ELSE r[e[1]][e[2]]
HeldOf(q, r, x, y) ==
  {e \in QueuePlaces(q) \cup RingPlaces(r) : SampleAt(q, r, e).sec \in x .. y}

\* A sample is in a ring until the poll after it reports the ring and the pass drains it; in the
\* queue until the window ends.  (A sample that comes after poll waits for the next pass.)
OldestIn(c) ==
  IF pc = "poll" THEN now - 1
  ELSE IF pc = "time" THEN IF c \in revents THEN now - 1 ELSE now
  ELSE IF c \in revents THEN now - 2 ELSE now - 1
RingsAreRecent ==
  /\ pc \in {"poll", "down"} => revents = {}
  /\ \A c \in Cpus :
       /\ Len(ring[c]) <= RING_CAP
       /\ ring[c] # <<>> => c \in signalled \cup revents /\ pc # "down"
       /\ \A i \in DOMAIN ring[c] :
            ring[c][i].sec \in 1 .. clock /\ ring[c][i].sec >= OldestIn(c)
QueueIsRecent ==
  /\ time_start = 0 => packets_queue = <<>>
  /\ \A i \in DOMAIN packets_queue :
       /\ packets_queue[i].sec \in 1 .. clock
       /\ packets_queue[i].sec \in time_start - 2 .. time_start + INTERVAL - 1

\* No more samples of some seconds wait than arrived in them, and of those from before the window
\* no more than the rings can hold.
RatesOf(q, r, t, n) ==
  \A x \in 0 .. t :
    /\ \A y \in x .. t - 1 : Cardinality(HeldOf(q, r, x, y)) <= MaxRate * (y - x + 1)
    /\ Cardinality(HeldOf(q, r, x, t)) <= MaxRate * (t - x) + n
RatesAreKept == RatesOf(packets_queue, ring, clock, arrived)
OldFitsRings == Cardinality(HeldOf(packets_queue, ring, 0, time_start - 1)) <= Cardinality(Cpus) * RING_CAP


\* What a loop that is on time keeps, besides its timers: how old the samples in the rings and in
\* the queue may be, and how many of each second there are.
KeepUpInv == TimerInv /\ RingsAreRecent /\ QueueIsRecent /\ RatesAreKept /\ OldFitsRings

\* Finitely many samples wait.
LEMMA HeldFinite ==
  ASSUME NEW q \in Seq(Sample), NEW r, NEW x, NEW y
  PROVE  /\ IsFiniteSet(QueuePlaces(q) \cup RingPlaces(r))
         /\ IsFiniteSet(HeldOf(q, r, x, y)) /\ Cardinality(HeldOf(q, r, x, y)) \in Nat
<1>1. IsFiniteSet(Cpus) /\ RING_CAP \in Nat
  BY ConstantsAssumption
<1>2. IsFiniteSet(Cpus \X (1 .. RING_CAP))
  <2>1. IsFiniteSet(1 .. RING_CAP)
    BY <1>1, FS_Interval
  <2> QED
    BY <1>1, <2>1, FS_Product
<1>3. IsFiniteSet(RingPlaces(r))
  BY <1>2, FS_Subset DEF RingPlaces
<1>4. DOMAIN q = 1 .. Len(q) /\ Len(q) \in Nat
  BY LenProperties
<1>5. IsFiniteSet({-1} \X DOMAIN q)
  <2>1. IsFiniteSet(1 .. Len(q))
    BY <1>4, FS_Interval
  <2>2. IsFiniteSet({-1})
    BY FS_Singleton
  <2> QED
    BY <1>4, <2>1, <2>2, FS_Product
<1>6. IsFiniteSet(QueuePlaces(q) \cup RingPlaces(r))
  BY <1>3, <1>5, FS_Union DEF QueuePlaces
<1>7. HeldOf(q, r, x, y) \subseteq QueuePlaces(q) \cup RingPlaces(r)
  BY DEF HeldOf
<1> QED
  BY <1>6, <1>7, FS_Subset, FS_CardinalityType

\* Fewer seconds, fewer samples.
LEMMA HeldWithin ==
  ASSUME NEW q \in Seq(Sample), NEW r, NEW x, NEW y, NEW u, NEW v,
         \A e \in HeldOf(q, r, x, y) : SampleAt(q, r, e).sec \in u .. v
  PROVE  Cardinality(HeldOf(q, r, x, y)) <= Cardinality(HeldOf(q, r, u, v))
<1>1. HeldOf(q, r, x, y) \subseteq HeldOf(q, r, u, v)
  BY DEF HeldOf
<1> QED
  BY <1>1, HeldFinite, FS_Subset

\* An injection into what waited before, second by second.
LEMMA HeldInjects ==
  ASSUME NEW S, NEW T, IsFiniteSet(T), NEW f \in [S -> T],
         \A a, b \in S : f[a] = f[b] => a = b
  PROVE  IsFiniteSet(S) /\ Cardinality(S) <= Cardinality(T)
<1>1. f \in Injection(S, T)
  BY DEF Injection, IsInjective
<1> QED
  BY <1>1, FS_Injection

\* A ring is drained: its samples move to the end of the queue.
LEMMA HeldDrained ==
  ASSUME NEW q \in Seq(Sample), NEW r \in [Cpus -> Seq(Sample)], NEW c \in Cpus, Len(r[c]) <= RING_CAP,
         NEW q2, q2 = q \o r[c], NEW r2, r2 = [r EXCEPT ![c] = <<>>], NEW x, NEW y
  PROVE  Cardinality(HeldOf(q2, r2, x, y)) <= Cardinality(HeldOf(q, r, x, y))
<1> PICK n \in Nat : n = Len(q)
  BY LenProperties
<1> PICK m \in Nat : m = Len(r[c])
  BY LenProperties
<1>0. Cpus \subseteq Nat /\ RING_CAP \in Nat /\ m <= RING_CAP
  BY ConstantsAssumption
<1>1. /\ DOMAIN q = 1 .. n /\ DOMAIN q2 = 1 .. n + m
      /\ \A i \in 1 .. n : q2[i] = q[i]
      /\ \A i \in n + 1 .. n + m : q2[i] = r[c][i - n]
  BY ConcatProperties, LenProperties
<1>2. Len(r2[c]) = 0 /\ \A d \in Cpus : d # c => r2[d] = r[d]
  OBVIOUS
<1> DEFINE S == HeldOf(q2, r2, x, y)
           T == HeldOf(q, r, x, y)
           f == [e \in S |-> IF e[1] = -1 /\ e[2] > n THEN <<c, e[2] - n>> ELSE e]
<1>3. ASSUME NEW e \in S
      PROVE  /\ f[e] \in T
             /\ \/ e = <<-1, e[2]>> /\ e[2] \in n + 1 .. n + m /\ f[e] = <<c, e[2] - n>>
                \/ e = <<-1, e[2]>> /\ e[2] \in 1 .. n /\ f[e] = e
                \/ e = <<e[1], e[2]>> /\ e[1] \in Cpus \ {c} /\ f[e] = e
  <2>1. SampleAt(q2, r2, e).sec \in x .. y /\ (e \in QueuePlaces(q2) \/ e \in RingPlaces(r2))
    BY DEF HeldOf
  <2>2. CASE e \in QueuePlaces(q2)
    <3>1. e = <<-1, e[2]>> /\ e[1] = -1 /\ e[2] \in 1 .. n + m
      BY <1>1, <2>2 DEF QueuePlaces
    <3>2. q2[e[2]].sec \in x .. y
      BY <2>1, <3>1 DEF SampleAt
    <3>3. CASE e[2] > n
      <4>1. f[e] = <<c, e[2] - n>> /\ e[2] - n \in 1 .. m /\ e[2] \in n + 1 .. n + m
        BY <3>1, <3>3
      <4>2. r[c][e[2] - n].sec \in x .. y
        BY <1>1, <3>2, <4>1
      <4>3. f[e] \in RingPlaces(r)
        <5> PICK k \in 1 .. m : k = e[2] - n
          BY <4>1
        <5>1. k \in 1 .. RING_CAP /\ k <= Len(r[c])
          BY <1>0
        <5>2. <<c, k>> \in RingPlaces(r)
          BY <5>1 DEF RingPlaces
        <5> QED
          BY <4>1, <5>2
      <4>4. SampleAt(q, r, f[e]).sec \in x .. y
        <5>1. c # -1
          BY <1>0
        <5> QED BY <4>1, <4>2, <5>1, SMTT(30) DEF SampleAt
      <4> QED
        BY <3>1, <4>1, <4>3, <4>4 DEF HeldOf
    <3>4. CASE ~ (e[2] > n)
      <4>1. f[e] = e /\ e[2] \in 1 .. n
        BY <3>1, <3>4
      <4>2. e \in QueuePlaces(q) /\ SampleAt(q, r, e).sec \in x .. y
        BY <1>1, <3>1, <3>2, <4>1 DEF QueuePlaces, SampleAt
      <4> QED
        BY <3>1, <4>1, <4>2 DEF HeldOf
    <3> QED
      BY <3>3, <3>4
  <2>3. CASE e \in RingPlaces(r2)
    <3>1. e = <<e[1], e[2]>> /\ e[1] \in Cpus /\ e[2] \in 1 .. RING_CAP /\ e[2] <= Len(r2[e[1]])
      BY <2>3 DEF RingPlaces
    <3>2. e[1] # c /\ e[1] # -1
      BY <1>0, <1>2, <3>1
    <3>3. f[e] = e
      BY <3>2
    <3>4. e \in RingPlaces(r) /\ SampleAt(q, r, e).sec \in x .. y
      BY <1>2, <2>1, <2>3, <3>1, <3>2 DEF RingPlaces, SampleAt
    <3> QED
      BY <3>1, <3>2, <3>3, <3>4 DEF HeldOf
  <2> QED
    BY <2>1, <2>2, <2>3
<1>4. f \in [S -> T]
  BY <1>3
<1>5. \A a, b \in S : f[a] = f[b] => a = b
  <2> SUFFICES ASSUME NEW a \in S, NEW b \in S, f[a] = f[b] PROVE a = b
    OBVIOUS
  <2>1. c # -1
    BY <1>0
  <2> PICK fa, fb : fa = f[a] /\ fb = f[b]
    OBVIOUS
  <2>2. \/ a = <<-1, a[2]>> /\ a[2] \in n + 1 .. n + m /\ fa = <<c, a[2] - n>>
        \/ a = <<-1, a[2]>> /\ a[2] \in 1 .. n /\ fa = a
        \/ a = <<a[1], a[2]>> /\ a[1] \in Cpus \ {c} /\ fa = a
    BY <1>3
  <2>3. \/ b = <<-1, b[2]>> /\ b[2] \in n + 1 .. n + m /\ fb = <<c, b[2] - n>>
        \/ b = <<-1, b[2]>> /\ b[2] \in 1 .. n /\ fb = b
        \/ b = <<b[1], b[2]>> /\ b[1] \in Cpus \ {c} /\ fb = b
    BY <1>3
  <2>4. fa = fb
    OBVIOUS
  <2> PICK a2, b2 : a2 = a[2] /\ b2 = b[2]
    OBVIOUS
  <2>5. ASSUME a = <<-1, a2>>, a2 \in n + 1 .. n + m, fa = <<c, a2 - n>>,
               b = <<-1, b2>>, b2 \in n + 1 .. n + m, fb = <<c, b2 - n>>
        PROVE  a = b
    <3>0. a2 \in Int /\ b2 \in Int
      BY ONLY <2>5, n \in Nat, m \in Nat
    <3>1. fa[2] = a2 - n /\ fb[2] = b2 - n
      BY ONLY <2>5
    <3>2. a2 = b2
      BY ONLY <2>4, <3>0, <3>1, n \in Nat
    <3> QED
      BY ONLY <2>5, <3>2
  <2>6. ASSUME a = <<-1, a2>>, fa = <<c, a2 - n>>, fb = b, b = <<-1, b2>> \/ b[1] \in Cpus \ {c}
        PROVE  FALSE
    <3>1. fa[1] = c /\ fb[1] # c
      BY ONLY <2>1, <2>6
    <3> QED
      BY ONLY <2>4, <3>1
  <2>7. ASSUME b = <<-1, b2>>, fb = <<c, b2 - n>>, fa = a, a = <<-1, a2>> \/ a[1] \in Cpus \ {c}
        PROVE  FALSE
    <3>1. fb[1] = c /\ fa[1] # c
      BY ONLY <2>1, <2>7
    <3> QED
      BY ONLY <2>4, <3>1
  <2> QED
    BY <2>2, <2>3, <2>4, <2>5, <2>6, <2>7
<1> HIDE DEF f, S, T
<1>6. IsFiniteSet(T)
  BY HeldFinite DEF T
<1>7. Cardinality(S) <= Cardinality(T)
  BY ONLY <1>4, <1>5, <1>6, HeldInjects
<1> QED
  BY <1>7 DEF S, T

\* A sample arrives.
LEMMA HeldArrives ==
  ASSUME NEW q \in Seq(Sample), NEW r \in [Cpus -> Seq(Sample)], NEW c \in Cpus, NEW s \in Sample,
         NEW r2, r2 = [r EXCEPT ![c] = Append(r[c], s)], NEW x, NEW y
  PROVE  /\ Cardinality(HeldOf(q, r2, x, y)) <= Cardinality(HeldOf(q, r, x, y)) + 1
         /\ s.sec \notin x .. y =>
              Cardinality(HeldOf(q, r2, x, y)) <= Cardinality(HeldOf(q, r, x, y))
<1> PICK m \in Nat : m = Len(r[c])
  BY LenProperties
<1>0. Cpus \subseteq Nat
  BY ConstantsAssumption
<1>1. /\ Len(r2[c]) = m + 1 /\ r2[c][m + 1] = s /\ \A i \in 1 .. m : r2[c][i] = r[c][i]
      /\ \A d \in Cpus : d # c => r2[d] = r[d]
  BY AppendProperties
<1> DEFINE S == HeldOf(q, r2, x, y)
           T == HeldOf(q, r, x, y)
<1>2. ASSUME NEW e \in S PROVE e \in T \/ (e = <<c, m + 1>> /\ s.sec \in x .. y)
  <2>1. SampleAt(q, r2, e).sec \in x .. y /\ (e \in QueuePlaces(q) \/ e \in RingPlaces(r2))
    BY DEF HeldOf
  <2>2. CASE e \in QueuePlaces(q)
    BY <2>1, <2>2 DEF QueuePlaces, SampleAt, HeldOf
  <2>3. CASE e \in RingPlaces(r2)
    <3>1. /\ e = <<e[1], e[2]>> /\ e[1] \in Cpus /\ e[2] \in 1 .. RING_CAP /\ e[2] <= Len(r2[e[1]])
          /\ e[1] # -1
      BY <1>0, <2>3 DEF RingPlaces
    <3>2. r2[e[1]][e[2]].sec \in x .. y
      BY <2>1, <3>1 DEF SampleAt
    <3>3. CASE e[1] # c
      BY <1>1, <2>1, <2>3, <3>1, <3>3 DEF HeldOf, SampleAt, RingPlaces
    <3>4. CASE e[1] = c /\ e[2] = m + 1
      BY <1>1, <3>1, <3>2, <3>4
    <3>5. CASE e[1] = c /\ e[2] # m + 1
      <4>1. e[2] \in 1 .. m
        <5> PICK k : k = e[2]
          OBVIOUS
        <5>1. RING_CAP \in Nat
          BY ConstantsAssumption
        <5>2. k \in 1 .. RING_CAP
          BY <3>1
        <5>3. Len(r2[c]) = m + 1 /\ k <= Len(r2[c]) /\ k # m + 1
          BY <1>1, <3>1, <3>5
        <5>4. k \in 1 .. m
          BY ONLY <5>1, <5>2, <5>3, m \in Nat
        <5> QED
          BY <5>4
      <4>2. e \in RingPlaces(r) /\ SampleAt(q, r, e).sec \in x .. y
        BY <1>1, <2>3, <3>1, <3>2, <3>5, <4>1 DEF RingPlaces, SampleAt
      <4> QED
        BY <4>2 DEF HeldOf
    <3> QED
      BY <3>3, <3>4, <3>5
  <2> QED
    BY <2>1, <2>2, <2>3
<1>3. IsFiniteSet(T) /\ Cardinality(T) \in Nat /\ IsFiniteSet(S) /\ Cardinality(S) \in Nat
  BY HeldFinite
<1>4. S \subseteq T \cup {<<c, m + 1>>} /\ (s.sec \notin x .. y => S \subseteq T)
  BY <1>2
<1> HIDE DEF S, T
<1>5. /\ IsFiniteSet(T \cup {<<c, m + 1>>})
      /\ Cardinality(T \cup {<<c, m + 1>>}) <= Cardinality(T) + 1
      /\ Cardinality(T \cup {<<c, m + 1>>}) \in Nat
  <2>1. IsFiniteSet(T \cup {<<c, m + 1>>})
        /\ Cardinality(T \cup {<<c, m + 1>>}) \in {Cardinality(T), Cardinality(T) + 1}
    BY <1>3, FS_AddElement
  <2> QED
    BY <1>3, <2>1
<1>6. Cardinality(S) <= Cardinality(T \cup {<<c, m + 1>>})
  BY <1>4, <1>5, FS_Subset
<1>7. s.sec \notin x .. y => Cardinality(S) <= Cardinality(T)
  BY <1>3, <1>4, FS_Subset
<1>8. Cardinality(S) <= Cardinality(T) + 1
  BY <1>3, <1>5, <1>6
<1> QED
  BY <1>7, <1>8 DEF S, T

\* The queue is emptied: what waits is in the rings, which have their places.
LEMMA HeldEmptied ==
  ASSUME NEW q \in Seq(Sample), NEW r, NEW x, NEW y
  PROVE  /\ Cardinality(HeldOf(<<>>, r, x, y)) <= Cardinality(HeldOf(q, r, x, y))
         /\ Cardinality(HeldOf(<<>>, r, x, y)) <= Cardinality(Cpus) * RING_CAP
<1>0. Cpus \subseteq Nat /\ IsFiniteSet(Cpus) /\ RING_CAP \in Nat
  BY ConstantsAssumption
<1>1. HeldOf(<<>>, r, x, y) \subseteq RingPlaces(r)
      /\ HeldOf(<<>>, r, x, y) \subseteq HeldOf(q, r, x, y)
  BY <1>0 DEF HeldOf, QueuePlaces, RingPlaces, SampleAt
<1>2. /\ IsFiniteSet(Cpus \X (1 .. RING_CAP))
      /\ Cardinality(Cpus \X (1 .. RING_CAP)) = Cardinality(Cpus) * RING_CAP
  <2>1. IsFiniteSet(1 .. RING_CAP) /\ Cardinality(1 .. RING_CAP) = RING_CAP
    BY <1>0, FS_Interval, ConstantsAssumption
  <2> QED
    BY <1>0, <2>1, FS_Product
<1>3. HeldOf(<<>>, r, x, y) \subseteq Cpus \X (1 .. RING_CAP)
  BY <1>1 DEF RingPlaces
<1>4. Cardinality(HeldOf(<<>>, r, x, y)) <= Cardinality(HeldOf(q, r, x, y))
  BY <1>1, HeldFinite, FS_Subset
<1> QED
  BY <1>2, <1>3, <1>4, FS_Subset

\* The rings from step to step.
LEMMA RingsRecentStep ==
  ASSUME KeepsUp, ~ AllocFails, TimerInv, TimerInv', RingsAreRecent, [Next]_vars
  PROVE  RingsAreRecent'
<1> USE ConstantsAssumption DEF KeepsUp
<1>0. /\ TypeOK /\ now \in 1 .. MaxClock /\ clock \in 1 .. MaxClock /\ now <= clock
      /\ ring \in [Cpus -> Seq(Sample)] /\ (pc # "down" => clock <= now + 1)
      /\ pc \in {"block", "sweep", "drain"} => clock = now
  BY DEF TimerInv, TypeOK
<1>1. CASE Tick
  <2>1. /\ UNCHANGED <<ring, signalled, revents, pc, now>> /\ clock' = clock + 1
    BY <1>0, <1>1 DEF Tick, timing
  <2>2. \A b \in Cpus : OldestIn(b)' = OldestIn(b)
    BY <2>1 DEF OldestIn
  <2>3. \A z \in 1 .. clock : z \in 1 .. clock + 1
    BY <1>0
  <2> QED
    BY <2>1, <2>2, <2>3 DEF RingsAreRecent
<1>2. ASSUME NEW c \in Cpus, Emit(c)
      PROVE  RingsAreRecent'
  <2>0. UNCHANGED <<revents, pc, now, clock>>
    BY <1>0, <1>2, EmitAppends
  <2>1. CASE UNCHANGED <<ring, signalled>>
    BY <2>0, <2>1 DEF RingsAreRecent, OldestIn
  <2>2. ASSUME NEW e \in Sample, e.sec = clock, pc # "down", Len(ring[c]) < RING_CAP,
               ring' = [ring EXCEPT ![c] = Append(ring[c], e)], signalled' = signalled \cup {c}
        PROVE  RingsAreRecent'
    <3>1. e \in Sample /\ e.sec = clock
      BY <2>2
    <3> PICK m \in Nat : m = Len(ring[c])
      BY <1>0, LenProperties
    <3>2. /\ Len(ring'[c]) = m + 1 /\ DOMAIN ring'[c] = 1 .. m + 1 /\ DOMAIN ring[c] = 1 .. m
          /\ ring'[c][m + 1] = e /\ \A i \in 1 .. m : ring'[c][i] = ring[c][i]
          /\ \A b \in Cpus : b # c => ring'[b] = ring[b]
      BY <1>0, <2>2, <3>1, AppendProperties, LenProperties
    <3>3. m + 1 <= RING_CAP /\ c \in signalled'
      BY <2>2
    <3>4. ASSUME NEW i \in DOMAIN ring'[c]
          PROVE  \/ i \in DOMAIN ring[c] /\ ring'[c][i] = ring[c][i]
                 \/ ring'[c][i].sec = clock
      <4>1. i \in 1 .. m \/ i = m + 1
        <5>1. i \in 1 .. m + 1
          BY <3>2
        <5> QED
          BY ONLY <5>1, m \in Nat
      <4> QED
        BY <3>1, <3>2, <4>1
    <3>5. ASSUME NEW b \in Cpus
          PROVE  /\ Len(ring'[b]) <= RING_CAP
                 /\ ring'[b] # <<>> => b \in signalled' \cup revents'
                 /\ \A i \in DOMAIN ring'[b] :
                      \/ i \in DOMAIN ring[b] /\ ring'[b][i] = ring[b][i]
                      \/ ring'[b][i].sec = clock
      <4>1. CASE b = c
        BY <3>2, <3>3, <3>4, <4>1
      <4>2. CASE b # c
        BY <2>0, <2>2, <3>2, <4>2 DEF RingsAreRecent
      <4> QED
        BY <4>1, <4>2
    <3>6. \A b \in Cpus : OldestIn(b)' = OldestIn(b) /\ clock >= OldestIn(b)
      BY <1>0, <2>0, <2>2 DEF OldestIn
    <3>7. clock \in 1 .. clock
      BY <1>0
    <3> QED
      BY <2>0, <2>2, <3>5, <3>6, <3>7 DEF RingsAreRecent
  <2> QED
    BY <1>0, <1>2, <2>1, <2>2, EmitAppends
<1>3. CASE Poll
  <2>1. /\ pc = "poll" /\ pc' = "time" /\ revents' = signalled /\ revents = {}
        /\ UNCHANGED <<ring, now, clock>>
    BY <1>3 DEF Poll, timing, RingsAreRecent
  <2> QED
    BY <1>0, <2>1 DEF RingsAreRecent, OldestIn
<1>4. CASE ReadTime
  <2>1. /\ pc = "time" /\ pc' \in {"block", "sweep"} /\ now' = clock
        /\ UNCHANGED <<ring, signalled, revents, clock>>
    BY <1>4 DEF ReadTime, traffic
  <2> QED
    BY <1>0, <2>1 DEF RingsAreRecent, OldestIn
<1>5. CASE (\E v \in todo : BlockNext(v)) \/ EndWindow \/ Unblock \/ EndSweep
  <2>1. /\ pc \in {"block", "sweep"} /\ pc' \in {"block", "sweep", "drain"}
        /\ UNCHANGED <<ring, signalled, revents, now, clock>>
    BY <1>5 DEF BlockNext, EndWindow, Unblock, EndSweep, traffic, timing
  <2> QED
    BY <2>1 DEF RingsAreRecent, OldestIn
<1>6. ASSUME NEW c \in Cpus, Drain(c)
      PROVE  RingsAreRecent'
  <2>1. /\ pc = "drain" /\ ring' = [ring EXCEPT ![c] = <<>>] /\ revents' = revents \ {c}
        /\ UNCHANGED <<signalled, pc, now, clock>>
    BY <1>6 DEF Drain, timing
  <2>2. ring'[c] = <<>> /\ \A b \in Cpus : b # c => ring'[b] = ring[b]
    BY <1>0, <2>1
  <2>3. Len(<<>>) = 0 /\ DOMAIN <<>> = {} /\ RING_CAP \in Nat
    OBVIOUS
  <2> QED
    BY <2>1, <2>2, <2>3 DEF RingsAreRecent, OldestIn
<1>7. CASE EndDrain
  <2>1. /\ pc = "drain" /\ pc' = "poll" /\ revents = {}
        /\ UNCHANGED <<ring, signalled, revents, now, clock>>
    BY <1>7 DEF EndDrain, traffic, timing
  <2> QED
    BY <2>1 DEF RingsAreRecent, OldestIn
<1>8. CASE Crash
  <2>1. ring' = [b \in Cpus |-> <<>>] /\ pc' = "down" /\ revents' = {}
    BY <1>8 DEF Crash
  <2>2. \A b \in Cpus : ring'[b] = <<>> /\ Len(<<>>) = 0 /\ DOMAIN <<>> = {} /\ RING_CAP \in Nat
    BY <2>1
  <2> QED
    BY <2>1, <2>2 DEF RingsAreRecent, OldestIn
<1>9. CASE Restart
  <2>1. /\ pc = "down" /\ pc' = "poll" /\ UNCHANGED <<ring, signalled, revents, clock>>
    BY <1>9 DEF Restart, traffic
  <2>2. \A b \in Cpus : ring[b] = <<>> /\ DOMAIN <<>> = {}
    BY <2>1 DEF RingsAreRecent
  <2>3. revents = {}
    BY <2>1 DEF RingsAreRecent
  <2> QED
    BY <2>1, <2>2, <2>3 DEF RingsAreRecent, OldestIn
<1>10. CASE \/ \E ip \in Listable : UpdateList(ip)
            \/ \E c \in Cpus, s \in Sources, d \in Destinations : LookUp(c, s, d)
            \/ UNCHANGED vars
  <2>1. UNCHANGED <<ring, signalled, revents, pc, now, clock>>
    BY <1>10 DEF UpdateList, LookUp, traffic, timing, vars
  <2> QED
    BY <2>1 DEF RingsAreRecent, OldestIn
<1>11. ASSUME NEW c \in Cpus, DrainError(c) PROVE FALSE
  BY <1>11 DEF DrainError
<1> QED
  BY <1>1, <1>2, <1>3, <1>4, <1>5, <1>6, <1>7, <1>8, <1>9, <1>10, <1>11 DEF Next, Daemon


\* The queue from step to step.
LEMMA QueueRecentStep ==
  ASSUME KeepsUp, ~ AllocFails, TimerInv, TimerInv', RingsAreRecent, QueueIsRecent, [Next]_vars
  PROVE  QueueIsRecent'
<1> USE ConstantsAssumption DEF KeepsUp
<1>0. /\ now \in 1 .. MaxClock /\ clock \in 1 .. MaxClock /\ time_start \in 0 .. MaxClock
      /\ ring \in [Cpus -> Seq(Sample)] /\ packets_queue \in Seq(Sample)
      /\ time_start = 0 <=> prev_time = 0
  BY DEF TimerInv, TypeOK
<1>1. CASE Tick
  <2>1. UNCHANGED <<packets_queue, time_start>> /\ clock' = clock + 1
    BY <1>0, <1>1 DEF Tick, timing
  <2>2. \A z \in 1 .. clock : z \in 1 .. clock + 1
    BY <1>0
  <2> QED
    BY <2>1, <2>2 DEF QueueIsRecent
<1>2. CASE ReadTime
  <2>1. UNCHANGED <<packets_queue, clock>> /\ (time_start # 0 => time_start' = time_start)
        /\ (time_start = 0 => time_start' = clock)
    BY <1>0, <1>2 DEF ReadTime
  <2>2. CASE time_start = 0
    <3>1. packets_queue' = <<>> /\ DOMAIN <<>> = {}
      BY <2>1, <2>2 DEF QueueIsRecent
    <3> QED
      BY <3>1 DEF QueueIsRecent
  <2>3. CASE time_start # 0
    BY <2>1, <2>3 DEF QueueIsRecent
  <2> QED
    BY <2>2, <2>3
<1>3. CASE EndWindow \/ Crash
  <2>1. packets_queue' = <<>> /\ DOMAIN <<>> = {}
    BY <1>3 DEF EndWindow, Crash
  <2> QED
    BY <2>1 DEF QueueIsRecent
<1>4. ASSUME NEW c \in Cpus, Drain(c)
      PROVE  QueueIsRecent'
  <2>1. /\ pc = "drain" /\ packets_queue' = packets_queue \o ring[c] /\ c \in revents
        /\ UNCHANGED <<clock, time_start>>
    BY <1>4 DEF Drain, NextRing, timing
  <2>2. clock = now /\ time_start # 0 /\ time_start <= now /\ now - time_start < INTERVAL
    BY <1>0, <2>1 DEF TimerInv
  <2>3. \A i \in DOMAIN ring[c] : ring[c][i].sec \in 1 .. clock /\ ring[c][i].sec >= now - 2
    BY <2>1 DEF RingsAreRecent, OldestIn
  <2>4. \A z \in 1 .. clock : z >= now - 2 => z \in time_start - 2 .. time_start + INTERVAL - 1
    BY <1>0, <2>2
  <2> PICK n \in Nat : n = Len(packets_queue)
    BY <1>0, LenProperties
  <2> PICK m \in Nat : m = Len(ring[c])
    BY <1>0, LenProperties
  <2>5. /\ DOMAIN packets_queue = 1 .. n /\ DOMAIN ring[c] = 1 .. m
        /\ DOMAIN packets_queue' = 1 .. n + m
        /\ \A i \in 1 .. n : packets_queue'[i] = packets_queue[i]
        /\ \A i \in n + 1 .. n + m : packets_queue'[i] = ring[c][i - n]
    BY <1>0, <2>1, ConcatProperties, LenProperties
  <2>6. ASSUME NEW i \in 1 .. n + m
        PROVE  /\ packets_queue'[i].sec \in 1 .. clock
               /\ packets_queue'[i].sec \in time_start - 2 .. time_start + INTERVAL - 1
    <3>1. i \in 1 .. n \/ (i \in n + 1 .. n + m /\ i - n \in 1 .. m)
      BY ONLY i \in 1 .. n + m, n \in Nat, m \in Nat
    <3>2. CASE i \in 1 .. n
      BY <2>5, <3>2 DEF QueueIsRecent
    <3>3. CASE i \in n + 1 .. n + m /\ i - n \in 1 .. m
      BY <2>3, <2>4, <2>5, <3>3
    <3> QED
      BY <3>1, <3>2, <3>3
  <2> QED
    BY <2>1, <2>2, <2>5, <2>6 DEF QueueIsRecent
<1>5. CASE \/ \E c \in Cpus : Emit(c)
           \/ \E c \in Cpus, s \in Sources, d \in Destinations : LookUp(c, s, d)
           \/ \E ip \in Listable : UpdateList(ip)
           \/ Poll \/ (\E v \in todo : BlockNext(v)) \/ Unblock \/ EndSweep \/ EndDrain \/ Restart
           \/ UNCHANGED vars
  <2>1. UNCHANGED <<packets_queue, time_start, clock>>
    BY <1>5
    DEF Emit, LookUp, UpdateList, Poll, BlockNext, Unblock, EndSweep, EndDrain, Restart, timing, vars
  <2> QED
    BY <2>1 DEF QueueIsRecent
<1>6. ASSUME NEW c \in Cpus, DrainError(c) PROVE FALSE
  BY <1>6 DEF DrainError
<1> QED
  BY <1>1, <1>2, <1>3, <1>4, <1>5, <1>6 DEF Next, Daemon

\* A rate times a number of seconds.
LEMMA RateTimes ==
  ASSUME NEW a \in Nat
  PROVE  MaxRate * a \in Nat /\ MaxRate * (a + 1) = MaxRate * a + MaxRate
BY ConstantsAssumption

\* More seconds, more packets.
LEMMA RateGrows ==
  ASSUME NEW a \in Nat, NEW b \in Nat, a <= b
  PROVE  MaxRate * a <= MaxRate * b
BY ConstantsAssumption

\* With empty rings and an empty queue nothing waits.
LEMMA NoneHeld ==
  ASSUME NEW r, \A c \in Cpus : r[c] = <<>>, NEW x, NEW y
  PROVE  Cardinality(HeldOf(<<>>, r, x, y)) = 0
<1>1. Len(<<>>) = 0 /\ DOMAIN <<>> = {} /\ RING_CAP \in Nat
  BY ConstantsAssumption
<1>2. HeldOf(<<>>, r, x, y) = {}
  BY <1>1 DEF HeldOf, QueuePlaces, RingPlaces
<1> QED
  BY <1>2, FS_EmptySet

\* Rates that are kept are kept when less waits.
LEMMA RatesShrink ==
  ASSUME NEW q \in Seq(Sample), NEW r, NEW q2 \in Seq(Sample), NEW r2, NEW t \in Nat, NEW n \in Nat,
         RatesOf(q, r, t, n),
         \A x, y \in Int : Cardinality(HeldOf(q2, r2, x, y)) <= Cardinality(HeldOf(q, r, x, y))
  PROVE  RatesOf(q2, r2, t, n)
<1> SUFFICES ASSUME NEW x \in 0 .. t
             PROVE  /\ \A y \in x .. t - 1 : Cardinality(HeldOf(q2, r2, x, y)) <= MaxRate * (y - x + 1)
                    /\ Cardinality(HeldOf(q2, r2, x, t)) <= MaxRate * (t - x) + n
  BY DEF RatesOf
<1>1. \A y \in Int : /\ Cardinality(HeldOf(q, r, x, y)) \in Nat /\ Cardinality(HeldOf(q2, r2, x, y)) \in Nat
  BY HeldFinite
<1>2. ASSUME NEW y \in x .. t - 1 PROVE Cardinality(HeldOf(q2, r2, x, y)) <= MaxRate * (y - x + 1)
  <2>1. y - x + 1 \in Nat /\ y \in Int /\ x \in Int
    OBVIOUS
  <2> PICK k \in Nat : k = y - x + 1
    BY <2>1
  <2> PICK m \in Nat : m = MaxRate * k
    BY RateTimes
  <2> PICK h2, h : h2 = Cardinality(HeldOf(q2, r2, x, y)) /\ h = Cardinality(HeldOf(q, r, x, y))
    OBVIOUS
  <2>2. h \in Nat /\ h2 \in Nat /\ h2 <= h
    BY <1>1, <2>1
  <2>3. h <= m
    BY DEF RatesOf
  <2>4. h2 <= m
    BY ONLY <2>2, <2>3, m \in Nat
  <2> QED
    BY <2>4
<1>3. Cardinality(HeldOf(q2, r2, x, t)) <= MaxRate * (t - x) + n
  <2>1. t - x \in Nat /\ t \in Int /\ x \in Int
    OBVIOUS
  <2> PICK k \in Nat : k = t - x
    BY <2>1
  <2> PICK m \in Nat : m = MaxRate * k
    BY RateTimes
  <2> PICK h2, h : h2 = Cardinality(HeldOf(q2, r2, x, t)) /\ h = Cardinality(HeldOf(q, r, x, t))
    OBVIOUS
  <2>2. h \in Nat /\ h2 \in Nat /\ h2 <= h
    BY <1>1, <2>1
  <2>3. h <= m + n
    BY DEF RatesOf
  <2>4. h2 <= m + n
    BY ONLY <2>2, <2>3, m \in Nat, n \in Nat
  <2> QED
    BY <2>4
<1> QED
  BY <1>2, <1>3

\* Every sample that waits arrived by now.
LEMMA HeldArrived ==
  ASSUME RingsAreRecent, QueueIsRecent,
         NEW e \in QueuePlaces(packets_queue) \cup RingPlaces(ring)
  PROVE  SampleAt(packets_queue, ring, e).sec \in 1 .. clock
<1>0. Cpus \subseteq Nat /\ RING_CAP \in Nat
  BY ConstantsAssumption
<1>1. CASE e \in QueuePlaces(packets_queue)
  BY <1>1 DEF QueuePlaces, SampleAt, QueueIsRecent
<1>2. CASE e \in RingPlaces(ring)
  <2>1. e[1] \in Cpus /\ e[2] \in 1 .. RING_CAP /\ e[2] <= Len(ring[e[1]]) /\ e[1] # -1
    BY <1>0, <1>2 DEF RingPlaces
  <2> QED
    BY <2>1 DEF SampleAt, RingsAreRecent
<1> QED
  BY <1>1, <1>2

\* The rates from step to step.
LEMMA RatesStep ==
  ASSUME KeepsUp, ~ AllocFails, TimerInv, TimerInv', RingsAreRecent, QueueIsRecent,
         RatesAreKept, [Next]_vars
  PROVE  RatesAreKept'
<1> USE ConstantsAssumption DEF KeepsUp
<1> PICK t \in Nat : t = clock
  BY DEF TimerInv, TypeOK
<1> PICK n \in Nat : n = arrived
  BY DEF TimerInv, TypeOK
<1> PICK q \in Seq(Sample) : q = packets_queue
  BY DEF TimerInv, TypeOK
<1> PICK r \in [Cpus -> Seq(Sample)] : r = ring
  BY DEF TimerInv, TypeOK
<1>0. RatesOf(q, r, t, n) /\ 1 <= t /\ n <= MaxRate /\ n' = n /\ t' = t /\ q' = q /\ r' = r
  BY DEF RatesAreKept, TimerInv, TypeOK
<1>1. \A e \in QueuePlaces(q) \cup RingPlaces(r) : SampleAt(q, r, e).sec \in 1 .. t
  BY HeldArrived
<1>2. \A x, y \in Int : IsFiniteSet(HeldOf(q, r, x, y)) /\ Cardinality(HeldOf(q, r, x, y)) \in Nat
  BY HeldFinite
<1>3. CASE Tick
  <2>1. UNCHANGED <<packets_queue, ring>> /\ clock' = t + 1 /\ arrived' = 0
    BY <1>3 DEF Tick, TimerInv, TypeOK
  <2>2. ASSUME NEW x \in 0 .. t + 1
        PROVE  /\ \A y \in x .. t : Cardinality(HeldOf(q, r, x, y)) <= MaxRate * (y - x + 1)
               /\ Cardinality(HeldOf(q, r, x, t + 1)) <= MaxRate * (t + 1 - x)
    <3>1. CASE x = t + 1
      <4>1. HeldOf(q, r, x, t + 1) = {}
        <5>1. \A z \in 1 .. t : z \notin x .. t + 1
          BY <3>1
        <5> QED
          BY <1>1, <5>1 DEF HeldOf
      <4>2. MaxRate * (t + 1 - x) = 0 /\ x .. t = {}
        BY <3>1
      <4> QED
        <5>1. Cardinality(HeldOf(q, r, x, t + 1)) = 0
          BY <4>1, FS_EmptySet
        <5> QED
          BY <4>2, <5>1
    <3>2. CASE x \in 0 .. t
      <4> PICK k \in Nat : k = t - x
        BY <3>2
      <4> PICK m \in Nat : m = MaxRate * k /\ MaxRate * (k + 1) = m + MaxRate
        BY RateTimes
      <4> PICK h : h = Cardinality(HeldOf(q, r, x, t))
        OBVIOUS
      <4>1. h \in Nat /\ h <= m + n
        BY <1>0, <1>2, <3>2 DEF RatesOf
      <4>2. h <= m + MaxRate
        BY ONLY <1>0, <4>1, m \in Nat, n \in Nat, MaxRate \in Nat, ConstantsAssumption
      <4>3. t - x + 1 = k + 1 /\ t + 1 - x = k + 1
        BY <3>2
      <4>4. h <= MaxRate * (k + 1)
        BY <4>2
      <4>5. Cardinality(HeldOf(q, r, x, t)) <= MaxRate * (t - x + 1)
        BY <4>3, <4>4
      <4>6. \A y \in x .. t - 1 : Cardinality(HeldOf(q, r, x, y)) <= MaxRate * (y - x + 1)
        BY <1>0, <3>2 DEF RatesOf
      <4>7. \A y \in x .. t : y \in x .. t - 1 \/ y = t
        BY <3>2
      <4>8. \A e \in HeldOf(q, r, x, t + 1) : SampleAt(q, r, e).sec \in x .. t
        <5>1. \A z \in 1 .. t : z \in x .. t + 1 => z \in x .. t
          OBVIOUS
        <5> QED
          BY <1>1, <5>1 DEF HeldOf
      <4>9. Cardinality(HeldOf(q, r, x, t + 1)) <= h
        BY <4>8, HeldWithin
      <4>10. Cardinality(HeldOf(q, r, x, t + 1)) \in Nat
        <5>1. x \in Int /\ t + 1 \in Int
          BY <3>2
        <5> QED
          BY <1>2, <5>1
      <4> PICK h2 \in Nat : h2 = Cardinality(HeldOf(q, r, x, t + 1))
        BY <4>10
      <4> PICK m2 : m2 = MaxRate * (k + 1)
        OBVIOUS
      <4>11. m2 \in Nat
        BY RateTimes
      <4>12. h2 <= m2
        BY <4>1, <4>4, <4>9, <4>11
      <4>13. Cardinality(HeldOf(q, r, x, t + 1)) <= MaxRate * (t + 1 - x)
        BY <4>3, <4>12
      <4> QED
        BY <4>5, <4>6, <4>7, <4>13
    <3> QED
      BY <3>1, <3>2
  <2>3. \A z \in Nat : z + 0 = z
    OBVIOUS
  <2>4. \A x \in 0 .. t + 1 : MaxRate * (t + 1 - x) \in Nat
    <3> SUFFICES ASSUME NEW x \in 0 .. t + 1 PROVE MaxRate * (t + 1 - x) \in Nat
      OBVIOUS
    <3> PICK k \in Nat : k = t + 1 - x
      OBVIOUS
    <3> QED
      BY RateTimes
  <2>5. t + 1 - 1 = t
    OBVIOUS
  <2>6. RatesOf(q, r, t + 1, 0)
    BY <2>2, <2>3, <2>4, <2>5 DEF RatesOf
  <2> QED
    BY <1>0, <2>1, <2>6 DEF RatesAreKept
<1>4. ASSUME NEW c \in Cpus, Emit(c)
      PROVE  RatesAreKept'
  <2>0. UNCHANGED <<packets_queue, clock>> /\ arrived' = n + 1
    BY <1>4, EmitAppends DEF TimerInv
  <2> PICK r2 : r2 = ring'
    OBVIOUS
  <2>2. \/ r2 = r
        \/ \E e \in Sample : e.sec = t /\ r2 = [r EXCEPT ![c] = Append(r[c], e)]
    BY <1>4, EmitAppends DEF TimerInv
  <2>3. ASSUME NEW x \in Int, NEW y \in Int
        PROVE  /\ Cardinality(HeldOf(q, r2, x, y)) <= Cardinality(HeldOf(q, r, x, y)) + 1
               /\ t \notin x .. y =>
                    Cardinality(HeldOf(q, r2, x, y)) <= Cardinality(HeldOf(q, r, x, y))
    <3>1. CASE r2 = r
      <4>1. Cardinality(HeldOf(q, r, x, y)) \in Nat
        BY <1>2
      <4> QED
        BY <3>1, <4>1
    <3>2. ASSUME NEW e \in Sample, e.sec = t, r2 = [r EXCEPT ![c] = Append(r[c], e)]
          PROVE  /\ Cardinality(HeldOf(q, r2, x, y)) <= Cardinality(HeldOf(q, r, x, y)) + 1
                 /\ t \notin x .. y =>
                      Cardinality(HeldOf(q, r2, x, y)) <= Cardinality(HeldOf(q, r, x, y))
      BY ONLY <3>2, HeldArrives, q \in Seq(Sample), r \in [Cpus -> Seq(Sample)], c \in Cpus
    <3> QED
      BY <2>2, <3>1, <3>2
  <2>4. \A x, y \in Int : Cardinality(HeldOf(q, r2, x, y)) \in Nat
    BY HeldFinite
  <2>5. ASSUME NEW x \in 0 .. t
        PROVE  /\ \A y \in x .. t - 1 : Cardinality(HeldOf(q, r2, x, y)) <= MaxRate * (y - x + 1)
               /\ Cardinality(HeldOf(q, r2, x, t)) <= MaxRate * (t - x) + (n + 1)
    <3>1. ASSUME NEW y \in x .. t - 1
          PROVE  Cardinality(HeldOf(q, r2, x, y)) <= MaxRate * (y - x + 1)
      <4> PICK k \in Nat : k = y - x + 1
        OBVIOUS
      <4> PICK m \in Nat : m = MaxRate * k
        BY RateTimes
      <4> PICK h2, h : h2 = Cardinality(HeldOf(q, r2, x, y)) /\ h = Cardinality(HeldOf(q, r, x, y))
        OBVIOUS
      <4>1. t \notin x .. y /\ x \in Int /\ y \in Int
        OBVIOUS
      <4>2. h2 <= h /\ h \in Nat /\ h2 \in Nat
        BY <1>2, <2>3, <2>4, <4>1
      <4>3. h <= m
        BY <1>0 DEF RatesOf
      <4>4. h2 <= m
        BY ONLY <4>2, <4>3, m \in Nat
      <4> QED
        BY <4>4
    <3>2. Cardinality(HeldOf(q, r2, x, t)) <= MaxRate * (t - x) + (n + 1)
      <4> PICK k \in Nat : k = t - x
        OBVIOUS
      <4> PICK m \in Nat : m = MaxRate * k
        BY RateTimes
      <4> PICK h2, h : h2 = Cardinality(HeldOf(q, r2, x, t)) /\ h = Cardinality(HeldOf(q, r, x, t))
        OBVIOUS
      <4>1. x \in Int /\ t \in Int
        OBVIOUS
      <4>2. h2 <= h + 1 /\ h \in Nat /\ h2 \in Nat
        BY <1>2, <2>3, <2>4, <4>1
      <4>3. h <= m + n
        BY <1>0 DEF RatesOf
      <4>4. h2 <= m + (n + 1)
        BY ONLY <4>2, <4>3, m \in Nat, n \in Nat
      <4> QED
        BY <4>4
    <3> QED
      BY <3>1, <3>2
  <2>6. RatesOf(q, r2, t, n + 1)
    BY <2>5 DEF RatesOf
  <2> QED
    BY <1>0, <2>0, <2>6 DEF RatesAreKept
<1>5. ASSUME NEW c \in Cpus, Drain(c)
      PROVE  RatesAreKept'
  <2> PICK q2, r2 : q2 = packets_queue' /\ r2 = ring'
    OBVIOUS
  <2>1. q2 = q \o r[c] /\ r2 = [r EXCEPT ![c] = <<>>] /\ UNCHANGED <<clock, arrived>>
    BY <1>5 DEF Drain
  <2>2. q2 \in Seq(Sample)
    BY <2>1, ConcatProperties
  <2>3. Len(r[c]) <= RING_CAP
    BY DEF RingsAreRecent
  <2>4. \A x, y \in Int : Cardinality(HeldOf(q2, r2, x, y)) <= Cardinality(HeldOf(q, r, x, y))
    BY <2>1, <2>3, HeldDrained
  <2>5. RatesOf(q2, r2, t, n)
    BY <1>0, <2>2, <2>4, RatesShrink
  <2> QED
    BY <2>1, <2>5 DEF RatesAreKept
<1>6. CASE EndWindow
  <2>1. packets_queue' = <<>> /\ UNCHANGED <<ring, clock, arrived>> /\ <<>> \in Seq(Sample)
    BY <1>6, EmptySeq DEF EndWindow, traffic
  <2>2. \A x, y \in Int : Cardinality(HeldOf(<<>>, r, x, y)) <= Cardinality(HeldOf(q, r, x, y))
    BY HeldEmptied
  <2>3. RatesOf(<<>>, r, t, n)
    BY <1>0, <2>1, <2>2, RatesShrink
  <2> QED
    BY <2>1, <2>3 DEF RatesAreKept
<1>7. CASE Crash
  <2> PICK r2 : r2 = ring'
    OBVIOUS
  <2>1. packets_queue' = <<>> /\ r2 = [c \in Cpus |-> <<>>] /\ UNCHANGED <<clock, arrived>>
        /\ <<>> \in Seq(Sample)
    BY <1>7, EmptySeq DEF Crash
  <2>2. \A x, y \in Int : Cardinality(HeldOf(<<>>, r2, x, y)) = 0
    BY <2>1, NoneHeld
  <2>3. \A x, y \in Int : Cardinality(HeldOf(<<>>, r2, x, y)) <= Cardinality(HeldOf(q, r, x, y))
    BY <1>2, <2>2
  <2>4. RatesOf(<<>>, r2, t, n)
    BY <1>0, <2>1, <2>3, RatesShrink
  <2> QED
    BY <2>1, <2>4 DEF RatesAreKept
<1>8. CASE \/ \E ip \in Listable : UpdateList(ip)
           \/ \E c \in Cpus, s \in Sources, d \in Destinations : LookUp(c, s, d)
           \/ Poll \/ ReadTime \/ (\E v \in todo : BlockNext(v)) \/ Unblock \/ EndSweep
           \/ EndDrain \/ Restart \/ UNCHANGED vars
  <2>1. UNCHANGED <<packets_queue, ring, clock, arrived>>
    BY <1>8 DEF UpdateList, LookUp, Poll, ReadTime, BlockNext, Unblock, EndSweep, EndDrain, Restart,
                traffic, vars
  <2> QED
    BY <2>1 DEF RatesAreKept
<1>9. ASSUME NEW c \in Cpus, DrainError(c) PROVE FALSE
  BY <1>9 DEF DrainError
<1> QED
  BY <1>3, <1>4, <1>5, <1>6, <1>7, <1>8, <1>9 DEF Next, Daemon

\* The samples of before the window from step to step.
LEMMA OldStep ==
  ASSUME KeepsUp, ~ AllocFails, TimerInv, TimerInv', RingsAreRecent, QueueIsRecent,
         OldFitsRings, [Next]_vars
  PROVE  OldFitsRings'
<1> USE ConstantsAssumption DEF KeepsUp
<1>0. /\ packets_queue \in Seq(Sample) /\ ring \in [Cpus -> Seq(Sample)]
      /\ time_start \in 0 .. MaxClock /\ clock \in 1 .. MaxClock /\ time_start <= clock
      /\ time_start = 0 <=> prev_time = 0
  BY DEF TimerInv, TypeOK
<1> PICK B : B = Cardinality(Cpus) * RING_CAP
  OBVIOUS
<1>1. \A r, x, y : Cardinality(HeldOf(<<>>, r, x, y)) <= B
  BY <1>0, HeldEmptied
<1>2. B \in Nat
  <2>1. Cardinality(Cpus) \in Nat
    BY FS_CardinalityType
  <2> QED
    BY <2>1
<1>3. CASE EndWindow \/ Crash
  <2>1. packets_queue' = <<>>
    BY <1>3 DEF EndWindow, Crash
  <2> QED
    BY <1>1, <2>1 DEF OldFitsRings
<1>4. CASE ReadTime
  <2>1. UNCHANGED <<packets_queue, ring>> /\ (time_start # 0 => time_start' = time_start)
    BY <1>0, <1>4 DEF ReadTime, traffic
  <2>2. CASE time_start = 0
    <3>1. packets_queue' = <<>>
      BY <2>1, <2>2 DEF QueueIsRecent
    <3> QED
      BY <1>1, <3>1 DEF OldFitsRings
  <2>3. CASE time_start # 0
    BY <2>1, <2>3 DEF OldFitsRings
  <2> QED
    BY <2>2, <2>3
<1>5. ASSUME NEW c \in Cpus, Emit(c)
      PROVE  OldFitsRings'
  <2>0. UNCHANGED <<packets_queue, time_start>>
    BY <1>5 DEF Emit, timing
  <2> PICK q \in Seq(Sample) : q = packets_queue
    BY <1>0
  <2> PICK r \in [Cpus -> Seq(Sample)] : r = ring
    BY <1>0
  <2> PICK r2, x : r2 = ring' /\ x = time_start - 1
    OBVIOUS
  <2>2. \/ r2 = r
        \/ \E e \in Sample : e.sec = clock /\ r2 = [r EXCEPT ![c] = Append(r[c], e)]
    BY <1>5, EmitAppends DEF TimerInv
  <2>3. clock \notin 0 .. x
    BY <1>0
  <2>4. Cardinality(HeldOf(q, r, 0, x)) <= B
    BY DEF OldFitsRings
  <2>5. Cardinality(HeldOf(q, r2, 0, x)) <= B
    <3>1. CASE r2 = r
      BY <2>4, <3>1
    <3>2. ASSUME NEW e \in Sample, e.sec = clock, r2 = [r EXCEPT ![c] = Append(r[c], e)]
          PROVE  Cardinality(HeldOf(q, r2, 0, x)) <= B
      <4>1. e \in Sample /\ e.sec \notin 0 .. x
        BY <2>3, <3>2
      <4>2. Cardinality(HeldOf(q, r2, 0, x)) <= Cardinality(HeldOf(q, r, 0, x))
        BY ONLY <3>2, <4>1, HeldArrives, q \in Seq(Sample), r \in [Cpus -> Seq(Sample)], c \in Cpus
      <4>3. /\ Cardinality(HeldOf(q, r2, 0, x)) \in Nat /\ Cardinality(HeldOf(q, r, 0, x)) \in Nat
        BY HeldFinite
      <4> QED
        BY <1>2, <2>4, <4>2, <4>3
    <3> QED
      BY <2>2, <3>1, <3>2
  <2> QED
    BY <2>0, <2>5 DEF OldFitsRings
<1>6. ASSUME NEW c \in Cpus, Drain(c)
      PROVE  OldFitsRings'
  <2> PICK q \in Seq(Sample) : q = packets_queue
    BY <1>0
  <2> PICK r \in [Cpus -> Seq(Sample)] : r = ring
    BY <1>0
  <2> PICK q2, r2, x : q2 = packets_queue' /\ r2 = ring' /\ x = time_start - 1
    OBVIOUS
  <2>1. q2 = q \o r[c] /\ r2 = [r EXCEPT ![c] = <<>>] /\ UNCHANGED time_start
    BY <1>6 DEF Drain, timing
  <2>2. q2 \in Seq(Sample)
    BY <2>1, ConcatProperties
  <2>3. Len(r[c]) <= RING_CAP
    BY DEF RingsAreRecent
  <2>4. Cardinality(HeldOf(q2, r2, 0, x)) <= Cardinality(HeldOf(q, r, 0, x))
    BY <2>1, <2>3, HeldDrained
  <2>5. Cardinality(HeldOf(q, r, 0, x)) <= B
    BY DEF OldFitsRings
  <2>6. /\ Cardinality(HeldOf(q2, r2, 0, x)) \in Nat /\ Cardinality(HeldOf(q, r, 0, x)) \in Nat
    BY <2>2, HeldFinite
  <2>7. Cardinality(HeldOf(q2, r2, 0, x)) <= B
    BY <1>2, <2>4, <2>5, <2>6
  <2> QED
    BY <2>1, <2>7 DEF OldFitsRings
<1>7. CASE \/ Tick \/ \E ip \in Listable : UpdateList(ip)
           \/ \E c \in Cpus, s \in Sources, d \in Destinations : LookUp(c, s, d)
           \/ Poll \/ (\E v \in todo : BlockNext(v)) \/ Unblock \/ EndSweep
           \/ EndDrain \/ Restart \/ UNCHANGED vars
  <2>1. UNCHANGED <<packets_queue, ring, time_start>>
    BY <1>7 DEF Tick, UpdateList, LookUp, Poll, BlockNext, Unblock, EndSweep, EndDrain, Restart,
                traffic, timing, vars
  <2> QED
    BY <2>1 DEF OldFitsRings
<1>8. ASSUME NEW c \in Cpus, DrainError(c) PROVE FALSE
  BY <1>8 DEF DrainError
<1> QED
  BY <1>3, <1>4, <1>5, <1>6, <1>7, <1>8 DEF Next, Daemon

\* Nothing waits at the start.
LEMMA KeepUpInit == Init => KeepUpInv
<1> SUFFICES ASSUME Init PROVE KeepUpInv
  OBVIOUS
<1> USE ConstantsAssumption
<1>1. /\ clock = 1 /\ arrived = 0 /\ time_start = 0 /\ packets_queue = <<>> /\ revents = {}
      /\ \A c \in Cpus : ring[c] = <<>>
  BY DEF Init
<1>2. TimerInv
  BY TimerInit
<1>3. RingsAreRecent
  <2>1. Len(<<>>) = 0 /\ DOMAIN <<>> = {}
    OBVIOUS
  <2> QED
    BY <1>1, <2>1 DEF RingsAreRecent
<1>4. QueueIsRecent
  <2>1. DOMAIN <<>> = {}
    OBVIOUS
  <2> QED
    BY <1>1, <2>1 DEF QueueIsRecent
<1>5. \A x, y : Cardinality(HeldOf(packets_queue, ring, x, y)) = 0
  BY <1>1, NoneHeld
<1>6. RatesAreKept
  <2>1. ASSUME NEW x \in 0 .. 1
        PROVE  /\ \A y \in x .. 0 : 0 <= MaxRate * (y - x + 1)
               /\ 0 <= MaxRate * (1 - x) + 0
    <3>1. \A y \in x .. 0 : MaxRate * (y - x + 1) \in Nat
      <4> TAKE y \in x .. 0
      <4> PICK k \in Nat : k = y - x + 1
        OBVIOUS
      <4> QED
        BY RateTimes
    <3>2. MaxRate * (1 - x) \in Nat
      <4> PICK k \in Nat : k = 1 - x
        OBVIOUS
      <4> QED
        BY RateTimes
    <3> QED
      BY <3>1, <3>2
  <2> QED
    BY <1>1, <1>5, <2>1 DEF RatesAreKept, RatesOf
<1>7. OldFitsRings
  <2>1. Cardinality(Cpus) * RING_CAP \in Nat
    <3>1. Cardinality(Cpus) \in Nat
      BY FS_CardinalityType
    <3> QED
      BY <3>1
  <2> QED
    BY <1>5, <2>1 DEF OldFitsRings
<1> QED
  BY <1>2, <1>3, <1>4, <1>6, <1>7 DEF KeepUpInv

\* Every step of a loop that keeps up leaves it so.
LEMMA KeepUpStep ==
  ASSUME KeepsUp, ~ AllocFails, KeepUpInv, [Next]_vars
  PROVE  KeepUpInv'
<1>1. TimerInv /\ RingsAreRecent /\ QueueIsRecent /\ RatesAreKept /\ OldFitsRings
  BY DEF KeepUpInv
<1>2. TimerInv'
  BY <1>1, TimerStep
<1> QED
  BY <1>1, <1>2, RingsRecentStep, QueueRecentStep, RatesStep, OldStep DEF KeepUpInv

\* The invariant is enough for each of the four things that LoopKeepsUp says.
LEMMA KeepUpSuffices ==
  ASSUME KeepsUp, MaxRate * INTERVAL + Cardinality(Cpus) * RING_CAP <= QUEUE_MAX, KeepUpInv
  PROVE  LoopKeepsUp
<1> USE ConstantsAssumption
<1>0. /\ TimerInv /\ RingsAreRecent /\ QueueIsRecent /\ RatesAreKept /\ OldFitsRings
      /\ now \in 1 .. MaxClock /\ clock \in 1 .. MaxClock /\ time_start \in 0 .. MaxClock
      /\ prev_time \in 0 .. MaxClock /\ now <= clock /\ time_start <= now
      /\ packets_queue \in Seq(Sample) /\ ring \in [Cpus -> Seq(Sample)] /\ arrived \in 0 .. MaxRate
      /\ pc \in {"poll", "time", "block", "sweep", "drain", "down"}
  BY DEF KeepUpInv, TimerInv, TypeOK
<1>1. SweptEachSecond
  BY <1>0 DEF TimerInv, SweptEachSecond
<1>2. WindowEnds
  <2> SUFFICES ASSUME pc = "sweep" PROVE Since(now, time_start) < INTERVAL
    BY DEF WindowEnds
  <2>1. time_start # 0 /\ now - time_start < INTERVAL
    BY <1>0 DEF TimerInv
  <2>2. Since(now, time_start) = now - time_start
    BY <1>0, <2>1, SinceIsDifference
  <2> QED
    BY <2>1, <2>2
<1>3. time_start # 0 => clock <= time_start + INTERVAL
  <2> SUFFICES ASSUME time_start # 0 PROVE clock <= time_start + INTERVAL
    OBVIOUS
  <2>1. pc # "down"
    BY <1>0 DEF TimerInv
  <2>2. CASE pc = "block"
    BY <1>0, <2>2 DEF TimerInv
  <2>3. CASE pc # "block"
    BY <1>0, <2>1, <2>3 DEF TimerInv
  <2> QED
    BY <2>2, <2>3
<1>4. JudgedSoon
  <2>1. ASSUME NEW i \in DOMAIN packets_queue
        PROVE  clock - packets_queue[i].sec <= INTERVAL + 2
    <3>1. time_start # 0
      <4>1. DOMAIN <<>> = {}
        OBVIOUS
      <4> QED
        BY <1>0, <4>1 DEF QueueIsRecent
    <3> PICK z \in Nat : z = packets_queue[i].sec /\ z \in time_start - 2 .. time_start + INTERVAL - 1
      BY <1>0, SMTT(30) DEF QueueIsRecent
    <3> PICK s \in Nat, t \in Nat : s = time_start /\ t = clock
      BY <1>0
    <3>2. t <= s + INTERVAL /\ z \in s - 2 .. s + INTERVAL - 1 /\ INTERVAL \in Nat
      BY <1>3, <3>1
    <3>3. t - z <= INTERVAL + 2
      BY ONLY <3>2, s \in Nat, t \in Nat, z \in Nat
    <3> QED
      BY <3>3
  <2>2. ASSUME NEW c \in Cpus, NEW i \in DOMAIN ring[c]
        PROVE  clock - ring[c][i].sec <= INTERVAL + 2
    <3>1. ring[c] # <<>>
      <4>1. DOMAIN <<>> = {}
        OBVIOUS
      <4> QED
        BY <4>1
    <3>2. pc # "down"
      BY <1>0, <3>1 DEF RingsAreRecent
    <3>3. clock <= now + 1
      BY <1>0, <3>2 DEF TimerInv
    <3>4. ring[c][i].sec \in 1 .. clock /\ ring[c][i].sec >= OldestIn(c)
      BY <1>0 DEF RingsAreRecent
    <3> PICK z \in Nat : z = ring[c][i].sec /\ z >= OldestIn(c)
      BY <3>4
    <3>5. z >= now - 2
      BY <1>0, SMTT(30) DEF OldestIn
    <3>6. clock - z <= INTERVAL + 2
      BY <1>0, <3>3, <3>5, SMTT(30)
    <3> QED
      BY <3>6
  <2> QED
    BY <2>1, <2>2 DEF JudgedSoon
<1>5. QueueFits
  <2> PICK q \in Seq(Sample) : q = packets_queue
    BY <1>0
  <2> PICK r : r = ring
    OBVIOUS
  <2> PICK n \in Nat : n = Len(q) /\ DOMAIN q = 1 .. n
    BY LenProperties
  <2> PICK s, t \in Nat : s = time_start /\ t = clock
    BY <1>0
  <2> DEFINE old == HeldOf(q, r, 0, s - 1)
             new == HeldOf(q, r, s, s + INTERVAL - 1)
  <2>1. QueuePlaces(q) \subseteq old \cup new
    <3>1. \A i \in DOMAIN q : q[i].sec \in 1 .. t /\ q[i].sec \in s - 2 .. s + INTERVAL - 1
      BY <1>0 DEF QueueIsRecent
    <3>2. \A z \in 1 .. t : z \in s - 2 .. s + INTERVAL - 1 =>
                              z \in 0 .. s - 1 \/ z \in s .. s + INTERVAL - 1
      OBVIOUS
    <3> QED
      BY <3>1, <3>2 DEF HeldOf, QueuePlaces, SampleAt
  <2>2. /\ IsFiniteSet(old) /\ IsFiniteSet(new) /\ Cardinality(old) \in Nat /\ Cardinality(new) \in Nat
    BY HeldFinite
  <2>3. Cardinality(QueuePlaces(q)) = n
    <3>1. IsFiniteSet(1 .. n) /\ Cardinality(1 .. n) = n
      BY ONLY FS_Interval, n \in Nat
    <3>2. IsFiniteSet({-1}) /\ Cardinality({-1}) = 1
      BY FS_Singleton
    <3>3. Cardinality({-1} \X (1 .. n)) = 1 * n
      BY ONLY <3>1, <3>2, FS_Product, ZenonT(60)
    <3>4. 1 * n = n
      BY ONLY n \in Nat
    <3> QED
      BY <3>3, <3>4 DEF QueuePlaces
  <2>4. n <= Cardinality(old) + Cardinality(new)
    <3> HIDE DEF old, new
    <3>1. /\ IsFiniteSet(old \cup new)
          /\ Cardinality(old \cup new) = Cardinality(old) + Cardinality(new) - Cardinality(old \cap new)
      BY <2>2, FS_Union
    <3>2. Cardinality(old \cap new) \in Nat
      <4>1. IsFiniteSet(old \cap new)
        BY <2>2, FS_Intersection
      <4> QED
        BY <4>1, FS_CardinalityType
    <3>3. Cardinality(QueuePlaces(q)) <= Cardinality(old \cup new)
      BY <2>1, <3>1, FS_Subset
    <3> QED
      BY <2>2, <2>3, <3>1, <3>2, <3>3
  <2>5. Cardinality(old) <= Cardinality(Cpus) * RING_CAP
    BY <1>0 DEF OldFitsRings
  <2>6. Cardinality(new) <= MaxRate * INTERVAL
    <3>0. RatesOf(q, r, t, arrived) /\ s \in 0 .. t
      BY <1>0 DEF RatesAreKept
    <3>1. CASE s + INTERVAL - 1 \in s .. t - 1
      <4>1. s + INTERVAL - 1 - s + 1 = INTERVAL
        OBVIOUS
      <4>2. Cardinality(new) <= MaxRate * (s + INTERVAL - 1 - s + 1)
        BY <3>0, <3>1 DEF RatesOf
      <4> QED
        BY <4>1, <4>2
    <3>2. CASE s + INTERVAL - 1 \notin s .. t - 1
      <4> PICK k \in Nat : k = t - s
        BY <3>0
      <4>1. k + 1 <= INTERVAL
        BY <3>2
      <4> PICK m \in Nat : m = MaxRate * k /\ MaxRate * (k + 1) = m + MaxRate
        BY RateTimes
      <4>2. \A e \in new : SampleAt(q, r, e).sec \in s .. t
        <5>1. \A e \in QueuePlaces(q) \cup RingPlaces(r) : SampleAt(q, r, e).sec \in 1 .. t
          BY <1>0, HeldArrived
        <5>2. \A z \in 1 .. t : z \in s .. s + INTERVAL - 1 => z \in s .. t
          OBVIOUS
        <5> QED
          BY <5>1, <5>2 DEF HeldOf
      <4>3. Cardinality(new) <= Cardinality(HeldOf(q, r, s, t))
        BY <4>2, HeldWithin
      <4>4. Cardinality(HeldOf(q, r, s, t)) <= m + arrived
        BY <3>0 DEF RatesOf
      <4>5. Cardinality(HeldOf(q, r, s, t)) \in Nat
        BY HeldFinite
      <4> PICK m2 \in Nat : m2 = MaxRate * INTERVAL
        BY RateTimes
      <4>6. m + MaxRate <= m2
        BY <4>1, RateGrows
      <4> PICK h, h2 : h = Cardinality(new) /\ h2 = Cardinality(HeldOf(q, r, s, t))
        OBVIOUS
      <4>7. h \in Nat /\ h2 \in Nat /\ h <= h2 /\ h2 <= m + arrived
        BY <2>2, <4>3, <4>4, <4>5
      <4>8. h <= m2
        BY ONLY <1>0, <4>6, <4>7, m \in Nat, m2 \in Nat, ConstantsAssumption
      <4> QED
        BY <4>8
    <3> QED
      BY <3>1, <3>2
  <2> HIDE DEF old, new
  <2> PICK a, b : a = Cardinality(old) /\ b = Cardinality(new)
    OBVIOUS
  <2> PICK A, B : A = Cardinality(Cpus) * RING_CAP /\ B = MaxRate * INTERVAL
    OBVIOUS
  <2>7. A \in Nat /\ B \in Nat
    <3>1. Cardinality(Cpus) \in Nat
      BY FS_CardinalityType
    <3> QED
      BY <3>1, RateTimes
  <2>8. n <= a + b /\ a <= A /\ b <= B /\ B + A <= QUEUE_MAX /\ a \in Nat /\ b \in Nat
    BY <2>2, <2>4, <2>5, <2>6
  <2>9. n <= QUEUE_MAX
    BY ONLY <2>7, <2>8, n \in Nat, QUEUE_MAX \in Nat, ConstantsAssumption
  <2> QED
    BY <2>9 DEF QueueFits
<1> QED
  BY <1>1, <1>2, <1>4, <1>5 DEF LoopKeepsUp

\* A loop that is on time, with an array that holds the packets of a window and what the rings may
\* bring along from before it, sweeps every second, ends each window in time, judges every sample
\* within two seconds of its window and never writes past packets_queue.
THEOREM LoopAlwaysKeepsUp ==
  ASSUME KeepsUp, ~ AllocFails, MaxRate * INTERVAL + Cardinality(Cpus) * RING_CAP <= QUEUE_MAX
  PROVE  Spec => []LoopKeepsUp
<1>1. KeepUpInv /\ [Next]_vars => KeepUpInv'
  BY KeepUpStep
<1>2. KeepUpInv => LoopKeepsUp
  BY KeepUpSuffices
<1> QED
  BY <1>1, <1>2, KeepUpInit, PTL DEF Spec
=============================================================================
