------------------------------ MODULE PerfRing ------------------------------
(***************************************************************************)
(* One perf ring: memory shared by the kernel, which appends records at    *)
(* data_head, and bpf_perf_event_read_simple, which reads them from        *)
(* data_tail and hands each to event_received.  A record that straddles    *)
(* the end of the memory is put together in copy_mem.                      *)
(*                                                                         *)
(* A word of memory is [rec, at]: word `at' of record number `rec'.  The   *)
(* first word of a record is its header, which gives its type and size.    *)
(* Head and tail count words and wrap at RingWord (2^64 bytes).            *)
(***************************************************************************)
EXTENDS Integers, Sequences

CONSTANTS
  mmap_size,   \* words of memory, a power of two
  SampleSize,  \* words of a sample
  LostSize,    \* words of a record that counts lost samples
  RingWord,    \* counters are numbers modulo this
  MaxSamples,  \* bound: samples emitted
  MaxMallocs   \* bound: failures of malloc

ASSUME RingAssumption ==
  /\ mmap_size \in Nat \ {0} /\ RingWord \in Nat \ {0}
  /\ RingWord % mmap_size = 0 /\ RingWord > mmap_size
  /\ SampleSize \in 1 .. mmap_size - 1 /\ LostSize \in 1 .. mmap_size - 1
  /\ MaxSamples \in Nat /\ MaxMallocs \in Nat

VARIABLES
  ring_mem,    \* the memory
  data_head,   \* shared: written by the kernel
  data_tail,   \* shared: written by the reader
  ring_wake,   \* poll would report the ring
  writer,      \* the kernel: where it is and the records it still has to write
  ring_lost,   \* samples dropped and not yet told of
  records,     \* history: the records written so far
  emitted,     \* history: the number of samples emitted, dropped ones included
  reader,      \* bpf_perf_event_read_simple: where it is and its local variables
  copy_mem,    \* the buffer for a record that straddles the end
  copy_size,   \* its size
  ring_queue,  \* the samples that policy_stats has stored
  mallocs      \* history: failures of malloc so far

kernelVars == <<data_head, ring_wake, writer, ring_lost, records, emitted>>
readerVars == <<data_tail, reader, copy_mem, copy_size, ring_queue, mallocs>>
ringVars == <<ring_mem, kernelVars, readerVars>>

Blank == [rec |-> 0, at |-> 0]

RingInit ==
  /\ ring_mem = [k \in 0 .. mmap_size - 1 |-> Blank]
  /\ data_head = 0 /\ data_tail = 0 /\ ring_wake = FALSE
  /\ writer = [pc |-> "idle", todo |-> <<>>, at |-> 0]
  /\ ring_lost = 0 /\ records = <<>> /\ emitted = 0
  /\ reader = [pc |-> "idle", head |-> 0, tail |-> 0, copied |-> FALSE, ret |-> "CONT"]
  /\ copy_mem = <<>> /\ copy_size = 0
  /\ ring_queue = <<>> /\ mallocs = 0

\* What a word says when it is taken for a header.
EventSize(w) == IF w.rec \in DOMAIN records THEN records[w.rec].size ELSE 1
EventType(w) == IF w.rec \in DOMAIN records THEN records[w.rec].type ELSE "none"
EventId(w) == IF w.rec \in DOMAIN records THEN records[w.rec].id ELSE 0

-----------------------------------------------------------------------------
(* The kernel's side.                                                      *)

RingSpace == mmap_size - 1 - ((data_head - data_tail) % RingWord)

\* bpf_perf_event_output: if there is room for the sample, and for a record of
\* the samples lost before it, the kernel writes them, word by word.
Emit ==
  /\ writer.pc = "idle"
  /\ emitted < MaxSamples
  /\ emitted' = emitted + 1
  /\ LET sample == [type |-> "SAMPLE", size |-> SampleSize, id |-> emitted + 1]
         lost == [type |-> "LOST", size |-> LostSize, id |-> ring_lost]
         todo == IF ring_lost = 0 THEN <<sample>> ELSE <<lost, sample>>
         size == IF ring_lost = 0 THEN SampleSize ELSE LostSize + SampleSize
     IN IF size <= RingSpace
        THEN /\ records' = records \o todo
             /\ writer' = [pc |-> "write", todo |-> todo, at |-> 0]
             /\ ring_lost' = 0
        ELSE /\ ring_lost' = ring_lost + 1
             /\ UNCHANGED <<records, writer>>
  /\ UNCHANGED <<ring_mem, data_head, ring_wake, readerVars>>

\* The k-th of the words that the kernel is writing.
RecordWord(k) ==
  LET first == Head(writer.todo).size
      base == Len(records) - Len(writer.todo)
  IN IF k < first THEN [rec |-> base + 1, at |-> k] ELSE [rec |-> base + 2, at |-> k - first]

WriterSize == Head(writer.todo).size + IF Len(writer.todo) = 1 THEN 0 ELSE SampleSize

WriteWord ==
  /\ writer.pc = "write"
  /\ writer.at < WriterSize
  /\ ring_mem' = [ring_mem EXCEPT ![(data_head + writer.at) % mmap_size] = RecordWord(writer.at)]
  /\ writer' = [writer EXCEPT !.at = @ + 1]
  /\ UNCHANGED <<data_head, ring_wake, ring_lost, records, emitted, readerVars>>

\* The records become visible, and after that the poller is woken.
Publish ==
  /\ writer.pc = "write"
  /\ writer.at = WriterSize
  /\ data_head' = (data_head + WriterSize) % RingWord
  /\ writer' = [pc |-> "wake", todo |-> <<>>, at |-> 0]
  /\ UNCHANGED <<ring_mem, ring_wake, ring_lost, records, emitted, readerVars>>

Wake ==
  /\ writer.pc = "wake"
  /\ ring_wake' = TRUE
  /\ writer' = [writer EXCEPT !.pc = "idle"]
  /\ UNCHANGED <<ring_mem, data_head, ring_lost, records, emitted, readerVars>>

-----------------------------------------------------------------------------
(* The reader's side.                                                      *)

\* poll reports the ring, which takes its wake-up back.
PollRing ==
  /\ reader.pc = "idle"
  /\ ring_wake
  /\ ring_wake' = FALSE
  /\ reader' = [reader EXCEPT !.pc = "head"]
  /\ UNCHANGED <<ring_mem, data_head, writer, ring_lost, records, emitted,
                 data_tail, copy_mem, copy_size, ring_queue, mallocs>>

ReadHead_FreesFirst ==
  /\ reader.pc = "head"
  /\ reader' = [reader EXCEPT !.pc = "next", !.head = data_head, !.tail = data_tail,
                              !.ret = "CONT"]
  /\ data_tail' = data_head
  /\ UNCHANGED <<ring_mem, kernelVars, copy_mem, copy_size, ring_queue, mallocs>>

\* The reader takes the head once; what comes later is for the next call.
ReadHead ==
  /\ reader.pc = "head"
  /\ reader' = [reader EXCEPT !.pc = "next", !.head = data_head, !.tail = data_tail,
                              !.ret = "CONT"]
  /\ UNCHANGED <<ring_mem, kernelVars, data_tail, copy_mem, copy_size, ring_queue, mallocs>>

Offset == reader.tail % mmap_size
Ehdr == ring_mem[Offset]
Straddles == Offset + EventSize(Ehdr) > mmap_size

\* The words of the ring from the reader's offset on.
Wrapped == [k \in 1 .. EventSize(Ehdr) |-> ring_mem[(Offset + k - 1) % mmap_size]]

\* The record lies in one piece: it is handed on where it is.
FetchInPlace ==
  /\ reader.pc = "next"
  /\ reader.head # reader.tail
  /\ ~ Straddles
  /\ reader' = [reader EXCEPT !.pc = "call", !.copied = FALSE]
  /\ UNCHANGED <<ring_mem, kernelVars, data_tail, copy_mem, copy_size, ring_queue, mallocs>>

\* It straddles the end: both pieces are copied, into a larger buffer if need be.
FetchCopy ==
  /\ reader.pc = "next"
  /\ reader.head # reader.tail
  /\ Straddles
  /\ copy_size' = IF copy_size < EventSize(Ehdr) THEN EventSize(Ehdr) ELSE copy_size
  /\ copy_mem' = Wrapped \o SubSeq(copy_mem, EventSize(Ehdr) + 1, Len(copy_mem))
  /\ reader' = [reader EXCEPT !.pc = "call", !.copied = TRUE]
  /\ UNCHANGED <<ring_mem, kernelVars, data_tail, ring_queue, mallocs>>

\* There is no memory for the larger buffer: the loop ends here.
FetchFails ==
  /\ reader.pc = "next"
  /\ reader.head # reader.tail
  /\ Straddles
  /\ copy_size < EventSize(Ehdr)
  /\ mallocs < MaxMallocs
  /\ mallocs' = mallocs + 1
  /\ copy_mem' = <<>> /\ copy_size' = 0
  /\ reader' = [reader EXCEPT !.pc = "tail", !.ret = "ERROR"]
  /\ UNCHANGED <<ring_mem, kernelVars, data_tail, ring_queue>>

\* The record that ehdr points to, now: in the ring or in the copy.
EventWords ==
  IF reader.copied THEN SubSeq(copy_mem, 1, EventSize(copy_mem[1]))
  ELSE [k \in 1 .. EventSize(Ehdr) |-> ring_mem[(Offset + k - 1) % mmap_size]]

Whole(ws) == \A k \in DOMAIN ws : ws[k] = [rec |-> ws[1].rec, at |-> k - 1]

\* event_received and policy_stats: a sample is stored, any other record skipped.
\* A record that is not all of one piece is stored as 0.
event_received ==
  ring_queue' = IF EventType(EventWords[1]) # "SAMPLE" THEN ring_queue
                ELSE Append(ring_queue, IF Whole(EventWords) THEN EventId(EventWords[1]) ELSE 0)

\* The callback is called, and the record is behind the reader.  Both callbacks
\* that the daemon uses answer CONT.
Callback ==
  /\ reader.pc = "call"
  /\ event_received
  /\ reader' = [reader EXCEPT !.pc = "next", !.tail = (@ + Len(EventWords)) % RingWord]
  /\ UNCHANGED <<ring_mem, kernelVars, data_tail, copy_mem, copy_size, mallocs>>

EndRecords ==
  /\ reader.pc = "next"
  /\ reader.head = reader.tail
  /\ reader' = [reader EXCEPT !.pc = "tail"]
  /\ UNCHANGED <<ring_mem, kernelVars, data_tail, copy_mem, copy_size, ring_queue, mallocs>>

WriteTail_OnlyCont ==
  /\ reader.pc = "tail"
  /\ data_tail' = IF reader.ret = "CONT" THEN reader.tail ELSE data_tail
  /\ reader' = [reader EXCEPT !.pc = "idle"]
  /\ UNCHANGED <<ring_mem, kernelVars, copy_mem, copy_size, ring_queue, mallocs>>

\* The words behind the reader are the kernel's again, after an error too.
WriteTail ==
  /\ reader.pc = "tail"
  /\ data_tail' = reader.tail
  /\ reader' = [reader EXCEPT !.pc = "idle"]
  /\ UNCHANGED <<ring_mem, kernelVars, copy_mem, copy_size, ring_queue, mallocs>>

RingNext ==
  \/ Emit \/ WriteWord \/ Publish \/ Wake
  \/ PollRing \/ ReadHead \/ FetchInPlace \/ FetchCopy \/ FetchFails \/ Callback
  \/ EndRecords \/ WriteTail

RingSpec == RingInit /\ [][RingNext]_ringVars

-----------------------------------------------------------------------------
(* Properties.                                                             *)

\* What lies between the reader's place and data_head are whole records, one
\* after another: no word that bpf_perf_event_read_simple has still to read, and
\* none that the callback is reading, is the kernel's to write.
ReadFrom == IF reader.pc \in {"idle", "head"} THEN data_tail ELSE reader.tail
Unread(k) == ring_mem[(ReadFrom + k) % mmap_size]

UnreadIsWhole ==
  LET n == (data_head - ReadFrom) % RingWord
  IN /\ n > 0 => Unread(0).at = 0 /\ Unread(n - 1).at + 1 = EventSize(Unread(n - 1))
     /\ \A k \in 0 .. n - 2 :
          Unread(k + 1) = IF Unread(k).at + 1 = EventSize(Unread(k))
                          THEN [rec |-> Unread(k).rec + 1, at |-> 0]
                          ELSE [rec |-> Unread(k).rec, at |-> Unread(k).at + 1]

\* Between two calls of bpf_perf_event_read_simple no record waits in the ring
\* without a wake-up that is set or on its way, unless the last call failed: a
\* record published while the reader runs is not forgotten.
NothingForgotten ==
  reader.pc = "idle" /\ data_head # data_tail /\ ~ ring_wake /\ writer.pc # "wake"
    => reader.ret = "ERROR"

\* The ring implements a queue: policy_stats stores every sample that the kernel
\* did not drop, once, whole and in order, whatever straddles the end, whatever
\* is lost in between, and after failures of malloc.
SamplesOf(rs) ==
  LET upTo[n \in 0 .. Len(rs)] ==
        IF n = 0 THEN <<>>
        ELSE IF rs[n].type = "SAMPLE" THEN Append(upTo[n - 1], rs[n].id) ELSE upTo[n - 1]
  IN upTo[Len(rs)]
SamplesPut == SamplesOf(records)

Queue == INSTANCE SampleQueue WITH
  Ids <- 1 .. MaxSamples, put <- SamplesPut, got <- ring_queue

RingIsQueue == Queue!Spec

\* The reader never meets half a record, and never sleeps over a whole one.
RecordsAreServed == UnreadIsWhole /\ NothingForgotten
=============================================================================
