---------------------------- MODULE ParallelCopier ----------------------------
(***************************************************************************)
(* StreamParallelCopier: one thread reads chunks into a ring of buffers,   *)
(* another writes them, a bounded queue is between them.  The caller of    *)
(* startAndWait starts both and waits for both; cancel() comes from any    *)
(* other thread, takes no lock and touches the same fields.                *)
(*                                                                         *)
(* finished, canceled and the two thread fields are plain fields: a thread *)
(* must see a write to one only if the write happened before its read.     *)
(* Starting a thread and the queue's lock order them, so knows[p] is the   *)
(* set of writes that happened before the point where p is, and shared the *)
(* set that happened before the last release of the queue's lock.          *)
(***************************************************************************)
EXTENDS Naturals, Sequences

CONSTANTS
  N,              \* chunks in the input
  dataItemCount,  \* buffers in the ring
  MaxFails        \* bound on reads and writes that fail

ASSUME BoundsAssumption ==
  /\ N \in Nat /\ dataItemCount \in Nat /\ dataItemCount > 2
  /\ MaxFails \in Nat

Threads == {"reader", "writer"}
Procs == Threads \cup {"caller", "canceller"}
Slots == 0 .. dataItemCount - 1
Eof == dataItemCount                 \* the item whose length is -1
Flags == {"finished", "canceled"}
Writes == Flags \cup Threads         \* a flag set, a thread field assigned

VARIABLES
  consumed,     \* chunks read from the input
  array,        \* array[i]: the chunk in buffer i, 0 for none
  queue,        \* arrayBlockingQueue
  out,          \* chunks written to the output
  at,           \* where each process is
  item,         \* the buffer each thread works on
  thread,       \* the fields writeThread and readThread that are not null
  interrupted,  \* threads whose interrupt status is set
  flags,        \* the fields finished and canceled that are TRUE
  exception,    \* whether the field exception is set
  knows, shared,
  unheard,      \* threads that were interrupted before their start, to no effect
  crashed,      \* an exception left a thread uncaught: the process ends
  fails

vars == <<consumed, array, queue, out, at, item, thread, interrupted, flags,
          exception, knows, shared, unheard, crashed, fails>>
data == <<consumed, array, out>>
fields == <<thread, interrupted, flags, exception>>
memory == <<knows, shared, unheard>>

Goto(p, label) == at' = [at EXCEPT ![p] = label]

\* p may read the flag as TRUE if it is, and as FALSE unless the write that
\* set it happened before.
MaySee(f) == f \in flags
MayMiss(known, f) == f \notin flags \cap known

\* p enters and leaves the queue's lock.
Sync(p) ==
  /\ shared' = shared \cup knows[p]
  /\ knows' = [knows EXCEPT ![p] = shared \cup knows[p]] /\ UNCHANGED unheard

-----------------------------------------------------------------------------
(* startAndWait.                                                           *)

Prepare ==
  /\ at["caller"] = "prepare" /\ Goto("caller", "new_writer")
  /\ queue' = <<>> /\ flags' = {}
  /\ UNCHANGED <<data, item, thread, interrupted, exception, memory, crashed, fails>>

\* startWrite and startRead: the field is set, then read again to start it;
\* it may be null by then.
Assign(t) ==
  /\ at["caller"] = IF t = "writer" THEN "new_writer" ELSE "new_reader"
  /\ thread' = thread \cup {t}
  /\ Goto("caller", IF t = "writer" THEN "start_writer" ELSE "start_reader")
  /\ UNCHANGED <<data, queue, item, interrupted, flags, exception, memory, crashed, fails>>

StartThread(t) ==
  /\ at["caller"] = IF t = "writer" THEN "start_writer" ELSE "start_reader"
  /\ at' = IF t \notin thread THEN [at EXCEPT !["caller"] = "threw"]
           ELSE [at EXCEPT !["caller"] = IF t = "writer" THEN "new_reader" ELSE "await",
                           ![t] = "loop"]
  /\ knows' = [knows EXCEPT ![t] = IF t = "writer" THEN {"writer"} ELSE Threads]
  /\ UNCHANGED <<data, queue, item, fields, shared, unheard, crashed, fails>>

Await ==
  /\ at["caller"] = "await" /\ \A t \in Threads : at[t] = "over"
  /\ flags' = flags \cup {"finished"}
  /\ Goto("caller", IF exception THEN "threw" ELSE "returned")
  /\ UNCHANGED <<data, queue, item, thread, interrupted, exception, memory, crashed, fails>>

-----------------------------------------------------------------------------
(* The reading thread.                                                     *)

ReaderLoop ==
  /\ at["reader"] = "loop"
  /\ \/ MaySee("finished") /\ Goto("reader", "ended")
     \/ /\ MayMiss(knows["reader"], "finished")
        /\ \/ MaySee("canceled") /\ Goto("reader", "catch")
           \/ MayMiss(knows["reader"], "canceled") /\ Goto("reader", "read")
  /\ UNCHANGED <<data, queue, item, fields, memory, crashed, fails>>

ReaderRead ==
  /\ at["reader"] = "read"
  /\ \/ /\ consumed < N /\ consumed' = consumed + 1
        /\ array' = [array EXCEPT ![item["reader"]] = consumed + 1]
        /\ Goto("reader", "put") /\ UNCHANGED fails
     \/ consumed = N /\ Goto("reader", "ended") /\ UNCHANGED <<consumed, array, fails>>
     \/ /\ fails < MaxFails /\ fails' = fails + 1
        /\ Goto("reader", "catch") /\ UNCHANGED <<consumed, array>>
  /\ UNCHANGED <<queue, out, item, fields, memory, crashed>>

\* Two mutants: the queue holds one buffer more; the ring does not close.
RoomForOneMore == Len(queue) < dataItemCount - 1
NextSlotOpen(i) == i + 1

Room == Len(queue) < dataItemCount - 2
NextSlot(i) == (i + 1) % dataItemCount

\* put() and take() throw when the thread was interrupted, and clear the status.
Interrupted(t) ==
  /\ t \in interrupted /\ interrupted' = interrupted \ {t}
  /\ Goto(t, "catch")
  /\ UNCHANGED <<data, queue, item, thread, flags, exception, memory, crashed, fails>>

ReaderPut ==
  /\ at["reader"] = "put"
  /\ \/ Interrupted("reader")
     \/ /\ "reader" \notin interrupted /\ Room
        /\ queue' = Append(queue, item["reader"]) /\ Sync("reader")
        /\ item' = [item EXCEPT !["reader"] = NextSlot(@)]
        /\ Goto("reader", "loop")
        /\ UNCHANGED <<data, fields, crashed, fails>>

ReaderEnded ==
  /\ at["reader"] = "ended"
  /\ \/ MaySee("finished") /\ Goto("reader", "over")
     \/ MayMiss(knows["reader"], "finished") /\ Goto("reader", "put_eof")
  /\ UNCHANGED <<data, queue, item, fields, memory, crashed, fails>>

ReaderPutEof ==
  /\ at["reader"] = "put_eof"
  /\ \/ Interrupted("reader")
     \/ /\ "reader" \notin interrupted /\ Room
        /\ queue' = Append(queue, Eof) /\ Sync("reader") /\ Goto("reader", "over")
        /\ UNCHANGED <<data, item, fields, crashed, fails>>

-----------------------------------------------------------------------------
(* The writing thread.                                                     *)

WriterLoop ==
  /\ at["writer"] = "loop"
  /\ \/ MaySee("finished") /\ Goto("writer", "over")
     \/ MayMiss(knows["writer"], "finished") /\ Goto("writer", "take")
  /\ UNCHANGED <<data, queue, item, fields, memory, crashed, fails>>

\* A mutant: the flag is looked at before the wait for an item, not after it.
TakeUnchecked ==
  /\ at["writer"] = "take"
  /\ \/ Interrupted("writer")
     \/ /\ "writer" \notin interrupted /\ queue # <<>>
        /\ queue' = Tail(queue) /\ Sync("writer")
        /\ item' = [item EXCEPT !["writer"] = Head(queue)]
        /\ Goto("writer", IF Head(queue) = Eof THEN "over" ELSE "write")
        /\ UNCHANGED <<data, fields, crashed, fails>>

\* An item taken after cancel() emptied the queue shows the flag, too.
WriterTake ==
  /\ at["writer"] = "take"
  /\ \/ Interrupted("writer")
     \/ /\ "writer" \notin interrupted /\ queue # <<>>
        /\ queue' = Tail(queue) /\ Sync("writer")
        /\ item' = [item EXCEPT !["writer"] = Head(queue)]
        /\ \/ Head(queue) = Eof /\ Goto("writer", "over")
           \/ /\ Head(queue) # Eof
              /\ \/ MaySee("canceled") /\ Goto("writer", "catch")
                 \/ MayMiss(shared \cup knows["writer"], "canceled") /\ Goto("writer", "write")
        /\ UNCHANGED <<data, fields, crashed, fails>>

WriterWrite ==
  /\ at["writer"] = "write"
  /\ \/ /\ out' = Append(out, array[item["writer"]])
        /\ Goto("writer", "loop") /\ UNCHANGED fails
     \/ /\ fails < MaxFails /\ fails' = fails + 1
        /\ Goto("writer", "catch") /\ UNCHANGED out
  /\ UNCHANGED <<consumed, array, queue, item, fields, memory, crashed>>

-----------------------------------------------------------------------------
(* onException, under the monitor of the copier, and cancel, without it:   *)
(* both interrupt the threads whose field is not null and clear the field. *)

Handing == {"w_test", "w_stop", "w_null", "r_test", "r_stop", "r_null"}
MonitorFree ==
  /\ at["caller"] \notin {"new_writer", "start_writer", "new_reader", "start_reader"}
  /\ \A t \in Threads : at[t] \notin Handing

\* Two mutants: the other thread is not interrupted; the exception is dropped.
CatchAlone(t) ==
  /\ at[t] = "catch" /\ MonitorFree
  /\ \/ "finished" \in flags /\ Goto(t, "over") /\ UNCHANGED <<flags, exception, knows>>
     \/ /\ "finished" \notin flags /\ exception' = TRUE
        /\ flags' = flags \cup {"finished"}
        /\ knows' = [knows EXCEPT ![t] = @ \cup {"finished"}] /\ Goto(t, "over")
  /\ UNCHANGED <<data, queue, item, thread, interrupted, shared, unheard, crashed, fails>>
CatchSilently(t) ==
  /\ at[t] = "catch" /\ MonitorFree
  /\ \/ "finished" \in flags /\ Goto(t, "over") /\ UNCHANGED <<flags, knows>>
     \/ /\ "finished" \notin flags /\ flags' = flags \cup {"finished"}
        /\ knows' = [knows EXCEPT ![t] = @ \cup {"finished"}] /\ Goto(t, "w_test")
  /\ UNCHANGED <<data, queue, item, thread, interrupted, exception, shared, unheard,
                 crashed, fails>>

Catch(t) ==
  /\ at[t] = "catch" /\ MonitorFree
  /\ \/ "finished" \in flags /\ Goto(t, "over") /\ UNCHANGED <<flags, exception, knows>>
     \/ /\ "finished" \notin flags /\ exception' = TRUE
        /\ flags' = flags \cup {"finished"}
        /\ knows' = [knows EXCEPT ![t] = @ \cup {"finished"}] /\ Goto(t, "w_test")
  /\ UNCHANGED <<data, queue, item, thread, interrupted, shared, unheard, crashed, fails>>

\* The test of the field.  cancel() may still read null unless an operation of
\* the started threads on the queue came before its own.
Test(p, t) ==
  /\ at[p] = IF t = "writer" THEN "w_test" ELSE "r_test"
  /\ \/ t \in thread /\ Goto(p, IF t = "writer" THEN "w_stop" ELSE "r_stop")
     \/ /\ t \notin thread \/ (p = "canceller" /\ t \notin knows[p])
        /\ Goto(p, IF t = "writer" THEN "r_test" ELSE "over")
  /\ UNCHANGED <<data, queue, item, fields, memory, crashed, fails>>

\* The field is read again for interrupt().  If it became null meanwhile, the
\* caller of cancel() swallows the exception, but a thread dies of it.  A thread
\* not started yet may or may not remember the interrupt.
Interrupt(p, t) ==
  /\ at[p] = IF t = "writer" THEN "w_stop" ELSE "r_stop"
  /\ \/ /\ t \notin thread
        /\ IF p = "canceller" THEN Goto(p, "over") /\ UNCHANGED crashed
                              ELSE crashed' = TRUE /\ UNCHANGED at
        /\ UNCHANGED <<interrupted, unheard>>
     \/ /\ t \in thread /\ Goto(p, IF t = "writer" THEN "w_null" ELSE "r_null")
        /\ \/ interrupted' = interrupted \cup {t} /\ UNCHANGED unheard
           \/ at[t] = "off" /\ unheard' = unheard \cup {t} /\ UNCHANGED interrupted
        /\ UNCHANGED crashed
  /\ UNCHANGED <<data, queue, item, thread, flags, exception, knows, shared, fails>>

\* The field is cleared in a step of its own: by now a thread may have started
\* that has not heard of the interrupt.
Forget(p, t) ==
  /\ at[p] = IF t = "writer" THEN "w_null" ELSE "r_null"
  /\ thread' = thread \ {t} /\ Goto(p, IF t = "writer" THEN "r_test" ELSE "over")
  /\ UNCHANGED <<data, queue, item, interrupted, flags, exception, memory, crashed, fails>>

CancelBegin ==
  /\ at["canceller"] = "off" /\ Goto("canceller", "clear")
  /\ flags' = flags \cup {"canceled"}
  /\ knows' = [knows EXCEPT !["canceller"] = {"canceled"}]
  /\ UNCHANGED <<data, queue, item, thread, interrupted, exception, shared, unheard,
                 crashed, fails>>

\* The queue is emptied unless its field still reads as null.
CancelClear ==
  /\ at["canceller"] = "clear" /\ Goto("canceller", "w_test")
  /\ \/ at["caller"] # "prepare" /\ queue' = <<>> /\ Sync("canceller")
     \/ UNCHANGED <<queue, memory>>
  /\ UNCHANGED <<data, item, fields, crashed, fails>>

-----------------------------------------------------------------------------
Init ==
  /\ consumed = 0 /\ array = [i \in Slots |-> 0] /\ queue = <<>> /\ out = <<>>
  /\ at = [p \in Procs |-> IF p = "caller" THEN "prepare" ELSE "off"]
  /\ item = [t \in Threads |-> 0] /\ thread = {} /\ interrupted = {} /\ flags = {}
  /\ exception = FALSE /\ knows = [p \in Procs |-> {}] /\ shared = {}
  /\ unheard = {} /\ crashed = FALSE /\ fails = 0

Handover(p) == \E t \in Threads : Test(p, t) \/ Interrupt(p, t) \/ Forget(p, t)
Caller == Prepare \/ Await \/ \E t \in Threads : Assign(t) \/ StartThread(t)
Reader ==
  \/ ReaderLoop \/ ReaderRead \/ ReaderPut \/ ReaderEnded \/ ReaderPutEof
  \/ Catch("reader") \/ Handover("reader")
Writer ==
  \/ WriterLoop \/ WriterTake \/ WriterWrite \/ Catch("writer") \/ Handover("writer")
Canceller == CancelClear \/ Handover("canceller")

Next == ~crashed /\ (Caller \/ Reader \/ Writer \/ CancelBegin \/ Canceller)

Spec == Init /\ [][Next]_vars

\* Threads run, and a read or a write of the streams returns: whoever cancels
\* closes both streams, and the peer of the FIFO is another process that ends.
FairSpec ==
  /\ Spec /\ WF_vars(~crashed /\ Caller) /\ WF_vars(~crashed /\ Reader)
  /\ WF_vars(~crashed /\ Writer) /\ WF_vars(~crashed /\ Canceller)

-----------------------------------------------------------------------------
(* Properties                                                              *)

ThreadLabels == {"off", "loop", "catch", "over"} \cup Handing
TypeOK ==
  /\ consumed \in 0 .. N /\ array \in [Slots -> 0 .. N] /\ queue \in Seq(Slots \cup {Eof})
  /\ out \in Seq(0 .. N) /\ DOMAIN at = Procs /\ fails \in 0 .. MaxFails
  /\ at["caller"] \in {"prepare", "new_writer", "start_writer", "new_reader",
                       "start_reader", "await", "returned", "threw"}
  /\ at["reader"] \in ThreadLabels \cup {"read", "put", "ended", "put_eof"}
  /\ at["writer"] \in ThreadLabels \cup {"take", "write"}
  /\ at["canceller"] \in {"off", "clear", "over"} \cup Handing
  /\ item \in [Threads -> Slots \cup {Eof}] /\ item["reader"] \in Slots /\ thread \subseteq Threads
  /\ interrupted \subseteq Threads /\ flags \subseteq Flags /\ exception \in BOOLEAN
  /\ knows \in [Procs -> SUBSET Writes] /\ shared \subseteq Writes
  /\ unheard \subseteq Threads /\ crashed \in BOOLEAN

\* startAndWait did not reset the flag of a cancel() that overlapped its start.
FlagKept == at["canceller"] = "off" \/ "canceled" \in flags

\* The buffer that is being filled is neither waiting in the queue nor being
\* written: the ring has room for the queue and for one buffer per thread, and
\* a cancel() that empties the queue stops the reader before it comes round.
BuffersApart ==
  FlagKept /\ at["reader"] \in {"read", "put"} =>
    /\ \A i \in DOMAIN queue : queue[i] # item["reader"]
    /\ at["writer"] = "write" => item["writer"] # item["reader"]

\* What is written has no holes and keeps its order, although cancel() empties
\* the queue behind both threads: only a cancel() whose flag startAndWait reset
\* may cost a chunk in the middle.
NoHoles ==
  FlagKept => out = [i \in 1 .. Len(out) |-> i]

\* The copier keeps the promise of Relay, racing cancels included.
R == INSTANCE Relay WITH
       status <- IF at["caller"] \in {"returned", "threw"} THEN at["caller"] ELSE "running",
       stopped <- at["canceller"] # "off"
ImplementsRelay == R!Spec

\* A thread that did not hear cancel() waits for the other, which ended after
\* cancel() had cleared the field that it would be interrupted through.
Stranded(t) ==
  /\ t \in unheard /\ t \notin thread
  /\ \/ t = "writer" /\ at[t] = "take" /\ queue = <<>> /\ at["reader"] = "over"
     \/ t = "reader" /\ at[t] \in {"put", "put_eof"} /\ ~Room /\ at["writer"] = "over"

\* startAndWait ends, and leaves no thread behind, unless a cancel() that came
\* while the threads were started nulled a field under it, or stranded a thread.
Ends ==
  <>[](\/ crashed
       \/ \E t \in Threads : Stranded(t)
       \/ /\ at["caller"] \in {"returned", "threw"}
          /\ \/ at["reader"] = "off"
             \/ \A t \in Threads : at[t] = "over")
==============================================================================
