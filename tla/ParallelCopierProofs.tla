------------------------ MODULE ParallelCopierProofs ------------------------
(***************************************************************************)
(* ParallelCopier for every number of chunks, of buffers and of failing    *)
(* reads and writes, under a racing cancel().                              *)
(*                                                                         *)
(* Ring.  Until a cancel() empties the queue, the buffers in it and the    *)
(* one being written are those just before the one that is filled          *)
(* (RingOK), and hold the chunks that come next (NextChunks).  Afterwards  *)
(* the reader puts at most one more, since the queue's lock then shows it  *)
(* the flag, and the writer writes nothing it takes (ClearedOK).           *)
(*                                                                         *)
(* Relay.  Without a cancel() and an exception the end marker is what      *)
(* stops both threads (EndOK), so that a normal return has written all.    *)
(***************************************************************************)
EXTENDS ParallelCopier, TLAPS

Live == {"off", "loop", "take", "write"}      \* a writer that goes on
Filling == {"off", "loop", "read", "put"}     \* a reader that goes on
Cleared == "canceled" \in shared

Hold == IF at["writer"] = "write" THEN 1 ELSE 0
Ahead == Len(out) + Hold          \* chunks written or being written

\* Buffer x is d places before buffer r, around the ring.
Before(x, d, r) == x + d = r \/ x + d = r + dataItemCount

-----------------------------------------------------------------------------
(* The invariant.                                                          *)

\* The threads run between their start and the return of startAndWait; until the
\* reader starts nothing moves.
StartOK ==
  /\ at["caller"] \in {"prepare", "new_writer", "start_writer", "new_reader", "start_reader"}
       => at["reader"] = "off"
  /\ at["caller"] \in {"prepare", "new_writer", "start_writer"} => at["writer"] = "off"
  /\ at["caller"] \in {"returned", "threw"}
       => at["reader"] = "off" \/ \A t \in Threads : at[t] = "over"
  /\ at["reader"] = "off" =>
       /\ queue = <<>> /\ consumed = 0 /\ out = <<>> /\ item["reader"] = 0
       /\ at["writer"] # "write"

\* Only buffers that were filled are handed on, and the end marker comes last.
HandedOK ==
  /\ at["reader"] = "put" => array[item["reader"]] # 0
  /\ \A i \in DOMAIN queue : queue[i] # Eof => array[queue[i]] # 0
  /\ \A i \in DOMAIN queue : queue[i] = Eof => i = Len(queue) /\ at["reader"] = "over"
  /\ at["writer"] = "write" => item["writer"] \in Slots /\ array[item["writer"]] # 0

\* Who can know of the flag of a cancel(), and that only exceptions finish early.
FlagOK ==
  /\ at["canceller"] = "off" => ~Cleared
  /\ at["canceller"] = "clear" => "canceled" \in knows["canceller"]
  /\ \A t \in Threads : "canceled" \in knows[t] => Cleared
  /\ "finished" \in flags => exception \/ \A t \in Threads : at[t] = "over"
  /\ \A t \in Threads : at[t] \in Handing => exception

RingOK ==
  /\ Len(queue) <= dataItemCount - 2
  /\ \A i \in DOMAIN queue : Before(queue[i], Len(queue) + 1 - i, item["reader"])
  /\ at["writer"] = "write" => Before(item["writer"], Len(queue) + 1, item["reader"])

NextChunks ==
  /\ \A i \in DOMAIN queue : queue[i] # Eof => array[queue[i]] = Ahead + i
  /\ at["writer"] = "write" => array[item["writer"]] = Len(out) + 1
  /\ at["reader"] \in {"off", "loop", "read", "ended", "put_eof"} => consumed = Ahead + Len(queue)
  /\ at["reader"] = "put" => consumed = Ahead + Len(queue) + 1 /\ array[item["reader"]] = consumed

ClearedOK ==
  /\ at["writer"] = "write" => array[item["writer"]] = Len(out) + 1
  /\ at["reader"] \in Filling \ {"off"} /\ "canceled" \notin knows["reader"] =>
       /\ queue = <<>>
       /\ at["writer"] = "write" => item["writer"] # item["reader"]
  /\ "canceled" \in knows["reader"] => at["reader"] \notin {"read", "put"}

EndOK ==
  /\ at["reader"] \in {"ended", "put_eof", "over"} => consumed = N
  /\ at["reader"] = "over" /\ at["writer"] \in Live =>
       queue # <<>> /\ queue[Len(queue)] = Eof /\ consumed = Ahead + Len(queue) - 1
  /\ at["writer"] = "over" => at["reader"] = "over" /\ Len(out) = consumed

Written == out = [i \in 1 .. Len(out) |-> i]

CopyOK ==
  /\ Written
  /\ Cleared => ClearedOK
  /\ ~Cleared /\ at["reader"] \in Filling => RingOK
  /\ ~Cleared /\ at["writer"] \in Live => NextChunks

BaseInv == TypeOK /\ StartOK /\ HandedOK /\ FlagOK

Undisturbed == at["canceller"] = "off" /\ ~exception
EInv == BaseInv /\ (FlagKept => CopyOK) /\ (Undisturbed => EndOK)

-----------------------------------------------------------------------------
(* Operators.                                                              *)

\* The ring closes after its last buffer.
LEMMA NextSlotIs ==
  ASSUME NEW i \in Slots
  PROVE  /\ NextSlot(i) = IF i = dataItemCount - 1 THEN 0 ELSE i + 1
         /\ NextSlot(i) \in Slots
<1>1. i \in Nat /\ dataItemCount \in Nat /\ dataItemCount > 2 /\ i < dataItemCount
  BY BoundsAssumption DEF Slots
<1>2. CASE i = dataItemCount - 1
  BY <1>1, <1>2 DEF NextSlot, Slots
<1>3. CASE i + 1 < dataItemCount
  BY <1>1, <1>3 DEF NextSlot, Slots
<1>. QED BY <1>1, <1>2, <1>3

LEMMA Appended ==
  ASSUME NEW S, NEW q \in Seq(S), NEW x \in S
  PROVE  /\ Append(q, x) \in Seq(S) /\ Len(Append(q, x)) = Len(q) + 1
         /\ DOMAIN Append(q, x) = 1 .. Len(q) + 1 /\ DOMAIN q = 1 .. Len(q) /\ Len(q) \in Nat
         /\ \A i \in DOMAIN q : Append(q, x)[i] = q[i]
         /\ Append(q, x)[Len(q) + 1] = x
OBVIOUS

LEMMA Headed ==
  ASSUME NEW S, NEW q \in Seq(S), q # <<>>
  PROVE  /\ Head(q) = q[1] /\ q[1] \in S /\ Tail(q) \in Seq(S)
         /\ Len(q) \in Nat \ {0} /\ Len(Tail(q)) = Len(q) - 1
         /\ DOMAIN q = 1 .. Len(q) /\ DOMAIN Tail(q) = 1 .. Len(q) - 1
         /\ \A i \in DOMAIN Tail(q) : Tail(q)[i] = q[i + 1]
OBVIOUS

LEMMA Moved ==
  ASSUME TypeOK, NEW p \in Procs, NEW l, Goto(p, l)
  PROVE  /\ DOMAIN at' = Procs /\ at'[p] = l
         /\ \A q \in Procs \ {p} : at'[q] = at[q]
BY DEF Goto, TypeOK

LEMMA EofIsNone == Eof \notin Slots
BY BoundsAssumption DEF Eof, Slots

-----------------------------------------------------------------------------
(* Types.                                                                  *)

\* One way to go through the steps of the four processes.
LEMMA Steps ==
  ASSUME Next
  PROVE  \/ Prepare \/ Await \/ \E t \in Threads : Assign(t) \/ StartThread(t)
         \/ ReaderLoop \/ ReaderRead \/ ReaderPut \/ ReaderEnded \/ ReaderPutEof
         \/ WriterLoop \/ WriterTake \/ WriterWrite \/ \E t \in Threads : Catch(t)
         \/ \E p \in Procs \ {"caller"}, t \in Threads :
              Test(p, t) \/ Interrupt(p, t) \/ Forget(p, t)
         \/ CancelBegin \/ CancelClear
BY DEF Next, Caller, Reader, Writer, Canceller, Handover, Procs, Threads

AtOK(a) ==
  /\ DOMAIN a = Procs
  /\ a["caller"] \in {"prepare", "new_writer", "start_writer", "new_reader",
                      "start_reader", "await", "returned", "threw"}
  /\ a["reader"] \in ThreadLabels \cup {"read", "put", "ended", "put_eof"}
  /\ a["writer"] \in ThreadLabels \cup {"take", "write"}
  /\ a["canceller"] \in {"off", "clear", "over"} \cup Handing

DataOK ==
  /\ consumed \in 0 .. N /\ array \in [Slots -> 0 .. N] /\ queue \in Seq(Slots \cup {Eof})
  /\ out \in Seq(0 .. N)
  /\ item \in [Threads -> Slots \cup {Eof}] /\ item["reader"] \in Slots

FieldsOK ==
  /\ fails \in 0 .. MaxFails /\ thread \subseteq Threads /\ interrupted \subseteq Threads
  /\ flags \subseteq Flags /\ exception \in BOOLEAN /\ crashed \in BOOLEAN
  /\ unheard \subseteq Threads

MemoryOK == knows \in [Procs -> SUBSET Writes] /\ shared \subseteq Writes

LEMMA TypeParts == TypeOK <=> AtOK(at) /\ DataOK /\ FieldsOK /\ MemoryOK
BY DEF TypeOK, AtOK, DataOK, FieldsOK, MemoryOK

LEMMA LabelsNext ==
  ASSUME TypeOK, Next
  PROVE  AtOK(at')
<1>. USE TypeParts DEF AtOK, ThreadLabels, Handing, Procs, Threads, Goto, Interrupted
<1>1. CASE Prepare \/ Await
  BY <1>1 DEF Prepare, Await
<1>2. ASSUME NEW t \in Threads, Assign(t) \/ StartThread(t) PROVE AtOK(at')
  BY <1>2 DEF Assign, StartThread
<1>3. CASE ReaderLoop \/ ReaderRead \/ ReaderPut \/ ReaderEnded \/ ReaderPutEof
  BY <1>3 DEF ReaderLoop, ReaderRead, ReaderPut, ReaderEnded, ReaderPutEof
<1>4. CASE WriterLoop \/ WriterTake \/ WriterWrite
  BY <1>4 DEF WriterLoop, WriterTake, WriterWrite
<1>5. ASSUME NEW t \in Threads, Catch(t) PROVE AtOK(at')
  BY <1>5 DEF Catch
<1>6. ASSUME NEW p \in Procs \ {"caller"}, NEW t \in Threads, Test(p, t) PROVE AtOK(at')
  BY <1>6 DEF Test
<1>7. ASSUME NEW p \in Procs \ {"caller"}, NEW t \in Threads, Interrupt(p, t) \/ Forget(p, t)
      PROVE  AtOK(at')
  BY <1>7 DEF Interrupt, Forget
<1>8. CASE CancelBegin \/ CancelClear
  BY <1>8 DEF CancelBegin, CancelClear
<1>. QED BY Steps, <1>1, <1>2, <1>3, <1>4, <1>5, <1>6, <1>7, <1>8

LEMMA FieldsNext ==
  ASSUME TypeOK, Next
  PROVE  FieldsOK'
<1>. FieldsOK
  BY TypeParts
<1>. USE BoundsAssumption DEF FieldsOK, fields, memory, Sync, Threads, Flags, Interrupted
<1>1. CASE Prepare
  BY <1>1 DEF Prepare
<1>2. CASE Await
  BY <1>2 DEF Await
<1>3. ASSUME NEW t \in Threads, Assign(t) PROVE FieldsOK'
  BY <1>3 DEF Assign
<1>4. ASSUME NEW t \in Threads, StartThread(t) PROVE FieldsOK'
  BY <1>4 DEF StartThread
<1>5. CASE ReaderLoop \/ ReaderEnded
  BY <1>5 DEF ReaderLoop, ReaderEnded
<1>6. CASE ReaderRead
  BY <1>6 DEF ReaderRead
<1>7. CASE ReaderPut
  BY <1>7 DEF ReaderPut
<1>8. CASE ReaderPutEof
  BY <1>8 DEF ReaderPutEof
<1>9. CASE WriterLoop
  BY <1>9 DEF WriterLoop
<1>10. CASE WriterTake
  BY <1>10 DEF WriterTake
<1>11. CASE WriterWrite
  BY <1>11 DEF WriterWrite
<1>12. ASSUME NEW t \in Threads, Catch(t) PROVE FieldsOK'
  BY <1>12 DEF Catch
<1>13. ASSUME NEW p \in Procs \ {"caller"}, NEW t \in Threads,
              Test(p, t) \/ Interrupt(p, t) \/ Forget(p, t)
       PROVE  FieldsOK'
  BY <1>13 DEF Test, Interrupt, Forget
<1>14. CASE CancelBegin \/ CancelClear
  BY <1>14 DEF CancelBegin, CancelClear
<1>. QED BY Steps, <1>1, <1>2, <1>3, <1>4, <1>5, <1>6, <1>7, <1>8, <1>9, <1>10, <1>11, <1>12, <1>13, <1>14

\* How a step changes what the processes know.
LEMMA MemorySteps ==
  ASSUME TypeOK, Next
  PROVE  \/ UNCHANGED <<knows, shared>>
         \/ \E p \in Procs : Sync(p)
         \/ UNCHANGED shared /\ \E p \in Procs, s \in SUBSET Writes : knows' = [knows EXCEPT ![p] = s]
<1>. USE DEF memory, Interrupted, Writes, Threads, Flags, Procs
<1>1. CASE Prepare \/ Await
  BY <1>1 DEF Prepare, Await
<1>2. ASSUME NEW t \in Threads, Assign(t) PROVE UNCHANGED <<knows, shared>>
  BY <1>2 DEF Assign
<1>3. ASSUME NEW t \in Threads, StartThread(t)
      PROVE  UNCHANGED shared /\ \E s \in SUBSET Writes : knows' = [knows EXCEPT ![t] = s]
  BY <1>3 DEF StartThread
<1>4. CASE ReaderLoop \/ ReaderEnded \/ ReaderRead \/ WriterLoop \/ WriterWrite
  BY <1>4 DEF ReaderLoop, ReaderEnded, ReaderRead, WriterLoop, WriterWrite
<1>5. CASE ReaderPut \/ ReaderPutEof \/ WriterTake \/ CancelClear
  BY <1>5 DEF ReaderPut, ReaderPutEof, WriterTake, CancelClear
<1>6. ASSUME NEW t \in Threads, Catch(t)
      PROVE  \/ UNCHANGED <<knows, shared>>
             \/ UNCHANGED shared /\ \E s \in SUBSET Writes : knows' = [knows EXCEPT ![t] = s]
  <2>1. knows[t] \cup {"finished"} \in SUBSET Writes
    BY TypeParts DEF MemoryOK
  <2>. QED BY <1>6, <2>1 DEF Catch
<1>7. ASSUME NEW p \in Procs \ {"caller"}, NEW t \in Threads,
             Test(p, t) \/ Interrupt(p, t) \/ Forget(p, t)
      PROVE  UNCHANGED <<knows, shared>>
  BY <1>7 DEF Test, Interrupt, Forget
<1>8. CASE CancelBegin
  BY <1>8 DEF CancelBegin
<1>. QED BY Steps, <1>1, <1>2, <1>3, <1>4, <1>5, <1>6, <1>7, <1>8

LEMMA MemoryNext ==
  ASSUME TypeOK, Next
  PROVE  MemoryOK'
<1>. MemoryOK
  BY TypeParts
<1>1. ASSUME NEW p \in Procs, Sync(p) PROVE MemoryOK'
  <2>1. shared \cup knows[p] \in SUBSET Writes
    BY DEF MemoryOK
  <2>. QED BY <1>1, <2>1 DEF MemoryOK, Sync
<1>2. ASSUME NEW p \in Procs, NEW s \in SUBSET Writes, UNCHANGED shared,
             knows' = [knows EXCEPT ![p] = s]
      PROVE  MemoryOK'
  BY <1>2 DEF MemoryOK
<1>. QED BY MemorySteps, <1>1, <1>2 DEF MemoryOK, memory

\* How a step changes the buffers.
LEMMA DataSteps ==
  ASSUME Next
  PROVE  \/ UNCHANGED <<data, queue, item>>
         \/ ReaderRead /\ UNCHANGED <<queue, item, out>>
         \/ ReaderPut \/ ReaderPutEof \/ WriterTake
         \/ WriterWrite /\ UNCHANGED <<consumed, array, queue, item>>
         \/ UNCHANGED <<data, item>> /\ queue' = <<>>
<1>. USE DEF data, Interrupted
<1>1. CASE Prepare \/ Await
  BY <1>1 DEF Prepare, Await
<1>2. ASSUME NEW t \in Threads, Assign(t) \/ StartThread(t) PROVE UNCHANGED <<data, queue, item>>
  BY <1>2 DEF Assign, StartThread
<1>3. CASE ReaderLoop \/ ReaderEnded \/ ReaderRead \/ WriterLoop \/ WriterWrite
  BY <1>3 DEF ReaderLoop, ReaderEnded, ReaderRead, WriterLoop, WriterWrite
<1>4. ASSUME NEW t \in Threads, Catch(t) PROVE UNCHANGED <<data, queue, item>>
  BY <1>4 DEF Catch
<1>5. ASSUME NEW p \in Procs \ {"caller"}, NEW t \in Threads, Test(p, t) \/ Interrupt(p, t) \/ Forget(p, t)
      PROVE  UNCHANGED <<data, queue, item>>
  BY <1>5 DEF Test, Interrupt, Forget
<1>6. CASE CancelBegin \/ CancelClear
  BY <1>6 DEF CancelBegin, CancelClear
<1>. QED BY Steps, <1>1, <1>2, <1>3, <1>4, <1>5, <1>6

LEMMA DataNext ==
  ASSUME TypeOK, HandedOK, Next
  PROVE  DataOK'
<1>1. DataOK
  BY TypeParts
<1>2. CASE ReaderRead /\ UNCHANGED <<queue, item, out>>
  BY <1>1, <1>2, BoundsAssumption DEF ReaderRead, DataOK
<1>3. CASE ReaderPut
  <2>1. Append(queue, item["reader"]) \in Seq(Slots \cup {Eof})
    BY <1>1 DEF DataOK
  <2>2. NextSlot(item["reader"]) \in Slots
    BY <1>1, NextSlotIs DEF DataOK
  <2>. QED BY <1>1, <1>3, <2>1, <2>2 DEF ReaderPut, DataOK, Interrupted, data, Threads
<1>4. CASE ReaderPutEof
  <2>1. Append(queue, Eof) \in Seq(Slots \cup {Eof})
    BY <1>1 DEF DataOK
  <2>. QED BY <1>1, <1>4, <2>1 DEF ReaderPutEof, DataOK, Interrupted, data
<1>5. CASE WriterTake
  <2>1. CASE Interrupted("writer")
    BY <1>1, <2>1 DEF Interrupted, data, DataOK
  <2>2. CASE queue # <<>> /\ queue' = Tail(queue) /\ item' = [item EXCEPT !["writer"] = Head(queue)]
    <3>1. queue' \in Seq(Slots \cup {Eof}) /\ Head(queue) \in Slots \cup {Eof}
      BY <1>1, <2>2, Headed DEF DataOK
    <3>. QED BY <1>1, <1>5, <2>2, <3>1 DEF WriterTake, data, DataOK, Threads, Interrupted
  <2>. QED BY <1>5, <2>1, <2>2 DEF WriterTake
<1>6. CASE WriterWrite /\ UNCHANGED <<consumed, array, queue, item>>
  <2>1. array[item["writer"]] \in 0 .. N
    BY <1>1, <1>6 DEF WriterWrite, HandedOK, DataOK
  <2>2. Append(out, array[item["writer"]]) \in Seq(0 .. N)
    BY <1>1, <2>1 DEF DataOK
  <2>. QED BY <1>1, <1>6, <2>2 DEF WriterWrite, DataOK
<1>7. CASE UNCHANGED <<data, item>> /\ queue' = <<>>
  BY <1>1, <1>7 DEF data, DataOK
<1>. QED BY <1>1, <1>2, <1>3, <1>4, <1>5, <1>6, <1>7, DataSteps DEF data, DataOK

LEMMA TypesNext ==
  ASSUME TypeOK, HandedOK, Next
  PROVE  TypeOK'
<1>1. AtOK(at)' /\ DataOK' /\ FieldsOK' /\ MemoryOK'
  BY LabelsNext, DataNext, FieldsNext, MemoryNext DEF AtOK
<1>. QED BY <1>1 DEF TypeOK, AtOK, DataOK, FieldsOK, MemoryOK

-----------------------------------------------------------------------------
(* Control.                                                                *)

\* A thread that ran is not taken back to where it was not started.
LEMMA StartNext ==
  ASSUME BaseInv, Next
  PROVE  StartOK'
<1>. TypeOK /\ StartOK /\ HandedOK
  BY DEF BaseInv
<1>1. CASE Prepare \/ Await
  BY <1>1, Moved DEF Prepare, Await, StartOK, data, Threads, Procs
<1>2. ASSUME NEW t \in Threads, Assign(t) PROVE StartOK'
  BY <1>2, Moved DEF Assign, StartOK, data, Threads, Procs
<1>3. ASSUME NEW t \in Threads, StartThread(t) PROVE StartOK'
  BY <1>3 DEF StartThread, StartOK, data, Threads, Procs, TypeOK
<1>4. CASE ReaderLoop \/ ReaderEnded \/ ReaderRead \/ ReaderPut \/ ReaderPutEof
  <2>1. at'["reader"] \notin {"off"} /\ at["reader"] \notin {"off", "over"}
    BY <1>4, Moved DEF ReaderLoop, ReaderEnded, ReaderRead, ReaderPut, ReaderPutEof, Interrupted,
       Procs, Threads
  <2>2. at'["caller"] = at["caller"]
    BY <1>4, Moved DEF ReaderLoop, ReaderEnded, ReaderRead, ReaderPut, ReaderPutEof, Interrupted,
       Procs, Threads
  <2>. QED BY <2>1, <2>2 DEF StartOK, Threads
<1>5. CASE WriterLoop \/ WriterTake \/ WriterWrite
  <2>1. /\ at["writer"] \notin {"over", "off"}
        /\ at'["caller"] = at["caller"] /\ at'["reader"] = at["reader"]
    BY <1>5, Moved DEF WriterLoop, WriterTake, WriterWrite, Interrupted, Procs, Threads
  <2>2. at["reader"] = "off" =>
          /\ UNCHANGED <<queue, consumed, out>> /\ item'["reader"] = item["reader"]
          /\ at'["writer"] # "write"
    BY <1>5, Moved DEF WriterLoop, WriterTake, WriterWrite, Interrupted, Procs, Threads, StartOK, data
  <2>. QED BY <2>1, <2>2 DEF StartOK, Threads
<1>6. ASSUME NEW p \in Threads, UNCHANGED <<data, queue, item>>, at[p] \notin {"off", "over"},
             at'[p] \notin {"off", "write"}, \A q \in Procs \ {p} : at'[q] = at[q]
      PROVE  StartOK'
  BY <1>6 DEF StartOK, data, Threads, Procs
<1>7. ASSUME NEW p \in Threads, NEW t \in Threads, Catch(p) \/ Test(p, t) \/ Interrupt(p, t) \/ Forget(p, t)
      PROVE  StartOK'
  <2>1. /\ UNCHANGED <<data, queue, item>> /\ at[p] \notin {"off", "over"}
        /\ at'[p] \notin {"off", "write"} /\ \A q \in Procs \ {p} : at'[q] = at[q]
    BY <1>7, Moved DEF Catch, Test, Interrupt, Forget, Threads, Procs
  <2>. QED BY <2>1, <1>6
<1>8. CASE \/ CancelBegin \/ CancelClear
           \/ \E t \in Threads : \/ Test("canceller", t) \/ Interrupt("canceller", t)
                                 \/ Forget("canceller", t)
  <2>1. /\ UNCHANGED <<data, item>> /\ (queue' = queue \/ queue' = <<>>)
        /\ at'["caller"] = at["caller"] /\ at'["reader"] = at["reader"]
        /\ at'["writer"] = at["writer"]
    BY <1>8, Moved DEF Test, Interrupt, Forget, CancelBegin, CancelClear, Threads, Procs
  <2>. QED BY <2>1 DEF StartOK, data, Threads
<1>9. ASSUME NEW p \in Procs \ {"caller"}, NEW t \in Threads, Test(p, t) \/ Interrupt(p, t) \/ Forget(p, t)
      PROVE  StartOK'
  BY <1>7, <1>8, <1>9 DEF Procs
<1>. QED BY Steps, <1>1, <1>2, <1>3, <1>4, <1>5, <1>7, <1>8, <1>9

\* A buffer that was handed on stays filled, and nothing follows the end marker.
LEMMA HandedNext ==
  ASSUME BaseInv, Next
  PROVE  HandedOK'
<1>. TypeOK /\ DataOK /\ StartOK /\ HandedOK
  BY TypeParts DEF BaseInv
<1>5. ASSUME UNCHANGED <<array, item>>, queue' = queue \/ queue' = <<>>,
             at'["reader"] \notin {"put"} \/ at'["reader"] = at["reader"],
             at["reader"] # "over" \/ at'["reader"] = at["reader"],
             at'["writer"] \notin {"write"} \/ at'["writer"] = at["writer"]
      PROVE  HandedOK'
  BY <1>5 DEF HandedOK
<1>1. CASE ReaderRead
  BY <1>1, Moved, BoundsAssumption DEF ReaderRead, DataOK, HandedOK, Threads, Procs
<1>2. CASE ReaderPut
  <2>1. CASE Interrupted("reader")
    BY <1>2, <1>5, <2>1, Moved DEF ReaderPut, Interrupted, data, Threads, Procs
  <2>2. CASE queue' = Append(queue, item["reader"])
    <3>1. /\ Append(queue, item["reader"])[Len(queue) + 1] = item["reader"]
          /\ DOMAIN Append(queue, item["reader"]) = 1 .. Len(queue) + 1
          /\ DOMAIN queue = 1 .. Len(queue) /\ Len(queue) \in Nat
          /\ \A i \in DOMAIN queue : Append(queue, item["reader"])[i] = queue[i]
      BY Appended DEF DataOK
    <3>2. /\ UNCHANGED array /\ at["reader"] = "put" /\ at'["reader"] # "put"
          /\ at'["writer"] = at["writer"] /\ item'["writer"] = item["writer"]
      BY <1>2, Moved DEF ReaderPut, DataOK, Interrupted, data, Threads, Procs
    <3>3. \A i \in DOMAIN queue : queue[i] # Eof /\ array[queue[i]] # 0
      BY <3>2 DEF HandedOK
    <3>. QED BY <2>2, <3>1, <3>2, <3>3, EofIsNone DEF HandedOK, DataOK
  <2>. QED BY <1>2, <2>1, <2>2 DEF ReaderPut
<1>3. CASE ReaderPutEof
  <2>1. CASE Interrupted("reader")
    BY <1>3, <1>5, <2>1, Moved DEF ReaderPutEof, Interrupted, data, Threads, Procs
  <2>2. CASE queue' = Append(queue, Eof) /\ Goto("reader", "over")
    <3>1. /\ Append(queue, Eof)[Len(queue) + 1] = Eof
          /\ Len(Append(queue, Eof)) = Len(queue) + 1
          /\ DOMAIN Append(queue, Eof) = 1 .. Len(queue) + 1
          /\ DOMAIN queue = 1 .. Len(queue) /\ Len(queue) \in Nat
          /\ \A i \in DOMAIN queue : Append(queue, Eof)[i] = queue[i]
      BY Appended DEF DataOK
    <3>2. /\ UNCHANGED <<array, item>> /\ at["reader"] = "put_eof" /\ at'["reader"] = "over"
          /\ at'["writer"] = at["writer"]
      BY <1>3, <2>2, Moved DEF ReaderPutEof, data, Interrupted, Threads, Procs
    <3>3. \A i \in DOMAIN queue : queue[i] # Eof /\ array[queue[i]] # 0
      BY <3>2 DEF HandedOK
    <3>. QED BY <2>2, <3>1, <3>2, <3>3 DEF HandedOK
  <2>. QED BY <1>3, <2>1, <2>2 DEF ReaderPutEof
<1>4. CASE WriterTake
  <2>1. CASE Interrupted("writer")
    BY <2>1, Moved DEF Interrupted, HandedOK, data, Threads, Procs
  <2>2. CASE queue # <<>> /\ queue' = Tail(queue) /\ item' = [item EXCEPT !["writer"] = Head(queue)]
    <3>1. /\ Head(queue) = queue[1] /\ queue[1] \in Slots \cup {Eof}
          /\ Len(queue) \in Nat \ {0} /\ Len(queue') = Len(queue) - 1
          /\ DOMAIN queue = 1 .. Len(queue) /\ DOMAIN queue' = 1 .. Len(queue) - 1
          /\ \A i \in DOMAIN queue' : queue'[i] = queue[i + 1]
      BY <2>2, Headed DEF DataOK
    <3>2. /\ UNCHANGED array /\ at'["reader"] = at["reader"] /\ item'["reader"] = item["reader"]
      BY <1>4, <2>2, Moved DEF WriterTake, DataOK, Interrupted, data, Threads, Procs
    <3>5. at'["writer"] = "write" => queue[1] # Eof
      BY <1>4, <3>1, Moved DEF WriterTake, Interrupted, Threads, Procs
    <3>4. item'["writer"] = queue[1]
      BY <2>2, <3>1 DEF DataOK, Threads
    <3>3. \A i \in DOMAIN queue' : i + 1 \in DOMAIN queue
      BY <3>1
    <3>. QED BY <3>1, <3>2, <3>3, <3>4, <3>5 DEF HandedOK
  <2>. QED BY <1>4, <2>1, <2>2 DEF WriterTake
<1>6. CASE Prepare \/ Await \/ ReaderLoop \/ ReaderEnded \/ WriterLoop
  BY <1>5, <1>6, Moved
     DEF Prepare, Await, ReaderLoop, ReaderEnded, WriterLoop, data, Threads, Procs
<1>7. ASSUME NEW t \in Threads, Assign(t) PROVE HandedOK'
  BY <1>5, <1>7, Moved DEF Assign, data, Threads, Procs
<1>8. ASSUME NEW t \in Threads, StartThread(t) PROVE HandedOK'
  <2>1. at["reader"] = "off" \/ at'["reader"] = at["reader"]
    BY <1>8 DEF StartThread, StartOK, TypeOK, Procs, Threads
  <2>. QED BY <1>5, <1>8, <2>1 DEF StartThread, TypeOK, data, Threads, Procs
<1>9. ASSUME NEW t \in Threads, Catch(t) PROVE HandedOK'
  BY <1>5, <1>9, Moved DEF Catch, data, Threads, Procs
<1>10. ASSUME NEW p \in Procs \ {"caller"}, NEW t \in Threads, Test(p, t) \/ Interrupt(p, t) \/ Forget(p, t)
      PROVE  HandedOK'
  BY <1>5, <1>10, Moved DEF Test, Interrupt, Forget, data, Threads, Procs
<1>11. CASE CancelBegin \/ CancelClear
  BY <1>5, <1>11, Moved DEF CancelBegin, CancelClear, data, Threads, Procs
<1>12. CASE WriterWrite
  BY <1>5, <1>12, Moved DEF WriterWrite, data, Threads, Procs
<1>. QED BY Steps, <1>1, <1>2, <1>3, <1>4, <1>6, <1>7, <1>8, <1>9, <1>10, <1>11, <1>12

\* Only cancel() makes its flag known, through the queue's lock, and only an
\* exception finishes before the return.
LEMMA FlagNext ==
  ASSUME BaseInv, Next
  PROVE  FlagOK'
<1>. TypeOK /\ MemoryOK /\ StartOK /\ FlagOK
  BY TypeParts DEF BaseInv
<1>1. CASE Prepare \/ Await
  BY <1>1, Moved DEF Prepare, Await, FlagOK, Cleared, fields, memory, Threads, Procs, Handing
<1>2. ASSUME NEW t \in Threads, Assign(t) PROVE FlagOK'
  BY <1>2, Moved DEF Assign, FlagOK, Cleared, memory, Threads, Procs, Handing
<1>3. ASSUME NEW t \in Threads, StartThread(t) PROVE FlagOK'
  <2>1. at["reader"] = "off"
    BY <1>3 DEF StartThread, StartOK
  <2>. QED BY <1>3, <2>1 DEF StartThread, FlagOK, Cleared, MemoryOK, fields, TypeOK, Threads, Procs, Handing
<1>4. CASE ReaderLoop \/ ReaderEnded \/ ReaderRead \/ WriterLoop \/ WriterWrite
  BY <1>4, Moved DEF ReaderLoop, ReaderEnded, ReaderRead, WriterLoop, WriterWrite,
     FlagOK, Cleared, fields, memory, Threads, Procs, Handing
<1>5. ASSUME NEW p \in Procs, Sync(p)
      PROVE  /\ Cleared' => Cleared \/ (p \notin Threads /\ "canceled" \in knows[p])
             /\ Cleared => Cleared'
             /\ \A t \in Threads : "canceled" \in knows'[t] => Cleared'
  <2>1. /\ shared' = shared \cup knows[p] /\ knows'[p] = shared \cup knows[p]
        /\ \A q \in Procs \ {p} : knows'[q] = knows[q]
    BY <1>5 DEF Sync, MemoryOK
  <2>2. "canceled" \in shared' <=> "canceled" \in shared \/ "canceled" \in knows[p]
    BY <2>1
  <2>3. \A t \in Threads : "canceled" \in knows[t] => "canceled" \in shared
    BY DEF FlagOK, Cleared
  <2>4. \A t \in Threads : "canceled" \in knows'[t] => "canceled" \in shared'
    <3>. SUFFICES ASSUME NEW t \in Threads, "canceled" \in knows'[t] PROVE "canceled" \in shared'
      OBVIOUS
    <3>1. t \in Procs
      BY DEF Procs
    <3>. QED BY <2>1, <2>3, <3>1
  <2>. QED BY <2>2, <2>3, <2>4 DEF Cleared
<1>6. ASSUME NEW t \in Threads, at[t] # "over", Interrupted(t) PROVE FlagOK'
  BY <1>6, Moved DEF Interrupted, FlagOK, Cleared, memory, Threads, Procs, Handing
<1>7. CASE ReaderPut \/ ReaderPutEof \/ WriterTake
  <2>1. CASE Sync("reader") \/ Sync("writer")
    <3>1. /\ UNCHANGED <<flags, exception>> /\ at'["caller"] = at["caller"]
          /\ at'["canceller"] = at["canceller"]
          /\ \A t \in Threads : at'[t] \in Handing => at[t] \in Handing
          /\ knows'["canceller"] = knows["canceller"]
          /\ at["reader"] # "over" \/ at["writer"] # "over"
      BY <1>7, <2>1, Moved DEF ReaderPut, ReaderPutEof, WriterTake, Interrupted, fields, Sync,
         MemoryOK, Threads, Procs, Handing
    <3>. QED BY <1>5, <2>1, <3>1 DEF FlagOK, Threads, Procs
  <2>. QED BY <1>6, <1>7, <2>1 DEF ReaderPut, ReaderPutEof, WriterTake, Threads
<1>8. ASSUME NEW t \in Threads, Catch(t) PROVE FlagOK'
  BY <1>8, Moved DEF Catch, FlagOK, Cleared, MemoryOK, Threads, Procs, Handing
<1>9. ASSUME NEW p \in Procs \ {"caller"}, NEW t \in Threads, Test(p, t) \/ Interrupt(p, t) \/ Forget(p, t)
      PROVE  FlagOK'
  BY <1>9, Moved DEF Test, Interrupt, Forget, FlagOK, Cleared, fields, memory, Threads, Procs, Handing
<1>10. CASE CancelBegin
  BY <1>10, Moved DEF CancelBegin, FlagOK, Cleared, MemoryOK, Threads, Procs, Handing
<1>11. CASE CancelClear
  BY <1>5, <1>11, Moved DEF CancelClear, FlagOK, Cleared, fields, memory, Threads, Procs, Handing
<1>. QED BY Steps, <1>1, <1>2, <1>3, <1>4, <1>7, <1>8, <1>9, <1>10, <1>11

LEMMA BaseNext ==
  ASSUME BaseInv, [Next]_vars
  PROVE  BaseInv'
<1>1. CASE Next
  BY <1>1, TypesNext, StartNext, HandedNext, FlagNext DEF BaseInv
<1>2. CASE UNCHANGED vars
  BY <1>2 DEF vars, BaseInv, TypeOK, StartOK, HandedOK, FlagOK, Cleared
<1>. QED BY <1>1, <1>2

LEMMA BaseInit == Init => BaseInv
<1>. SUFFICES ASSUME Init PROVE BaseInv
  OBVIOUS
<1>. USE BoundsAssumption DEF Init, Procs, Threads
<1>1. AtOK(at)
  BY DEF AtOK, ThreadLabels
<1>2. DataOK
  <2>1. 0 \in 0 .. N /\ 0 \in Slots
    BY DEF Slots
  <2>. QED BY <2>1 DEF DataOK
<1>5. FieldsOK
  <2>1. fails \in 0 .. MaxFails
    OBVIOUS
  <2>2. thread = {} /\ interrupted = {} /\ flags = {} /\ exception = FALSE /\ crashed = FALSE
    OBVIOUS
  <2>. QED BY <2>1, <2>2 DEF FieldsOK
<1>3. MemoryOK
  <2>1. {} \in SUBSET Writes
    OBVIOUS
  <2>. QED BY <2>1 DEF MemoryOK
<1>4. StartOK /\ HandedOK /\ FlagOK
  BY DEF StartOK, HandedOK, FlagOK, Cleared, Handing
<1>. QED BY <1>1, <1>2, <1>3, <1>4, <1>5, TypeParts DEF BaseInv

\* The copier's fields, buffers and labels keep their types, for every number of
\* chunks, buffers and failures.
THEOREM TypeCorrect == Spec => []TypeOK
<1>1. BaseInv => TypeOK
  BY DEF BaseInv
<1>. QED BY <1>1, BaseInit, BaseNext, PTL DEF Spec

-----------------------------------------------------------------------------
(* The ring and the chunks in it.                                          *)

\* Fewer places before a buffer than the ring has is another buffer.
LEMMA BeforeDiffers ==
  ASSUME NEW r \in Slots, NEW x \in Slots, NEW d \in 1 .. dataItemCount - 1, Before(x, d, r)
  PROVE  x # r
BY BoundsAssumption DEF Before, Slots

LEMMA BeforeNext ==
  ASSUME NEW r \in Slots, NEW x \in Slots, NEW d \in 1 .. dataItemCount - 1, Before(x, d, r)
  PROVE  Before(x, d + 1, NextSlot(r))
BY NextSlotIs, BoundsAssumption DEF Before, Slots

LEMMA BeforeFirst ==
  ASSUME NEW r \in Slots
  PROVE  Before(r, 1, NextSlot(r))
BY NextSlotIs, BoundsAssumption DEF Before, Slots

\* Nothing in the queue, nor what is being written, is the buffer that is filled.
LEMMA RingApart ==
  ASSUME BaseInv, RingOK, at["reader"] # "over"
  PROVE  /\ \A i \in DOMAIN queue : queue[i] \in Slots /\ queue[i] # item["reader"]
         /\ at["writer"] = "write" => item["writer"] # item["reader"]
<1>1. DataOK /\ DOMAIN queue = 1 .. Len(queue) /\ Len(queue) \in Nat
  BY TypeParts DEF BaseInv, DataOK
<1>2. ASSUME NEW i \in DOMAIN queue PROVE queue[i] \in Slots /\ queue[i] # item["reader"]
  <2>1. queue[i] \in Slots
    BY <1>1 DEF DataOK, BaseInv, HandedOK
  <2>2. Len(queue) + 1 - i \in 1 .. dataItemCount - 1
    BY <1>1, BoundsAssumption DEF RingOK
  <2>. QED BY <1>1, <2>1, <2>2, BeforeDiffers DEF RingOK
<1>3. Len(queue) + 1 \in 1 .. dataItemCount - 1
  BY <1>1, BoundsAssumption DEF RingOK
<1>4. at["writer"] = "write" => item["writer"] \in Slots
  BY DEF BaseInv, HandedOK
<1>. QED BY <1>1, <1>2, <1>3, <1>4, BeforeDiffers DEF RingOK

\* Who knows of the flag sees it, as long as startAndWait did not reset it.
LEMMA FlagSeen ==
  ASSUME BaseInv, FlagKept
  PROVE  /\ Cleared => "canceled" \in flags
         /\ \A t \in Threads : "canceled" \in knows[t] => Cleared /\ ~MayMiss(knows[t], "canceled")
BY DEF BaseInv, FlagOK, FlagKept, MayMiss

LEMMA FlagBack ==
  ASSUME BaseInv, Next, FlagKept'
  PROVE  FlagKept
<1>. TypeOK
  BY DEF BaseInv
<1>1. CASE Prepare
  BY <1>1, Moved DEF Prepare, FlagKept, Procs, Threads
<1>2. CASE CancelBegin
  BY <1>2 DEF CancelBegin, FlagKept
<1>3. ASSUME at'["canceller"] = "off" => at["canceller"] = "off",
             "canceled" \in flags' => "canceled" \in flags
      PROVE  FlagKept
  BY <1>3 DEF FlagKept
<1>4. CASE Await \/ ReaderLoop \/ ReaderRead \/ ReaderEnded \/ WriterLoop \/ WriterWrite
  BY <1>3, <1>4, Moved DEF Await, ReaderLoop, ReaderRead, ReaderEnded, WriterLoop, WriterWrite,
     fields, Procs, Threads
<1>5. CASE ReaderPut \/ ReaderPutEof \/ WriterTake
  BY <1>3, <1>5, Moved DEF ReaderPut, ReaderPutEof, WriterTake, Interrupted, fields, Procs, Threads
<1>6. ASSUME NEW t \in Threads, Assign(t) \/ Catch(t) PROVE FlagKept
  BY <1>3, <1>6, Moved DEF Assign, Catch, fields, Procs, Threads
<1>7. ASSUME NEW t \in Threads, StartThread(t) PROVE FlagKept
  BY <1>3, <1>7 DEF StartThread, TypeOK, fields, Procs, Threads
<1>8. ASSUME NEW p \in Procs \ {"caller"}, NEW t \in Threads, Test(p, t) \/ Interrupt(p, t) \/ Forget(p, t)
      PROVE  FlagKept
  BY <1>3, <1>8, Moved DEF Test, Interrupt, Forget, fields, Procs, Threads, Handing
<1>9. CASE CancelClear
  BY <1>3, <1>9, Moved DEF CancelClear, fields, Procs, Threads
<1>. QED BY Steps, <1>1, <1>2, <1>4, <1>5, <1>6, <1>7, <1>8, <1>9

\* Steps that move no chunk.
LEMMA CopyFrame ==
  ASSUME BaseInv, CopyOK, UNCHANGED <<data, queue, item, shared>>,
         "canceled" \in knows'["reader"] => "canceled" \in knows["reader"],
         "canceled" \in knows["reader"] => "canceled" \in knows'["reader"] \/ at["reader"] = "off",
         \/ at'["writer"] = at["writer"] \/ at'["writer"] \notin Live
         \/ at["writer"] \in {"off", "loop"} /\ at'["writer"] \in {"loop", "take"},
         \/ at'["reader"] = at["reader"] \/ at'["reader"] \notin Filling \cup {"ended", "put_eof"}
         \/ at["reader"] = "off" /\ at'["reader"] = "loop"
         \/ at["reader"] = "loop" /\ at'["reader"] = "read" /\ "canceled" \notin knows["reader"]
         \/ at["reader"] \in {"loop", "read", "ended"} /\ at'["reader"] \in {"ended", "put_eof"}
  PROVE  CopyOK'
<1>1. at'["writer"] = "write" => at["writer"] = "write"
  BY DEF Live
<1>2. at'["writer"] \in Live => at["writer"] \in Live /\ Hold' = Hold
  BY DEF Live, Hold
<1>3. at'["reader"] \in Filling => at["reader"] \in Filling
  BY DEF Filling
<1>4. Written'
  BY DEF CopyOK, Written, data
<1>5. Cleared => ClearedOK'
  <2>. SUFFICES ASSUME Cleared PROVE ClearedOK'
    OBVIOUS
  <2>1. ClearedOK
    BY DEF CopyOK
  <2>2. at["reader"] = "off" => queue = <<>> /\ at["writer"] # "write"
    BY DEF BaseInv, StartOK
  <2>3. at'["reader"] \in {"read", "put"} => "canceled" \notin knows'["reader"]
    BY <2>1 DEF ClearedOK, Filling
  <2>. QED BY <1>1, <1>3, <2>1, <2>2, <2>3 DEF ClearedOK, data, Filling
<1>6. ~Cleared /\ at'["reader"] \in Filling => RingOK'
  BY <1>1, <1>3 DEF CopyOK, RingOK, Before
<1>7. ~Cleared /\ at'["writer"] \in Live => NextChunks'
  <2>. SUFFICES ASSUME ~Cleared, at'["writer"] \in Live PROVE NextChunks'
    OBVIOUS
  <2>1. NextChunks /\ Ahead' = Ahead
    BY <1>2 DEF CopyOK, Ahead, data
  <2>2. at'["reader"] = "put" => at["reader"] = "put"
    BY DEF Filling
  <2>3. at'["reader"] \in {"off", "loop", "read", "ended", "put_eof"} =>
          at["reader"] \in {"off", "loop", "read", "ended", "put_eof"}
    BY DEF Filling
  <2>. QED BY <1>1, <2>1, <2>2, <2>3 DEF NextChunks, data
<1>. QED BY <1>4, <1>5, <1>6, <1>7 DEF CopyOK, Cleared

\* Filling a buffer touches nothing that was handed on.
LEMMA ReadCopy ==
  ASSUME BaseInv, FlagKept, CopyOK, ReaderRead
  PROVE  CopyOK'
<1>. TypeOK /\ DataOK /\ at["reader"] = "read"
  BY TypeParts DEF BaseInv, ReaderRead
<1>1. CASE UNCHANGED <<consumed, array>>
  <2>1. /\ UNCHANGED <<data, queue, item, knows, shared>>
        /\ at'["writer"] = at["writer"] /\ at'["reader"] \in {"put", "ended", "catch"}
    BY <1>1, Moved DEF ReaderRead, memory, data, Procs, Threads
  <2>2. at'["reader"] # "put"
    BY <1>1, Moved DEF ReaderRead, DataOK, Procs, Threads
  <2>. QED BY <2>1, <2>2, CopyFrame DEF Filling
<1>2. CASE consumed' = consumed + 1
  <2>1. /\ consumed < N /\ array' = [array EXCEPT ![item["reader"]] = consumed + 1]
        /\ at'["reader"] = "put" /\ at'["writer"] = at["writer"]
        /\ UNCHANGED <<queue, out, item, knows, shared>>
    BY <1>2, Moved DEF ReaderRead, memory, DataOK, Procs, Threads
  <2>2. array'[item["reader"]] = consumed + 1 /\ \A i \in Slots \ {item["reader"]} : array'[i] = array[i]
    BY <2>1 DEF DataOK
  <2>3. at["writer"] = "write" => item["writer"] \in Slots
    BY DEF BaseInv, HandedOK
  <2>4. CASE Cleared
    <3>1. ClearedOK /\ "canceled" \notin knows["reader"]
      BY <2>4 DEF CopyOK, ClearedOK
    <3>2. queue = <<>> /\ (at["writer"] = "write" => item["writer"] # item["reader"])
      BY <3>1 DEF ClearedOK, Filling
    <3>3. at["writer"] = "write" => array'[item["writer"]] = Len(out) + 1
      BY <2>2, <2>3, <3>1, <3>2 DEF ClearedOK
    <3>4. ClearedOK'
      BY <2>1, <3>1, <3>2, <3>3 DEF ClearedOK
    <3>. QED BY <2>1, <2>4, <3>4 DEF CopyOK, Cleared, Written
  <2>5. CASE ~Cleared
    <3>1. RingOK
      BY <2>5 DEF CopyOK, Filling
    <3>2. /\ \A i \in DOMAIN queue : queue[i] \in Slots /\ queue[i] # item["reader"]
          /\ at["writer"] = "write" => item["writer"] # item["reader"]
      BY <3>1, RingApart
    <3>3. RingOK'
      BY <2>1, <3>1 DEF RingOK, Before
    <3>4. ASSUME at["writer"] \in Live PROVE NextChunks'
      <4>1. NextChunks /\ Ahead' = Ahead
        BY <2>1, <2>5, <3>4 DEF CopyOK, Ahead, Hold
      <4>2. \A i \in DOMAIN queue : array'[queue[i]] = array[queue[i]]
        BY <2>2, <3>2
      <4>3. at["writer"] = "write" => array'[item["writer"]] = array[item["writer"]]
        BY <2>2, <2>3, <3>2
      <4>4. consumed' = Ahead + Len(queue) + 1 /\ array'[item["reader"]] = consumed'
        BY <1>2, <2>2, <4>1 DEF NextChunks
      <4>. QED BY <2>1, <4>1, <4>2, <4>3, <4>4 DEF NextChunks
    <3>. QED BY <2>1, <2>5, <3>3, <3>4 DEF CopyOK, Cleared, Written
  <2>. QED BY <2>4, <2>5
<1>. QED BY <1>1, <1>2 DEF ReaderRead

\* A buffer is handed on while the ring has room, or as the last one after a cancel().
LEMMA PutCopy ==
  ASSUME BaseInv, FlagKept, CopyOK, ReaderPut
  PROVE  CopyOK'
<1>. TypeOK /\ DataOK /\ MemoryOK /\ at["reader"] = "put"
  BY TypeParts DEF BaseInv, ReaderPut
<1>1. CASE Interrupted("reader")
  BY <1>1, CopyFrame, Moved DEF Interrupted, memory, data, Filling, Procs, Threads
<1>2. CASE ~Interrupted("reader")
  <2>1. /\ Room /\ queue' = Append(queue, item["reader"]) /\ Sync("reader")
        /\ item'["reader"] = NextSlot(item["reader"]) /\ item'["writer"] = item["writer"]
        /\ at'["reader"] = "loop" /\ at'["writer"] = at["writer"]
        /\ UNCHANGED <<consumed, array, out>>
    BY <1>2, Moved DEF ReaderPut, data, DataOK, Procs, Threads
  <2>2. /\ Append(queue, item["reader"])[Len(queue) + 1] = item["reader"]
        /\ Len(Append(queue, item["reader"])) = Len(queue) + 1
        /\ DOMAIN Append(queue, item["reader"]) = 1 .. Len(queue) + 1
        /\ DOMAIN queue = 1 .. Len(queue) /\ Len(queue) \in Nat
        /\ \A i \in DOMAIN queue : Append(queue, item["reader"])[i] = queue[i]
    BY Appended DEF DataOK
  <2>3. shared' = shared \cup knows["reader"] /\ knows'["reader"] = shared'
    BY <2>1 DEF Sync, MemoryOK, Procs, Threads
  <2>4. Written'
    BY <2>1 DEF CopyOK, Written
  <2>5. CASE Cleared
    <3>1. Cleared' /\ "canceled" \in knows'["reader"]
      BY <2>3, <2>5 DEF Cleared
    <3>2. ClearedOK'
      BY <2>1, <2>5, <3>1 DEF CopyOK, ClearedOK
    <3>. QED BY <2>4, <3>1, <3>2 DEF CopyOK
  <2>6. CASE ~Cleared
    <3>1. ~Cleared'
      BY <2>3, <2>6 DEF Cleared, BaseInv, FlagOK, Threads
    <3>2. RingOK
      BY <2>6 DEF CopyOK, Filling
    <3>3. \A i \in DOMAIN queue : queue[i] \in Slots /\ queue[i] # item["reader"]
      BY <3>2, RingApart
    <3>4. RingOK'
      <4>1. Len(queue') <= dataItemCount - 2
        BY <2>1, <2>2, BoundsAssumption DEF Room
      <4>2. ASSUME NEW i \in DOMAIN queue
            PROVE  Before(queue[i], Len(queue) + 2 - i, item'["reader"])
        <5>1. Len(queue) + 1 - i \in 1 .. dataItemCount - 1
          BY <2>2, <3>2, BoundsAssumption DEF RingOK
        <5>2. Before(queue[i], Len(queue) + 1 - i, item["reader"])
          BY <3>2 DEF RingOK
        <5>3. Before(queue[i], Len(queue) + 1 - i + 1, item'["reader"])
          BY <2>1, <3>3, <5>1, <5>2, BeforeNext DEF DataOK
        <5>. QED BY <2>2, <5>3 DEF Before
      <4>3. Before(item["reader"], 1, item'["reader"])
        BY <2>1, BeforeFirst DEF DataOK
      <4>4. ASSUME at["writer"] = "write"
            PROVE  Before(item["writer"], Len(queue) + 1 + 1, item'["reader"])
        <5>1. Len(queue) + 1 \in 1 .. dataItemCount - 1 /\ item["writer"] \in Slots
          BY <2>2, <3>2, <4>4, BoundsAssumption DEF RingOK, BaseInv, HandedOK
        <5>. QED BY <2>1, <3>2, <4>4, <5>1, BeforeNext DEF DataOK, RingOK
      <4>5. ASSUME NEW i \in DOMAIN queue'
            PROVE  Before(queue'[i], Len(queue') + 1 - i, item'["reader"])
        <5>1. CASE i \in DOMAIN queue
          BY <2>1, <2>2, <4>2, <5>1 DEF Before
        <5>2. CASE i = Len(queue) + 1
          BY <2>1, <2>2, <4>3, <5>2
        <5>. QED BY <2>1, <2>2, <5>1, <5>2
      <4>. QED BY <2>1, <2>2, <4>1, <4>4, <4>5 DEF RingOK
    <3>5. ASSUME at["writer"] \in Live PROVE NextChunks'
      <4>1. NextChunks /\ Ahead' = Ahead /\ Ahead \in Nat
        BY <2>1, <2>6, <3>5 DEF CopyOK, Ahead, Hold, DataOK
      <4>2. array[item["reader"]] = Ahead + Len(queue) + 1 /\ consumed = Ahead + Len(queue) + 1
        BY <4>1 DEF NextChunks
      <4>3. ASSUME NEW i \in DOMAIN queue', queue'[i] # Eof PROVE array[queue'[i]] = Ahead + i
        <5>1. CASE i \in DOMAIN queue
          BY <2>1, <2>2, <4>1, <4>3, <5>1 DEF NextChunks
        <5>2. CASE i = Len(queue) + 1
          BY <2>1, <2>2, <4>1, <4>2, <5>2
        <5>. QED BY <2>1, <2>2, <5>1, <5>2
      <4>4. consumed = Ahead + Len(queue')
        BY <2>1, <2>2, <4>1, <4>2
      <4>. QED BY <2>1, <4>1, <4>3, <4>4 DEF NextChunks
    <3>. QED BY <2>1, <2>4, <3>1, <3>4, <3>5 DEF CopyOK
  <2>. QED BY <2>5, <2>6
<1>. QED BY <1>1, <1>2

LEMMA PutEofCopy ==
  ASSUME BaseInv, FlagKept, CopyOK, ReaderPutEof
  PROVE  CopyOK'
<1>. TypeOK /\ DataOK /\ MemoryOK /\ at["reader"] = "put_eof"
  BY TypeParts DEF BaseInv, ReaderPutEof
<1>1. CASE Interrupted("reader")
  BY <1>1, CopyFrame, Moved DEF Interrupted, memory, data, Filling, Procs, Threads
<1>2. CASE ~Interrupted("reader")
  <2>1. /\ queue' = Append(queue, Eof) /\ Sync("reader")
        /\ at'["reader"] = "over" /\ at'["writer"] = at["writer"]
        /\ UNCHANGED <<consumed, array, out, item>>
    BY <1>2, Moved DEF ReaderPutEof, data, Procs, Threads
  <2>2. /\ Append(queue, Eof)[Len(queue) + 1] = Eof
        /\ DOMAIN Append(queue, Eof) = 1 .. Len(queue) + 1 /\ DOMAIN queue = 1 .. Len(queue)
        /\ Len(queue) \in Nat
        /\ \A i \in DOMAIN queue : Append(queue, Eof)[i] = queue[i]
    BY Appended DEF DataOK
  <2>3. shared' = shared \cup knows["reader"]
    BY <2>1 DEF Sync
  <2>4. Written'
    BY <2>1 DEF CopyOK, Written
  <2>5. Cleared' <=> Cleared
    BY <2>3 DEF Cleared, BaseInv, FlagOK, Threads
  <2>6. Cleared => ClearedOK'
    BY <2>1 DEF CopyOK, ClearedOK, Filling
  <2>7. ASSUME ~Cleared, at["writer"] \in Live PROVE NextChunks'
    <3>1. NextChunks /\ Ahead' = Ahead
      BY <2>1, <2>7 DEF CopyOK, Ahead, Hold
    <3>2. \A i \in DOMAIN queue' : queue'[i] # Eof => i \in DOMAIN queue /\ queue'[i] = queue[i]
      BY <2>1, <2>2
    <3>. QED BY <2>1, <3>1, <3>2 DEF NextChunks
  <2>. QED BY <2>1, <2>4, <2>5, <2>6, <2>7 DEF CopyOK, Filling
<1>. QED BY <1>1, <1>2

\* The writer takes the oldest buffer; after a cancel() it writes none of them.
LEMMA TakeCopy ==
  ASSUME BaseInv, FlagKept, CopyOK, WriterTake
  PROVE  CopyOK'
<1>. TypeOK /\ DataOK /\ MemoryOK /\ at["writer"] = "take"
  BY TypeParts DEF BaseInv, WriterTake
<1>1. CASE Interrupted("writer")
  BY <1>1, CopyFrame, Moved DEF Interrupted, memory, data, Live, Procs, Threads
<1>2. CASE ~Interrupted("writer")
  <2>1. /\ queue # <<>> /\ queue' = Tail(queue) /\ Sync("writer")
        /\ item'["writer"] = Head(queue) /\ item'["reader"] = item["reader"]
        /\ at'["reader"] = at["reader"] /\ at'["writer"] \in {"over", "catch", "write"}
        /\ at'["writer"] = "write" => Head(queue) # Eof /\ ~("canceled" \in flags \cap shared)
        /\ UNCHANGED <<consumed, array, out>>
    BY <1>2, Moved DEF WriterTake, MayMiss, data, DataOK, Procs, Threads
  <2>2. /\ Head(queue) = queue[1] /\ Len(queue) \in Nat \ {0} /\ Len(queue') = Len(queue) - 1
        /\ DOMAIN queue = 1 .. Len(queue) /\ DOMAIN queue' = 1 .. Len(queue) - 1
        /\ \A i \in DOMAIN queue' : i + 1 \in DOMAIN queue /\ queue'[i] = queue[i + 1]
    BY <2>1, Headed DEF DataOK
  <2>3. shared' = shared \cup knows["writer"] /\ knows'["reader"] = knows["reader"]
    BY <2>1 DEF Sync, MemoryOK, Procs, Threads
  <2>4. Written'
    BY <2>1 DEF CopyOK, Written
  <2>5. Cleared' <=> Cleared
    BY <2>3 DEF Cleared, BaseInv, FlagOK, Threads
  <2>6. ASSUME Cleared PROVE ClearedOK'
    <3>1. at'["writer"] # "write"
      BY <2>1, <2>6, FlagSeen DEF Cleared
    <3>. QED BY <2>1, <2>3, <2>6, <3>1 DEF CopyOK, ClearedOK
  <2>7. ASSUME ~Cleared, at["reader"] \in Filling PROVE RingOK'
    <3>1. RingOK
      BY <2>7 DEF CopyOK
    <3>2. ASSUME NEW i \in DOMAIN queue'
          PROVE  Before(queue'[i], Len(queue') + 1 - i, item'["reader"])
      <4>1. Before(queue[i + 1], Len(queue) + 1 - (i + 1), item["reader"])
        BY <2>2, <3>1, <3>2 DEF RingOK
      <4>2. Len(queue) + 1 - (i + 1) = Len(queue') + 1 - i
        BY <2>2, <3>2
      <4>. QED BY <2>1, <2>2, <3>2, <4>1, <4>2
    <3>3. Before(item'["writer"], Len(queue') + 1, item'["reader"])
      BY <2>1, <2>2, <3>1 DEF RingOK, Before
    <3>. QED BY <2>2, <3>1, <3>2, <3>3, BoundsAssumption DEF RingOK
  <2>8. ASSUME ~Cleared, at'["writer"] \in Live PROVE NextChunks'
    <3>1. at'["writer"] = "write" /\ NextChunks /\ Hold = 0 /\ Hold' = 1 /\ Len(out) \in Nat
      BY <2>1, <2>8 DEF CopyOK, Live, Hold, DataOK
    <3>2. Ahead = Len(out) /\ Ahead' = Len(out) + 1
      BY <2>1, <3>1 DEF Ahead
    <3>3. \A i \in DOMAIN queue : queue[i] # Eof => array[queue[i]] = Len(out) + i
      BY <3>1, <3>2 DEF NextChunks
    <3>4. \A i \in DOMAIN queue' : queue'[i] # Eof => array[queue'[i]] = Len(out) + 1 + i
      BY <2>2, <3>1, <3>3
    <3>5. array[item'["writer"]] = Len(out) + 1
      BY <2>1, <2>2, <3>1, <3>3
    <3>6. Len(out) + Len(queue) = Len(out) + 1 + Len(queue')
      BY <2>2, <3>1
    <3>. QED BY <2>1, <3>1, <3>2, <3>4, <3>5, <3>6 DEF NextChunks
  <2>. QED BY <2>1, <2>4, <2>5, <2>6, <2>7, <2>8 DEF CopyOK
<1>. QED BY <1>1, <1>2

\* What is written is the next chunk.
LEMMA WriteCopy ==
  ASSUME BaseInv, FlagKept, CopyOK, WriterWrite
  PROVE  CopyOK'
<1>. TypeOK /\ DataOK /\ at["writer"] = "write"
  BY TypeParts DEF BaseInv, WriterWrite
<1>1. CASE UNCHANGED out
  BY <1>1, CopyFrame, Moved DEF WriterWrite, memory, data, Live, Procs, Threads, DataOK
<1>2. CASE out' = Append(out, array[item["writer"]]) /\ Goto("writer", "loop")
  <2>1. /\ at'["writer"] = "loop" /\ at'["reader"] = at["reader"]
        /\ UNCHANGED <<consumed, array, queue, item, knows, shared>>
    BY <1>2, Moved DEF WriterWrite, memory, Procs, Threads
  <2>2. array[item["writer"]] = Len(out) + 1
    BY DEF CopyOK, ClearedOK, NextChunks, Live
  <2>3. Len(out) \in Nat /\ Len(out') = Len(out) + 1
    BY <1>2, <2>2 DEF DataOK
  <2>4. Written'
    BY <1>2, <2>2 DEF CopyOK, Written, DataOK
  <2>5. Cleared => ClearedOK'
    BY <2>1 DEF CopyOK, ClearedOK
  <2>6. ~Cleared /\ at["reader"] \in Filling => RingOK'
    BY <2>1 DEF CopyOK, RingOK
  <2>7. ASSUME ~Cleared PROVE NextChunks'
    <3>1. NextChunks /\ Ahead' = Ahead
      BY <2>1, <2>3, <2>7 DEF CopyOK, Live, Ahead, Hold
    <3>. QED BY <2>1, <3>1 DEF NextChunks
  <2>. QED BY <2>1, <2>4, <2>5, <2>6, <2>7 DEF CopyOK, Cleared
<1>. QED BY <1>1, <1>2 DEF WriterWrite

\* cancel() empties the queue behind both threads.
LEMMA ClearCopy ==
  ASSUME BaseInv, FlagKept, CopyOK, CancelClear
  PROVE  CopyOK'
<1>. TypeOK /\ DataOK /\ MemoryOK
  BY TypeParts DEF BaseInv
<1>1. CASE UNCHANGED <<queue, memory>>
  BY <1>1, CopyFrame, Moved DEF CancelClear, memory, data, Procs, Threads
<1>2. CASE queue' = <<>> /\ Sync("canceller")
  <2>1. /\ at'["reader"] = at["reader"] /\ at'["writer"] = at["writer"]
        /\ UNCHANGED <<consumed, array, out, item>>
    BY Moved DEF CancelClear, data, Procs, Threads
  <2>2. knows'["reader"] = knows["reader"] /\ Cleared'
    BY <1>2 DEF CancelClear, Sync, MemoryOK, Procs, Threads, Cleared, BaseInv, FlagOK
  <2>3. at["writer"] = "write" => array[item["writer"]] = Len(out) + 1
    BY DEF CopyOK, ClearedOK, NextChunks, Live
  <2>4. ASSUME "canceled" \in knows["reader"] PROVE at["reader"] \notin {"read", "put"}
    BY <2>4 DEF CopyOK, ClearedOK, BaseInv, FlagOK, Threads
  <2>5. ASSUME at["reader"] \in Filling, "canceled" \notin knows["reader"], at["writer"] = "write"
        PROVE  item["writer"] # item["reader"]
    <3>1. at["reader"] # "off" /\ at["reader"] # "over"
      BY <2>5 DEF BaseInv, StartOK, Filling
    <3>. QED BY <2>5, <3>1, RingApart DEF CopyOK, ClearedOK
  <2>6. ClearedOK'
    BY <1>2, <2>1, <2>2, <2>3, <2>4, <2>5 DEF ClearedOK
  <2>. QED BY <2>1, <2>2, <2>6 DEF CopyOK, Written
<1>. QED BY <1>1, <1>2 DEF CancelClear

LEMMA CopyNext ==
  ASSUME BaseInv, FlagKept, CopyOK, Next
  PROVE  CopyOK'
<1>. TypeOK /\ MemoryOK
  BY TypeParts DEF BaseInv
<1>1. CASE Prepare
  <2>1. queue = <<>>
    BY <1>1 DEF Prepare, BaseInv, StartOK
  <2>. QED BY <1>1, <2>1, CopyFrame, Moved DEF Prepare, data, memory, Procs, Threads
<1>2. CASE Await
  BY <1>2, CopyFrame, Moved DEF Await, data, memory, Procs, Threads
<1>3. ASSUME NEW t \in Threads, Assign(t) PROVE CopyOK'
  BY <1>3, CopyFrame, Moved DEF Assign, data, memory, Procs, Threads
<1>4. ASSUME NEW t \in Threads, StartThread(t) PROVE CopyOK'
  <2>1. at["reader"] = "off"
    BY <1>4 DEF StartThread, BaseInv, StartOK
  <2>2. CASE t = "writer"
    <3>1. at["writer"] = "off"
      BY <1>4, <2>2 DEF StartThread, BaseInv, StartOK
    <3>. QED BY <1>4, <2>1, <2>2, <3>1, CopyFrame DEF StartThread, data, TypeOK, MemoryOK, Procs, Threads
  <2>3. CASE t = "reader"
    BY <1>4, <2>1, <2>3, CopyFrame DEF StartThread, data, TypeOK, MemoryOK, Procs, Threads
  <2>. QED BY <2>2, <2>3 DEF Threads
<1>5. CASE ReaderLoop
  <2>1. at'["reader"] = "read" => "canceled" \notin knows["reader"]
    BY <1>5, FlagSeen, Moved DEF ReaderLoop, Procs, Threads
  <2>. QED BY <1>5, <2>1, CopyFrame, Moved DEF ReaderLoop, data, memory, Procs, Threads, Filling
<1>6. CASE ReaderEnded
  BY <1>6, CopyFrame, Moved DEF ReaderEnded, data, memory, Procs, Threads, Filling
<1>7. CASE WriterLoop
  BY <1>7, CopyFrame, Moved DEF WriterLoop, data, memory, Procs, Threads, Live
<1>8. ASSUME NEW t \in Threads, Catch(t) PROVE CopyOK'
  BY <1>8, CopyFrame, Moved DEF Catch, data, MemoryOK, Procs, Threads, Live, Filling
<1>9. ASSUME NEW p \in Procs \ {"caller"}, NEW t \in Threads, Test(p, t) PROVE CopyOK'
  BY <1>9, CopyFrame, Moved DEF Test, data, memory, Procs, Threads, Live, Filling
<1>10. ASSUME NEW p \in Procs \ {"caller"}, NEW t \in Threads, Interrupt(p, t) \/ Forget(p, t) PROVE CopyOK'
  BY <1>10, CopyFrame, Moved DEF Interrupt, Forget, data, memory, Procs, Threads, Live, Filling
<1>11. CASE CancelBegin
  BY <1>11, CopyFrame, Moved DEF CancelBegin, data, MemoryOK, Procs, Threads
<1>. QED BY Steps, ReadCopy, PutCopy, PutEofCopy, TakeCopy, WriteCopy, ClearCopy,
            <1>1, <1>2, <1>3, <1>4, <1>5, <1>6, <1>7, <1>8, <1>9, <1>10, <1>11

LEMMA CopyAlways == Spec => [](BaseInv /\ (FlagKept => CopyOK))
<1>1. Init => BaseInv /\ (FlagKept => CopyOK)
  <2>1. ASSUME Init PROVE CopyOK
    BY <2>1, BoundsAssumption DEF Init, CopyOK, Written, Cleared, RingOK, NextChunks, Ahead, Hold,
       Procs, Threads, Filling
  <2>. QED BY <2>1, BaseInit
<1>2. BaseInv /\ (FlagKept => CopyOK) /\ [Next]_vars => (BaseInv /\ (FlagKept => CopyOK))'
  <2>. SUFFICES ASSUME BaseInv, FlagKept => CopyOK, [Next]_vars, FlagKept' PROVE CopyOK'
    BY BaseNext
  <2>1. CASE Next
    BY <2>1, FlagBack, CopyNext
  <2>2. CASE UNCHANGED vars
    <3>1. FlagKept
      BY <2>2 DEF vars, FlagKept
    <3>. QED BY <2>2, <3>1 DEF vars, CopyOK, Written, Cleared, ClearedOK, RingOK, NextChunks, Ahead, Hold
  <2>. QED BY <2>1, <2>2
<1>. QED BY <1>1, <1>2, PTL DEF Spec

\* The buffer that is being filled is never one that waits or is being written,
\* although cancel() empties the queue without stopping anybody: StreamParallelCopier
\* sizes the ring by the queue plus one buffer per thread.
THEOREM RingHolds == Spec => []BuffersApart
<1>1. BaseInv /\ (FlagKept => CopyOK) => BuffersApart
  <2>. SUFFICES ASSUME BaseInv, CopyOK, at["reader"] \in {"read", "put"}
                PROVE  /\ \A i \in DOMAIN queue : queue[i] # item["reader"]
                       /\ at["writer"] = "write" => item["writer"] # item["reader"]
    BY DEF BuffersApart
  <2>1. CASE Cleared
    BY <2>1 DEF CopyOK, ClearedOK, Filling
  <2>2. CASE ~Cleared
    BY <2>2, RingApart DEF CopyOK, Filling
  <2>. QED BY <2>1, <2>2
<1>. QED BY <1>1, CopyAlways, PTL

\* The output is always the first chunks in their order, unless startAndWait reset
\* the flag of a cancel() that overlapped its start.
THEOREM OutputIsPrefix == Spec => []NoHoles
<1>1. BaseInv /\ (FlagKept => CopyOK) => NoHoles
  BY DEF NoHoles, CopyOK, Written
<1>. QED BY <1>1, CopyAlways, PTL

-----------------------------------------------------------------------------
(* The end, and the refinement of Relay.                                   *)

\* Without a cancel() nothing is cleared and the chunks are counted.
LEMMA Calm ==
  ASSUME BaseInv, FlagKept => CopyOK, Undisturbed
  PROVE  /\ ~Cleared /\ (at["writer"] \in Live => NextChunks)
         /\ "finished" \in flags => \A t \in Threads : at[t] = "over"
         /\ \A t \in Threads : at[t] \notin Handing
BY DEF Undisturbed, BaseInv, FlagOK, FlagKept, CopyOK

LEMMA EndFrame ==
  ASSUME EndOK, UNCHANGED <<data, queue>>,
         \/ at'["writer"] = at["writer"] \/ at'["writer"] \notin Live \cup {"over"}
         \/ at["writer"] \in {"off", "loop"} /\ at'["writer"] \in {"loop", "take"},
         at'["reader"] = at["reader"] \/ at'["reader"] \notin {"ended", "put_eof", "over"},
         at["reader"] # "over" \/ at'["reader"] = at["reader"]
  PROVE  EndOK'
<1>1. at'["writer"] \in Live => at["writer"] \in Live /\ Ahead' = Ahead
  BY DEF Live, Ahead, Hold, data
<1>2. at'["writer"] = "over" => at["writer"] = "over"
  BY DEF Live
<1>. QED BY <1>1, <1>2 DEF EndOK, data

\* A cancel() and an exception stay.
LEMMA Disturbed ==
  ASSUME BaseInv, Next, Undisturbed'
  PROVE  Undisturbed
<1>. TypeOK /\ FieldsOK
  BY TypeParts DEF BaseInv
<1>. USE DEF Undisturbed, FieldsOK
<1>1. CASE Prepare \/ Await \/ ReaderLoop \/ ReaderRead \/ ReaderEnded \/ WriterLoop \/ WriterWrite
  BY <1>1, Moved DEF Prepare, Await, ReaderLoop, ReaderRead, ReaderEnded, WriterLoop, WriterWrite,
     fields, Procs, Threads
<1>2. CASE ReaderPut \/ ReaderPutEof \/ WriterTake
  BY <1>2, Moved DEF ReaderPut, ReaderPutEof, WriterTake, Interrupted, fields, Procs, Threads
<1>3. ASSUME NEW t \in Threads, Assign(t) \/ Catch(t) PROVE Undisturbed
  BY <1>3, Moved DEF Assign, Catch, fields, Procs, Threads
<1>4. ASSUME NEW t \in Threads, StartThread(t) PROVE Undisturbed
  BY <1>4 DEF StartThread, TypeOK, fields, Procs, Threads
<1>5. ASSUME NEW p \in Procs \ {"caller"}, NEW t \in Threads, Test(p, t) \/ Interrupt(p, t) \/ Forget(p, t)
      PROVE  Undisturbed
  BY <1>5, Moved DEF Test, Interrupt, Forget, fields, Procs, Threads, Handing
<1>6. CASE CancelBegin \/ CancelClear
  BY <1>6, Moved DEF CancelBegin, CancelClear, fields, Procs, Threads
<1>. QED BY Steps, <1>1, <1>2, <1>3, <1>4, <1>5, <1>6

\* A thread that ends in calm has seen the end of the input, or its marker.
LEMMA EndNext ==
  ASSUME BaseInv, FlagKept => CopyOK, Undisturbed, EndOK, Next, Undisturbed'
  PROVE  EndOK'
<1>. TypeOK /\ DataOK /\ ~Cleared /\ (at["writer"] \in Live => NextChunks)
  BY Calm, TypeParts DEF BaseInv
<1>1. at["reader"] # "over" \/ at["writer"] # "over" => ~MaySee("finished")
  BY Calm DEF MaySee, Threads
<1>3. CASE Prepare \/ Await
  <2>1. queue' = queue
    BY <1>3 DEF Prepare, Await, BaseInv, StartOK
  <2>. QED BY <1>3, <2>1, EndFrame, Moved DEF Prepare, Await, data, Procs, Threads
<1>4. ASSUME NEW t \in Threads, Assign(t) PROVE EndOK'
  BY <1>4, EndFrame, Moved DEF Assign, data, Procs, Threads
<1>5. ASSUME NEW t \in Threads, StartThread(t) PROVE EndOK'
  <2>1. at["reader"] = "off" /\ (t = "writer" => at["writer"] = "off")
    BY <1>5 DEF StartThread, BaseInv, StartOK
  <2>2. CASE t = "writer"
    BY <1>5, <2>1, <2>2, EndFrame DEF StartThread, data, TypeOK, Procs, Threads
  <2>3. CASE t = "reader"
    BY <1>5, <2>1, <2>3, EndFrame DEF StartThread, data, TypeOK, Procs, Threads
  <2>. QED BY <2>2, <2>3 DEF Threads
<1>6. CASE ReaderLoop
  BY <1>1, <1>6, EndFrame, Moved DEF ReaderLoop, data, Procs, Threads, ThreadLabels
<1>7. CASE ReaderRead
  <2>1. at["reader"] = "read" /\ at'["writer"] = at["writer"] /\ at["writer"] # "over"
        /\ UNCHANGED <<queue, out>>
    BY <1>7, Moved DEF ReaderRead, Procs, Threads, EndOK
  <2>2. at'["reader"] \in {"put", "catch"} \/ (at'["reader"] = "ended" /\ consumed' = N)
    BY <1>7, Moved DEF ReaderRead, Procs, Threads
  <2>. QED BY <2>1, <2>2 DEF EndOK
<1>8. CASE ReaderPut
  <2>1. at["reader"] = "put" /\ at'["writer"] = at["writer"] /\ at["writer"] # "over"
        /\ at'["reader"] \in {"loop", "catch"}
    BY <1>8, Moved DEF ReaderPut, Interrupted, Procs, Threads, EndOK
  <2>. QED BY <2>1 DEF EndOK
<1>9. CASE ReaderEnded
  <2>1. at["reader"] = "ended" /\ at'["writer"] = at["writer"] /\ at["writer"] # "over"
        /\ at'["reader"] = "put_eof" /\ UNCHANGED consumed
    BY <1>1, <1>9, Moved DEF ReaderEnded, data, Procs, Threads, ThreadLabels, EndOK
  <2>. QED BY <2>1 DEF EndOK
<1>10. CASE ReaderPutEof
  <2>1. CASE Interrupted("reader")
    BY <1>10, <2>1, EndFrame, Moved DEF ReaderPutEof, Interrupted, data, Procs, Threads
  <2>2. CASE queue' = Append(queue, Eof) /\ Goto("reader", "over")
    <3>1. /\ at["reader"] = "put_eof" /\ at'["writer"] = at["writer"] /\ at["writer"] # "over"
          /\ UNCHANGED <<consumed, out>> /\ consumed = N
      BY <1>10, <2>2, Moved DEF ReaderPutEof, Interrupted, data, Procs, Threads, EndOK
    <3>2. /\ Append(queue, Eof)[Len(queue) + 1] = Eof /\ Append(queue, Eof) # <<>>
          /\ Len(Append(queue, Eof)) = Len(queue) + 1
      BY Appended DEF DataOK
    <3>3. at["writer"] \in Live => consumed' = Ahead' + Len(queue) /\ Ahead \in Nat /\ Len(queue) \in Nat
      BY <3>1 DEF NextChunks, Ahead, Hold, DataOK
    <3>. QED BY <2>2, <3>1, <3>2, <3>3 DEF EndOK, Ahead, Hold
  <2>. QED BY <1>10, <2>1, <2>2 DEF ReaderPutEof
<1>11. CASE WriterLoop
  BY <1>1, <1>11, EndFrame, Moved DEF WriterLoop, data, Procs, Threads, Live
<1>12. CASE WriterTake
  <2>1. CASE Interrupted("writer")
    BY <2>1, EndFrame, Moved DEF Interrupted, data, Procs, Threads, Live
  <2>2. CASE ~Interrupted("writer")
    <3>1. /\ queue # <<>> /\ queue' = Tail(queue) /\ at["writer"] = "take"
          /\ at'["reader"] = at["reader"] /\ at'["writer"] \in {"over", "catch", "write"}
          /\ at'["writer"] = "over" => Head(queue) = Eof
          /\ at'["writer"] = "write" => Head(queue) # Eof
          /\ UNCHANGED <<consumed, array, out>>
      BY <1>12, <2>2, Moved DEF WriterTake, data, Procs, Threads
    <3>2. /\ Head(queue) = queue[1] /\ Len(queue) \in Nat \ {0} /\ Len(queue') = Len(queue) - 1
          /\ DOMAIN queue = 1 .. Len(queue) /\ DOMAIN queue' = 1 .. Len(queue) - 1
          /\ queue' \in Seq(Slots \cup {Eof})
          /\ \A i \in DOMAIN queue' : queue'[i] = queue[i + 1]
      BY <3>1, Headed DEF DataOK
    <3>3. Len(out) \in Nat /\ Ahead = Len(out)
      BY <3>1 DEF DataOK, Ahead, Hold
    <3>4. CASE at'["writer"] = "over"
      <4>1. Len(queue) = 1 /\ at["reader"] = "over"
        BY <3>1, <3>2, <3>4 DEF BaseInv, HandedOK
      <4>. QED BY <3>1, <3>3, <3>4, <4>1 DEF EndOK, Live
    <3>5. CASE at'["writer"] = "write"
      <4>1. Ahead' = Len(out) + 1
        BY <3>1, <3>3, <3>5 DEF Ahead, Hold
      <4>2. ASSUME at["reader"] = "over"
            PROVE  queue' # <<>> /\ queue'[Len(queue')] = Eof /\ consumed = Len(out) + Len(queue) - 1
        <5>1. queue[Len(queue)] = Eof /\ consumed = Len(out) + Len(queue) - 1
          BY <3>1, <3>3, <4>2 DEF EndOK, Live
        <5>2. Len(queue) # 1
          BY <3>1, <3>2, <3>5, <5>1
        <5>3. Len(queue') \in DOMAIN queue' /\ Len(queue') + 1 = Len(queue)
          BY <3>2, <5>2
        <5>. QED BY <3>2, <5>1, <5>3
      <4>3. Len(out) + Len(queue) - 1 = Ahead' + Len(queue') - 1
        BY <3>2, <3>3, <4>1
      <4>. QED BY <3>1, <3>5, <4>2, <4>3 DEF EndOK
    <3>6. CASE at'["writer"] = "catch"
      BY <3>1, <3>6 DEF EndOK, Live
    <3>. QED BY <3>1, <3>4, <3>5, <3>6
  <2>. QED BY <2>1, <2>2
<1>13. CASE WriterWrite
  <2>1. /\ at["writer"] = "write" /\ at'["reader"] = at["reader"]
        /\ at'["writer"] \in {"loop", "catch"} /\ UNCHANGED <<consumed, queue>>
        /\ at'["writer"] = "loop" => out' = Append(out, array[item["writer"]])
    BY <1>13, Moved DEF WriterWrite, Procs, Threads
  <2>2. array[item["writer"]] \in 0 .. N
    BY <2>1 DEF DataOK, BaseInv, HandedOK
  <2>3. at'["writer"] = "loop" => Ahead' = Ahead
    BY <2>1, <2>2 DEF Ahead, Hold, DataOK
  <2>. QED BY <2>1, <2>3 DEF EndOK, Live
<1>14. ASSUME NEW t \in Threads, Catch(t) PROVE EndOK'
  <2>1. at[t] = "catch" /\ "finished" \notin flags /\ exception' = TRUE
    BY <1>14, Calm DEF Catch, Threads
  <2>. QED BY <2>1 DEF Undisturbed
<1>15. ASSUME NEW p \in Procs \ {"caller"}, NEW t \in Threads, Test(p, t) \/ Interrupt(p, t) \/ Forget(p, t)
      PROVE  EndOK'
  BY <1>15, Calm DEF Test, Interrupt, Forget, Procs, Threads, Handing, Undisturbed
<1>16. CASE CancelBegin \/ CancelClear
  BY <1>16, Moved DEF CancelBegin, CancelClear, Undisturbed, Procs, Threads
<1>. QED BY Steps, <1>3, <1>4, <1>5, <1>6, <1>7, <1>8, <1>9, <1>10, <1>11, <1>12, <1>13, <1>14, <1>15, <1>16

LEMMA EndAlways == Spec => []EInv
<1>1. Init => EndOK
  BY DEF Init, EndOK, Procs, Threads
<1>2. BaseInv /\ (FlagKept => CopyOK) /\ (Undisturbed => EndOK) /\ [Next]_vars
        => (Undisturbed => EndOK)'
  <2>. SUFFICES ASSUME BaseInv, FlagKept => CopyOK, Undisturbed => EndOK, [Next]_vars, Undisturbed'
                PROVE  EndOK'
    OBVIOUS
  <2>1. CASE Next
    BY <2>1, Disturbed, EndNext
  <2>2. CASE UNCHANGED vars
    BY <2>2 DEF vars, Undisturbed, EndOK, Ahead, Hold
  <2>. QED BY <2>1, <2>2
<1>. QED BY <1>1, <1>2, CopyAlways, PTL DEF Spec, EInv

Status == IF at["caller"] \in {"returned", "threw"} THEN at["caller"] ELSE "running"
Stopped == at["canceller"] # "off"

\* A normal return that nobody disturbed has written every chunk.
LEMMA AwaitRefines ==
  ASSUME EInv, Await
  PROVE  R!Return \/ R!Throw
<1>1. /\ at["caller"] = "await" /\ at["reader"] = "over" /\ at["writer"] = "over"
      /\ at'["canceller"] = at["canceller"] /\ UNCHANGED out
      /\ at'["caller"] = IF exception THEN "threw" ELSE "returned"
  BY Moved DEF EInv, BaseInv, Await, data, Procs, Threads
<1>2. CASE exception
  BY <1>1, <1>2 DEF R!Throw
<1>3. CASE ~exception
  <2>1. ASSUME at["canceller"] = "off" PROVE out = [i \in 1 .. N |-> i]
    <3>1. Len(out) = N
      BY <1>1, <1>3, <2>1 DEF EInv, Undisturbed, EndOK
    <3>. QED BY <2>1, <3>1 DEF EInv, FlagKept, CopyOK, Written
  <2>. QED BY <1>1, <1>3, <2>1 DEF R!Return, R!Whole
<1>. QED BY <1>2, <1>3

\* A chunk is written while startAndWait runs; it is the next one, or a cancel() came.
LEMMA WriteRefines ==
  ASSUME EInv, WriterWrite
  PROVE  UNCHANGED <<out, Status, Stopped>> \/ \E c \in 1 .. N : R!Pass(c)
<1>1. TypeOK /\ DataOK /\ at["writer"] = "write"
  BY TypeParts DEF EInv, BaseInv, WriterWrite
<1>2. at'["caller"] = at["caller"] /\ at'["canceller"] = at["canceller"]
  BY <1>1, Moved DEF WriterWrite, Procs, Threads
<1>3. CASE UNCHANGED out
  BY <1>2, <1>3 DEF Status, Stopped
<1>4. CASE out' = Append(out, array[item["writer"]])
  <2>1. array[item["writer"]] \in 1 .. N
    <3>1. item["writer"] \in Slots /\ array[item["writer"]] # 0
      BY <1>1 DEF EInv, BaseInv, HandedOK
    <3>. QED BY <1>1, <3>1, BoundsAssumption DEF DataOK
  <2>2. at["caller"] \notin {"returned", "threw"}
    BY <1>1 DEF EInv, BaseInv, StartOK, Threads
  <2>3. ASSUME at["canceller"] = "off" PROVE array[item["writer"]] = R!Last + 1
    <3>1. CopyOK /\ ~Cleared
      BY <2>3 DEF EInv, FlagKept, BaseInv, FlagOK
    <3>2. array[item["writer"]] = Len(out) + 1
      BY <1>1, <3>1 DEF CopyOK, NextChunks, Live
    <3>3. R!Last = Len(out)
      BY <1>1, <3>1 DEF R!Last, CopyOK, Written, DataOK
    <3>. QED BY <3>2, <3>3
  <2>. QED BY <1>2, <1>4, <2>1, <2>2, <2>3 DEF R!Pass
<1>. QED BY <1>3, <1>4 DEF WriterWrite

LEMMA RelayStep ==
  ASSUME EInv, Next
  PROVE  R!Next \/ UNCHANGED <<out, Status, Stopped>>
<1>. TypeOK
  BY DEF EInv, BaseInv
<1>. USE DEF Status, Stopped, data, Procs, Threads
<1>1. CASE Await
  BY <1>1, AwaitRefines DEF R!Next
<1>2. CASE WriterWrite
  BY <1>2, WriteRefines DEF R!Next
<1>3. CASE CancelBegin
  BY <1>3, Moved DEF CancelBegin, R!Next, R!Stop
<1>4. ASSUME NEW t \in Threads, StartThread(t) PROVE R!Next \/ UNCHANGED <<out, Status, Stopped>>
  <2>1. CASE at'["caller"] = "threw"
    BY <1>4, <2>1 DEF StartThread, TypeOK, R!Next, R!Throw
  <2>2. CASE at'["caller"] # "threw"
    BY <1>4, <2>2 DEF StartThread, TypeOK
  <2>. QED BY <2>1, <2>2
<1>5. CASE Prepare
  BY <1>5, Moved DEF Prepare
<1>6. ASSUME NEW t \in Threads, Assign(t) \/ Catch(t) PROVE UNCHANGED <<out, Status, Stopped>>
  BY <1>6, Moved DEF Assign, Catch
<1>7. CASE ReaderLoop \/ ReaderRead \/ ReaderEnded \/ WriterLoop
  BY <1>7, Moved DEF ReaderLoop, ReaderRead, ReaderEnded, WriterLoop
<1>8. CASE ReaderPut \/ ReaderPutEof \/ WriterTake
  BY <1>8, Moved DEF ReaderPut, ReaderPutEof, WriterTake, Interrupted
<1>9. ASSUME NEW p \in Procs \ {"caller"}, NEW t \in Threads, Test(p, t) \/ Interrupt(p, t) \/ Forget(p, t)
      PROVE  UNCHANGED <<out, Status, Stopped>>
  BY <1>9, Moved DEF Test, Interrupt, Forget, Handing
<1>10. CASE CancelClear
  BY <1>10, Moved DEF CancelClear
<1>. QED BY Steps, <1>1, <1>2, <1>3, <1>4, <1>5, <1>6, <1>7, <1>8, <1>9, <1>10

\* StreamParallelCopier implements Relay: what comes out is what went in, in order,
\* and a normal return without a cancel() means all of it, for every number of
\* chunks, buffers and failing reads and writes.
THEOREM ImplementsTheRelay == Spec => ImplementsRelay
<1>1. Init => R!Init
  BY DEF Init, R!Init, Procs
<1>2. EInv /\ [Next]_vars => [R!Next]_<<out, Status, Stopped>>
  <2>1. UNCHANGED vars => UNCHANGED <<out, Status, Stopped>>
    BY DEF vars, Status, Stopped
  <2>. QED BY <2>1, RelayStep
<1>. QED BY <1>1, <1>2, EndAlways, PTL DEF Spec, ImplementsRelay, R!Spec, Status, Stopped
=============================================================================
