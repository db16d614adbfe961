-------------------------- MODULE RecordWriterProofs --------------------------
(***************************************************************************)
(* RecordWriter for every set of hours, queue capacity, batch size and     *)
(* number of calls: no call of write() is lost or counted twice, no header *)
(* ever announces more records than its file holds, the files implement    *)
(* the durable log of DurableLog, each of them follows the calls that were *)
(* accepted, and a close without an error has written all of them.         *)
(***************************************************************************)
EXTENDS RecordWriter, SequenceTheorems, TLAPS

(* Where the threads are and what they hold: a batch is complete when its
   header is persisted, the worker only opens a file for a record it has, and
   nothing is queued once the worker has left. *)
ControlInv ==
    /\ worker = "persist" => done = Len(batch)
    /\ worker \in {"roll", "create", "repair"} => done < Len(batch)
    /\ worker = "exited" => ~running /\ queue = <<>>
    /\ owner \in {"final", "closed"} => worker = "none" /\ ~running /\ queue = <<>>
    /\ worker \in {"create", "repair"} => current = NoFile
    /\ owner = "closed" => current = NoFile

(* The header is flushed before any record. *)
EmptyUntilFlushed == \A h \in Hours : disk[h].kind # "ok" => disk[h].recs = <<>>

(* The stream and the file under it: file_record_count_ counts what the file
   and the buffer hold together until an I/O failure. *)
StreamInv ==
    /\ current = NoFile => buffer = <<>>
    /\ phase = "count" => Persisting /\ buffer = <<>> /\ current # NoFile /\ ~writeError
    /\ current # NoFile /\ ~writeError /\ worker # "fail" =>
          fileCount = Len(disk[current].recs) + Len(buffer)
    /\ EmptyUntilFlushed

WriterInv == TypeOK /\ ControlInv /\ Accounting /\ StreamInv /\ HeaderNeverOverstates

-------------------------------------------------------------------------------
(* Sequences *)

(* Cutting a sequence after its first k elements keeps all of them. *)
LEMMA Cut ==
    ASSUME NEW S, NEW s \in Seq(S), NEW k \in 0..Len(s)
    PROVE  /\ SubSeq(s, 1, k) \in Seq(S) /\ Len(SubSeq(s, 1, k)) = k
           /\ SubSeq(s, k + 1, Len(s)) \in Seq(S)
           /\ Len(SubSeq(s, k + 1, Len(s))) = Len(s) - k
OBVIOUS

(* The lengths of two sequences put together. *)
LEMMA Joined ==
    ASSUME NEW S, NEW s \in Seq(S), NEW t \in Seq(S)
    PROVE  s \o t \in Seq(S) /\ Len(s \o t) = Len(s) + Len(t)
OBVIOUS

(* A flush of the first k records of b into file f. *)
LEMMA FlushedFile ==
    ASSUME NEW f \in File, NEW b \in Seq(Record), NEW k \in 0..Len(b), NEW t \in BOOLEAN
    PROVE  /\ Flushed(f, b, k, t) \in File
           /\ Flushed(f, b, k, t).kind = "ok"
           /\ Flushed(f, b, k, t).count = f.count
           /\ Len(Flushed(f, b, k, t).recs) = Len(f.recs) + k
  <1>1. f.recs \in Seq(Record) /\ f.count \in Nat
    BY DEF File
  <1>2. SubSeq(b, 1, k) \in Seq(Record) /\ Len(SubSeq(b, 1, k)) = k
    BY Cut
  <1>3. /\ f.recs \o SubSeq(b, 1, k) \in Seq(Record)
        /\ Len(f.recs \o SubSeq(b, 1, k)) = Len(f.recs) + k
    BY <1>1, <1>2, Joined
  <1> DEFINE r == f.recs \o SubSeq(b, 1, k)
  <1>4. Flushed(f, b, k, t) = [f EXCEPT !.kind = "ok", !.torn = t, !.recs = r]
    BY DEF Flushed
  <1> HIDE DEF r
  <1>5. r \in Seq(Record) /\ Len(r) = Len(f.recs) + k
    BY <1>3 DEF r
  <1> QED BY <1>4, <1>5 DEF File

(* Writing records to a file leaves the directory sound. *)
LEMMA FlushEffect ==
    ASSUME FileType, EmptyUntilFlushed, HeaderNeverOverstates,
           NEW h \in Hours, NEW b \in Seq(Record), NEW k \in 0..Len(b), NEW t \in BOOLEAN,
           disk' = [disk EXCEPT ![h] = Flushed(@, b, k, t)]
    PROVE  /\ disk' \in [Hours -> File]
           /\ EmptyUntilFlushed' /\ HeaderNeverOverstates'
           /\ Len(disk'[h].recs) = Len(disk[h].recs) + k
  <1>1. disk \in [Hours -> File] /\ disk[h] \in File
    BY DEF FileType
  <1> DEFINE f == Flushed(disk[h], b, k, t)
  <1>2. /\ f \in File /\ f.kind = "ok" /\ f.count = disk[h].count
        /\ Len(f.recs) = Len(disk[h].recs) + k
    BY <1>1, FlushedFile
  <1>3. disk' = [disk EXCEPT ![h] = f]
    OBVIOUS
  <1>4. disk[h].count \in Nat /\ Len(disk[h].recs) \in Nat
    BY <1>1, LenProperties DEF File
  <1> HIDE DEF f
  <1>5. disk' \in [Hours -> File] /\ Len(disk'[h].recs) = Len(disk[h].recs) + k
    BY <1>1, <1>2, <1>3
  <1>6. EmptyUntilFlushed'
    BY <1>1, <1>2, <1>3 DEF EmptyUntilFlushed
  <1>7. HeaderNeverOverstates'
    BY <1>1, <1>2, <1>3, <1>4 DEF HeaderNeverOverstates
  <1> QED BY <1>5, <1>6, <1>7

(* So does losing the buffer on the way. *)
LEMMA LoseEffect ==
    ASSUME FileType, EmptyUntilFlushed, HeaderNeverOverstates,
           current \in Hours, NEW b \in Seq(Record), LoseBuffer(b)
    PROVE  /\ disk' \in [Hours -> File]
           /\ EmptyUntilFlushed' /\ HeaderNeverOverstates'
           /\ buffer' = <<>>
  <1>1. CASE UNCHANGED disk
    BY <1>1 DEF LoseBuffer, FileType, EmptyUntilFlushed, HeaderNeverOverstates
  <1>2. CASE \E o \in FlushOutcomes(b) :
                disk' = [disk EXCEPT ![current] = Flushed(@, b, o.k, o.t)]
    <2> PICK o \in FlushOutcomes(b) :
                disk' = [disk EXCEPT ![current] = Flushed(@, b, o.k, o.t)]
      BY <1>2
    <2>1. o.k \in 0..Len(b) /\ o.t \in BOOLEAN
      BY DEF FlushOutcomes
    <2> QED BY <2>1, FlushEffect DEF LoseBuffer
  <1> QED BY <1>1, <1>2 DEF LoseBuffer

-------------------------------------------------------------------------------
(* The initial state satisfies the invariant. *)
LEMMA InitInv == Init => WriterInv
  <1> SUFFICES ASSUME Init PROVE WriterInv
    OBVIOUS
  <1>0. <<>> \in Seq(Record) /\ Len(<<>>) = 0
    BY EmptySeq
  <1>1. TypeOK
    <2>1. QueueType
      BY <1>0, CapacityAssumption DEF Init, QueueType
    <2>2. FlagType
      BY DEF Init, FlagType
    <2>3. CounterType
      BY BoundAssumption DEF Init, CounterType
    <2>4. ThreadType
      BY <1>0 DEF Init, ThreadType, WorkerPC, OwnerPC
    <2>5. NoRecords \in File
      BY <1>0 DEF NoRecords, File
    <2>6. FileType
      BY <1>0, <2>5 DEF Init, FileType
    <2> QED BY <2>1, <2>2, <2>3, <2>4, <2>6 DEF TypeOK
  <1>2. ControlInv /\ Accounting
    BY DEF Init, ControlInv, Accounting, InFlight
  <1>3. StreamInv /\ HeaderNeverOverstates
    BY DEF Init, StreamInv, EmptyUntilFlushed, HeaderNeverOverstates, NoRecords
  <1> QED BY <1>1, <1>2, <1>3 DEF WriterInv

(* What the lengths are. *)
LEMMA Lengths ==
    ASSUME TypeOK
    PROVE  /\ Len(queue) \in Nat /\ Len(batch) \in Nat /\ Len(buffer) \in Nat
           /\ done \in Nat /\ done <= Len(batch) /\ Len(queue) <= Capacity
           /\ Len(<<>>) = 0 /\ (queue = <<>> <=> Len(queue) = 0)
  <1>1. Len(queue) \in Nat /\ Len(batch) \in Nat /\ Len(buffer) \in Nat
    BY LenProperties DEF TypeOK, QueueType, ThreadType, FileType
  <1>2. done \in Nat /\ done <= Len(batch)
    BY <1>1 DEF TypeOK, ThreadType
  <1>3. Len(queue) <= Capacity
    BY <1>1, CapacityAssumption DEF TypeOK, QueueType
  <1>4. Len(<<>>) = 0 /\ (queue = <<>> <=> Len(queue) = 0)
    BY <1>1, EmptySeq DEF TypeOK, QueueType
  <1> QED BY <1>1, <1>2, <1>3, <1>4

(* The record the worker is at belongs to an hour. *)
LEMMA NextHourType ==
    ASSUME TypeOK, done < Len(batch)
    PROVE  batch[done + 1] \in Record /\ NextHour \in Hours
  <1>1. done + 1 \in 1..Len(batch)
    BY Lengths
  <1>2. batch[done + 1] \in Record
    BY <1>1, ElementOfSeq DEF TypeOK, ThreadType
  <1> QED BY <1>2 DEF NextHour, Record

(* When the batch loop ends in a failure, the records before it move from the
   batch to records_written_ and the others stay the worker's. *)
LEMMA LoopFailsCounts ==
    ASSUME TypeOK, Accounting, worker \in {"write", "roll", "create", "repair"},
           LoopFails, UNCHANGED <<queue, batch, done, dropped, calls, refused>>
    PROVE  Accounting' /\ written' \in Nat
  <1>1. InFlight = Len(batch) /\ InFlight' = Len(batch) - done
    BY DEF InFlight, LoopFails
  <1>2. /\ written \in Nat /\ dropped \in Nat /\ refused \in Nat
        /\ Len(queue) \in Nat /\ Len(batch) \in Nat /\ done \in Nat /\ done <= Len(batch)
    BY Lengths DEF TypeOK, CounterType
  <1>3. /\ written' = written + done
        /\ UNCHANGED <<queue, dropped, calls, refused>>
    BY DEF LoopFails
  <1>4. calls = written + dropped + Len(queue) + Len(batch) + refused
    BY <1>1 DEF Accounting
  <1>5. calls' = written' + dropped' + Len(queue') + InFlight' + refused'
    BY <1>1, <1>2, <1>3, <1>4
  <1> QED BY <1>2, <1>3, <1>5 DEF Accounting

-------------------------------------------------------------------------------
(* Each action keeps the invariant. *)

USE DEF WriterInv, TypeOK, ctrl, stats, stream, thread, ghost

(* Opening a closed writer: the queue is empty, no file is open. *)
LEMMA OpenKeeps ==
    ASSUME WriterInv, Open
    PROVE  WriterInv'
  <1>1. QueueType' /\ CounterType' /\ FileType'
    BY EmptySeq, BoundAssumption, CapacityAssumption, Lengths DEF QueueType,
       CounterType, FileType, ThreadType, ControlInv, Open
  <1>2. FlagType'
    BY DEF FlagType, Open
  <1>3. ThreadType'
    BY EmptySeq DEF ThreadType, WorkerPC, OwnerPC, Open
  <1>4. ControlInv'
    BY DEF ThreadType, ControlInv, Open
  <1>5. Accounting'
    BY Lengths DEF CounterType, ControlInv, Accounting, InFlight, Open
  <1>6. StreamInv' /\ HeaderNeverOverstates'
    BY DEF ControlInv, StreamInv, EmptyUntilFlushed, HeaderNeverOverstates, Persisting,
       Open
  <1> QED BY <1>1, <1>2, <1>3, <1>4, <1>5, <1>6

(* Closing only turns the flags. *)
LEMMA CloseKeeps ==
    ASSUME WriterInv, Close
    PROVE  WriterInv'
  <1>1. QueueType' /\ CounterType' /\ FileType'
    BY EmptySeq, BoundAssumption DEF QueueType, CounterType, FileType, ThreadType,
       ControlInv, Close
  <1>2. FlagType'
    BY DEF FlagType, Close
  <1>3. ThreadType'
    BY EmptySeq DEF ThreadType, WorkerPC, OwnerPC, Close
  <1>4. ControlInv'
    BY DEF ThreadType, ControlInv, Close
  <1>5. Accounting'
    BY Lengths DEF CounterType, ControlInv, Accounting, InFlight, Close
  <1>6. StreamInv' /\ HeaderNeverOverstates'
    BY DEF ControlInv, StreamInv, EmptyUntilFlushed, HeaderNeverOverstates, Persisting,
       Close
  <1> QED BY <1>1, <1>2, <1>3, <1>4, <1>5, <1>6

(* Waking the worker, or joining it, moves program counters. *)
LEMMA CloseNotifyKeeps ==
    ASSUME WriterInv, CloseNotify
    PROVE  WriterInv'
  <1>1. QueueType' /\ CounterType' /\ FileType'
    BY EmptySeq, BoundAssumption DEF QueueType, CounterType, FileType, ThreadType,
       ControlInv, CloseNotify, CloseNotifies, NotifyWorker
  <1>2. FlagType'
    BY DEF FlagType, CloseNotify, CloseNotifies, NotifyWorker
  <1>3. ThreadType'
    BY EmptySeq DEF ThreadType, WorkerPC, OwnerPC, CloseNotify, CloseNotifies,
       NotifyWorker
  <1>4. ControlInv'
    BY DEF ThreadType, ControlInv, CloseNotify, CloseNotifies, NotifyWorker
  <1>5. Accounting'
    BY Lengths DEF CounterType, ControlInv, Accounting, InFlight, CloseNotify,
       CloseNotifies, NotifyWorker
  <1>6. StreamInv' /\ HeaderNeverOverstates'
    BY DEF ControlInv, StreamInv, EmptyUntilFlushed, HeaderNeverOverstates, Persisting,
       CloseNotify, CloseNotifies, NotifyWorker
  <1> QED BY <1>1, <1>2, <1>3, <1>4, <1>5, <1>6

(* The worker that is joined has left an empty queue. *)
LEMMA CloseJoinKeeps ==
    ASSUME WriterInv, CloseJoin
    PROVE  WriterInv'
  <1>1. QueueType' /\ CounterType' /\ FileType'
    BY EmptySeq, BoundAssumption DEF QueueType, CounterType, FileType, ThreadType,
       ControlInv, CloseJoin
  <1>2. FlagType'
    BY DEF FlagType, CloseJoin
  <1>3. ThreadType'
    BY EmptySeq DEF ThreadType, WorkerPC, OwnerPC, CloseJoin
  <1>4. ControlInv'
    BY DEF ThreadType, ControlInv, CloseJoin
  <1>5. Accounting'
    BY Lengths DEF CounterType, ControlInv, Accounting, InFlight, CloseJoin
  <1>6. StreamInv' /\ HeaderNeverOverstates'
    BY DEF ControlInv, StreamInv, EmptyUntilFlushed, HeaderNeverOverstates, Persisting,
       CloseJoin
  <1> QED BY <1>1, <1>2, <1>3, <1>4, <1>5, <1>6

(* The notification after a push. *)
LEMMA EnqueueNotifyKeeps ==
    ASSUME WriterInv, NEW p \in Producers, EnqueueNotify(p)
    PROVE  WriterInv'
  <1>1. QueueType' /\ CounterType' /\ FileType'
    BY EmptySeq, BoundAssumption DEF QueueType, CounterType, FileType, ThreadType,
       ControlInv, EnqueueNotify, NotifyWorker
  <1>2. FlagType'
    BY DEF FlagType, EnqueueNotify, NotifyWorker
  <1>3. ThreadType'
    BY EmptySeq DEF ThreadType, WorkerPC, OwnerPC, EnqueueNotify, NotifyWorker
  <1>4. ControlInv'
    BY DEF ThreadType, ControlInv, EnqueueNotify, NotifyWorker
  <1>5. Accounting'
    BY Lengths DEF CounterType, ControlInv, Accounting, InFlight, EnqueueNotify,
       NotifyWorker
  <1>6. StreamInv' /\ HeaderNeverOverstates'
    BY DEF ControlInv, StreamInv, EmptyUntilFlushed, HeaderNeverOverstates, Persisting,
       EnqueueNotify, NotifyWorker
  <1> QED BY <1>1, <1>2, <1>3, <1>4, <1>5, <1>6

(* A spurious wakeup. *)
LEMMA SpuriousWakeupKeeps ==
    ASSUME WriterInv, SpuriousWakeup
    PROVE  WriterInv'
  <1>1. QueueType' /\ CounterType' /\ FileType'
    BY EmptySeq, BoundAssumption DEF QueueType, CounterType, FileType, ThreadType,
       ControlInv, SpuriousWakeup
  <1>2. FlagType'
    BY DEF FlagType, SpuriousWakeup
  <1>3. ThreadType'
    BY EmptySeq DEF ThreadType, WorkerPC, OwnerPC, SpuriousWakeup
  <1>4. ControlInv'
    BY DEF ThreadType, ControlInv, SpuriousWakeup
  <1>5. Accounting'
    BY Lengths DEF CounterType, ControlInv, Accounting, InFlight, SpuriousWakeup
  <1>6. StreamInv' /\ HeaderNeverOverstates'
    BY DEF ControlInv, StreamInv, EmptyUntilFlushed, HeaderNeverOverstates, Persisting,
       SpuriousWakeup
  <1> QED BY <1>1, <1>2, <1>3, <1>4, <1>5, <1>6

(* Choosing the file of the next record. *)
LEMMA ChooseFileKeeps ==
    ASSUME WriterInv, ChooseFile
    PROVE  WriterInv'
  <1>1. QueueType' /\ CounterType' /\ FileType'
    BY EmptySeq, BoundAssumption DEF QueueType, CounterType, FileType, ThreadType,
       ControlInv, ChooseFile
  <1>2. FlagType'
    BY DEF FlagType, ChooseFile
  <1>3. ThreadType'
    BY EmptySeq DEF ThreadType, WorkerPC, OwnerPC, ChooseFile
  <1>4. ControlInv'
    BY DEF ThreadType, ControlInv, ChooseFile
  <1>5. Accounting'
    BY Lengths DEF CounterType, ControlInv, Accounting, InFlight, ChooseFile
  <1>6. StreamInv' /\ HeaderNeverOverstates'
    BY DEF ControlInv, StreamInv, EmptyUntilFlushed, HeaderNeverOverstates, Persisting,
       ChooseFile
  <1> QED BY <1>1, <1>2, <1>3, <1>4, <1>5, <1>6

(* The end of a batch: all its records count as written. *)
LEMMA LoopEndsKeeps ==
    ASSUME WriterInv, LoopEnds
    PROVE  WriterInv'
  <1>1. QueueType' /\ CounterType' /\ FileType'
    BY EmptySeq, BoundAssumption DEF QueueType, CounterType, FileType, ThreadType,
       ControlInv, LoopEnds
  <1>2. FlagType'
    BY DEF FlagType, LoopEnds
  <1>3. ThreadType'
    BY EmptySeq DEF ThreadType, WorkerPC, OwnerPC, LoopEnds
  <1>4. ControlInv'
    BY DEF ThreadType, ControlInv, LoopEnds
  <1>5. Accounting'
    BY Lengths DEF CounterType, ControlInv, Accounting, InFlight, LoopEnds
  <1>6. StreamInv' /\ HeaderNeverOverstates'
    BY DEF ControlInv, StreamInv, EmptyUntilFlushed, HeaderNeverOverstates, Persisting,
       LoopEnds
  <1> QED BY <1>1, <1>2, <1>3, <1>4, <1>5, <1>6

(* The failure branch: what was not written is dropped. *)
LEMMA FailKeeps ==
    ASSUME WriterInv, Fail
    PROVE  WriterInv'
  <1>1. QueueType' /\ CounterType' /\ FileType'
    BY EmptySeq, BoundAssumption DEF QueueType, CounterType, FileType, ThreadType,
       ControlInv, Fail, LostOnFailure
  <1>2. FlagType'
    BY DEF FlagType, Fail, LostOnFailure
  <1>3. ThreadType'
    BY EmptySeq DEF ThreadType, WorkerPC, OwnerPC, Fail, LostOnFailure
  <1>4. ControlInv'
    BY DEF ThreadType, ControlInv, Fail, LostOnFailure
  <1>5. Accounting'
    <2>1. /\ dropped' = dropped + (Len(batch) - done + Len(queue))
          /\ Len(queue') = 0 /\ InFlight = Len(batch) - done /\ InFlight' = 0
          /\ UNCHANGED <<calls, written, refused>>
      BY Lengths DEF Fail, LostOnFailure, InFlight, ghost, stats
    <2>2. /\ written \in Nat /\ dropped \in Nat /\ refused \in Nat
          /\ Len(queue) \in Nat /\ Len(batch) \in Nat /\ done \in Nat
      BY Lengths DEF CounterType
    <2>3. calls' = written' + dropped' + Len(queue') + InFlight' + refused'
      BY <2>1, <2>2 DEF Accounting
    <2> QED BY <2>3 DEF Accounting
  <1>6. StreamInv' /\ HeaderNeverOverstates'
    BY DEF ControlInv, StreamInv, EmptyUntilFlushed, HeaderNeverOverstates, Persisting,
       Fail, LostOnFailure
  <1> QED BY <1>1, <1>2, <1>3, <1>4, <1>5, <1>6

(* A crash keeps only the directory. *)
LEMMA CrashKeeps ==
    ASSUME WriterInv, Crash
    PROVE  WriterInv'
  <1>1. QueueType' /\ CounterType' /\ FileType'
    BY EmptySeq, BoundAssumption, CapacityAssumption, Lengths DEF QueueType,
       CounterType, FileType, ThreadType, ControlInv, Crash
  <1>2. FlagType'
    BY DEF FlagType, Crash
  <1>3. ThreadType'
    BY EmptySeq DEF ThreadType, WorkerPC, OwnerPC, Crash
  <1>4. ControlInv'
    BY DEF ThreadType, ControlInv, Crash
  <1>5. Accounting'
    BY Lengths DEF CounterType, ControlInv, Accounting, InFlight, Crash
  <1>6. StreamInv' /\ HeaderNeverOverstates'
    BY DEF ControlInv, StreamInv, EmptyUntilFlushed, HeaderNeverOverstates, Persisting,
       Crash
  <1> QED BY <1>1, <1>2, <1>3, <1>4, <1>5, <1>6

(* A call of write() is refused, dropped or queued, and counted as such. *)
LEMMA EnqueueKeeps ==
    ASSUME WriterInv, NEW p \in Producers, NEW h \in Hours, Enqueue(p, h)
    PROVE  WriterInv'
  <1> DEFINE r == [id |-> offered + 1, hour |-> h]
  <1>0. r \in Record
    BY BoundAssumption DEF Enqueue, Record, CounterType
  <1>1. QueueType' /\ CounterType'
    <2>1. CASE UNCHANGED <<queue, depthMax, accepted>>
      BY <2>1, BoundAssumption DEF Enqueue, QueueType, CounterType
    <2>2. CASE /\ ~QueueFull /\ queue' = Append(queue, r) /\ accepted' = Append(accepted, r)
               /\ depthMax' = IF Len(queue) + 1 > depthMax THEN Len(queue) + 1
                                                          ELSE depthMax
      <3> HIDE DEF r
      <3>1. /\ queue' \in Seq(Record) /\ accepted' \in Seq(Record)
            /\ Len(queue') = Len(queue) + 1
        BY <1>0, <2>2 DEF QueueType
      <3>2. Len(queue) \in Nat /\ Len(queue) + 1 <= Capacity
        BY <2>2, Lengths, CapacityAssumption DEF QueueFull
      <3>3. QueueType'
        BY <2>2, <3>1, <3>2, CapacityAssumption DEF QueueType
      <3> QED BY <3>3, BoundAssumption DEF Enqueue, CounterType
    <2> QED BY <2>1, <2>2 DEF Enqueue
  <1>2. FlagType'
    BY DEF FlagType, Enqueue
  <1>3. ThreadType' /\ FileType'
    BY DEF ThreadType, FileType, Enqueue
  <1>4. ControlInv'
    BY DEF ControlInv, Enqueue
  <1>5. Accounting'
    <2>1. /\ calls' = calls + 1 /\ written' = written /\ InFlight' = InFlight
      BY DEF Enqueue, InFlight
    <2>2. \/ dropped' = dropped /\ refused' = refused + 1 /\ queue' = queue
          \/ dropped' = dropped + 1 /\ refused' = refused /\ queue' = queue
          \/ dropped' = dropped /\ refused' = refused /\ Len(queue') = Len(queue) + 1
      BY <1>0 DEF Enqueue, QueueType
    <2>3. /\ written \in Nat /\ dropped \in Nat /\ refused \in Nat /\ Len(queue) \in Nat
          /\ InFlight \in Int
      BY Lengths DEF CounterType, InFlight
    <2>4. calls' = written' + dropped' + Len(queue') + InFlight' + refused'
      BY <2>1, <2>2, <2>3 DEF Accounting
    <2> QED BY <2>4 DEF Accounting
  <1>6. StreamInv' /\ HeaderNeverOverstates'
    BY DEF StreamInv, EmptyUntilFlushed, HeaderNeverOverstates, Persisting, Enqueue
  <1> QED BY <1>1, <1>2, <1>3, <1>4, <1>5, <1>6

(* The worker waits, leaves, or moves records from the queue to its batch. *)
LEMMA TakeBatchKeeps ==
    ASSUME WriterInv, TakeBatch
    PROVE  WriterInv'
  <1>0. /\ worker = "lock"
        /\ UNCHANGED <<accepting, running, depthMax, stats, stream, cut, owner, producer,
                       disk, ghost>>
    BY DEF TakeBatch
  <1>1. CASE /\ UNCHANGED <<queue, batch, done>>
             /\ worker' = "waiting" \/ (worker' = "exited" /\ ~running /\ queue = <<>>)
    <2>1. QueueType' /\ CounterType' /\ FileType'
      BY <1>0, <1>1 DEF QueueType, CounterType, FileType
    <2>2. FlagType'
      BY <1>0, <1>1 DEF FlagType
    <2>3. ThreadType'
      BY <1>0, <1>1 DEF ThreadType, WorkerPC
    <2>4. ControlInv' /\ Accounting'
      BY <1>0, <1>1 DEF ControlInv, Accounting, InFlight
    <2>5. StreamInv' /\ HeaderNeverOverstates'
      BY <1>0, <1>1 DEF ControlInv, StreamInv, EmptyUntilFlushed, HeaderNeverOverstates,
                        Persisting
    <2> QED BY <2>1, <2>2, <2>3, <2>4, <2>5
  <1>2. CASE /\ queue # <<>> /\ worker' = "write" /\ done' = 0
             /\ batch' = SubSeq(queue, 1, BatchSize) /\ queue' = StillQueued(BatchSize)
    <2>0. BatchSize \in 0..Len(queue)
      BY Lengths, BatchAssumption DEF BatchSize
    <2>1. /\ batch' \in Seq(Record) /\ Len(batch') = BatchSize
          /\ queue' \in Seq(Record) /\ Len(queue') = Len(queue) - BatchSize
      BY <1>2, <2>0, Cut DEF StillQueued, QueueType
    <2>2. Len(queue) \in Nat /\ BatchSize \in Nat /\ Len(queue') <= Len(queue)
      BY <2>0, <2>1, Lengths
    <2>3. QueueType'
      BY <1>0, <2>1, <2>2, CapacityAssumption DEF QueueType
    <2>4. CounterType' /\ FileType'
      BY <1>0 DEF CounterType, FileType
    <2>5. FlagType'
      BY <1>0 DEF FlagType
    <2>6. ThreadType'
      BY <1>0, <1>2, <2>1, <2>2 DEF ThreadType, WorkerPC
    <2>7. ControlInv'
      BY <1>0, <1>2 DEF ControlInv
    <2>8. Accounting'
      <3>1. /\ InFlight = 0 /\ InFlight' = BatchSize
            /\ UNCHANGED <<calls, written, dropped, refused>>
        BY <1>0, <1>2, <2>1 DEF InFlight
      <3>2. written \in Nat /\ dropped \in Nat /\ refused \in Nat
        BY DEF CounterType
      <3>3. calls' = written' + dropped' + Len(queue') + InFlight' + refused'
        BY <2>1, <2>2, <3>1, <3>2 DEF Accounting
      <3> QED BY <3>3 DEF Accounting
    <2>9. StreamInv' /\ HeaderNeverOverstates'
      BY <1>0, <1>2 DEF ControlInv, StreamInv, EmptyUntilFlushed, HeaderNeverOverstates,
                        Persisting
    <2> QED BY <2>3, <2>4, <2>5, <2>6, <2>7, <2>8, <2>9
  <1> QED BY <1>1, <1>2 DEF TakeBatch, LoopExit

(* file_.write took the record: buffered, or on its way to the file. *)
LEMMA WriteRecordKeeps ==
    ASSUME WriterInv, WriteRecord
    PROVE  WriterInv'
  <1> DEFINE b == Append(buffer, batch[done + 1])
  <1>0. /\ worker = "write" /\ done < Len(batch) /\ batch[done + 1] \in Record
        /\ current = NextHour /\ current \in Hours /\ current # NoFile
        /\ done' = done + 1 /\ fileCount' = fileCount + 1
        /\ UNCHANGED <<ctrl, stats, current, phase, worker, batch, cut, owner, producer,
                       ghost>>
    BY NextHourType, NoFileAssumption DEF WriteRecord, NextHour
  <1>1. b \in Seq(Record) /\ Len(b) = Len(buffer) + 1
    BY <1>0 DEF FileType
  <1>2. QueueType' /\ CounterType'
    BY <1>0 DEF QueueType, CounterType
  <1>3. FlagType'
    BY <1>0 DEF FlagType
  <1>4. ThreadType'
    BY <1>0, Lengths DEF ThreadType
  <1>5. ControlInv' /\ Accounting'
    BY <1>0 DEF ControlInv, Accounting, InFlight
  <1>6. /\ disk' \in [Hours -> File] /\ buffer' \in Seq(Record)
        /\ EmptyUntilFlushed' /\ HeaderNeverOverstates'
        /\ Len(disk'[current].recs) + Len(buffer')
              = Len(disk[current].recs) + Len(buffer) + 1
    <2>1. CASE buffer' = b /\ disk' = disk
      <3>1. Len(disk[current].recs) \in Nat
        BY <1>0, LenProperties DEF FileType, File
      <3>2. EmptyUntilFlushed' /\ HeaderNeverOverstates'
        BY <2>1 DEF StreamInv, EmptyUntilFlushed, HeaderNeverOverstates
      <3>3. Len(buffer) \in Nat
        BY Lengths
      <3>4. Len(disk'[current].recs) + Len(buffer')
               = Len(disk[current].recs) + Len(buffer) + 1
        <4> HIDE DEF b
        <4>1. /\ Len(disk'[current].recs) = Len(disk[current].recs)
              /\ Len(buffer') = Len(buffer) + 1
          BY <1>1, <2>1
        <4>2. Len(disk[current].recs) + (Len(buffer) + 1)
                 = Len(disk[current].recs) + Len(buffer) + 1
          <5>1. \A m, n \in Nat : m + (n + 1) = m + n + 1
            OBVIOUS
          <5> QED BY <3>1, <3>3, <5>1, Zenon
        <4> QED BY <4>1, <4>2, Zenon
      <3>5. disk' \in [Hours -> File] /\ buffer' \in Seq(Record)
        BY <1>1, <2>1 DEF FileType
      <3> QED BY <3>2, <3>4, <3>5
    <2>2. CASE \E o \in FlushOutcomes(b) :
                  /\ disk' = [disk EXCEPT ![current] = Flushed(@, b, o.k, o.t)]
                  /\ buffer' = SubSeq(b, o.k + 1, Len(b))
      <3> HIDE DEF b
      <3> PICK o \in FlushOutcomes(b) :
                  /\ disk' = [disk EXCEPT ![current] = Flushed(@, b, o.k, o.t)]
                  /\ buffer' = SubSeq(b, o.k + 1, Len(b))
        BY <2>2
      <3>1. o.k \in 0..Len(b) /\ o.t \in BOOLEAN
        BY DEF FlushOutcomes
      <3>2. buffer' \in Seq(Record) /\ Len(buffer') = Len(b) - o.k
        BY <1>1, <3>1, Cut
      <3>3. /\ disk' \in [Hours -> File]
            /\ EmptyUntilFlushed' /\ HeaderNeverOverstates'
            /\ Len(disk'[current].recs) = Len(disk[current].recs) + o.k
        BY <1>0, <1>1, <3>1, FlushEffect DEF StreamInv
      <3>4. Len(disk[current].recs) \in Nat /\ Len(b) \in Nat /\ o.k \in Nat
        BY <1>0, <1>1, <3>1, LenProperties DEF FileType, File
      <3>5. Len(disk'[current].recs) + Len(buffer')
               = Len(disk[current].recs) + Len(buffer) + 1
        <4>1. Len(buffer) \in Nat
          BY Lengths
        <4> QED BY <1>1, <3>2, <3>3, <3>4, <4>1
      <3> QED BY <3>2, <3>3, <3>5
    <2> QED BY <2>1, <2>2 DEF WriteRecord
  <1>7. FileType'
    BY <1>0, <1>6 DEF FileType
  <1>8. StreamInv'
    <2>1. phase' # "count"
      BY <1>0 DEF StreamInv, Persisting, ControlInv
    <2>2. ~writeError => fileCount = Len(disk[current].recs) + Len(buffer)
      BY <1>0 DEF StreamInv
    <2> QED BY <1>0, <1>6, <2>1, <2>2 DEF StreamInv
  <1> QED BY <1>2, <1>3, <1>4, <1>5, <1>6, <1>7, <1>8

(* file_.write failed. *)
LEMMA WriteRecordFailsKeeps ==
    ASSUME WriterInv, WriteRecordFails
    PROVE  WriterInv'
  <1>0. /\ worker = "write" /\ worker' = "fail" /\ LoopFails
        /\ batch[done + 1] \in Record /\ current = NextHour /\ current \in Hours
        /\ LoseBuffer(Append(buffer, batch[done + 1]))
        /\ UNCHANGED <<ctrl, dropped, tails, writeError, current, fileCount, phase, batch,
                       done, cut, owner, producer, ghost>>
    BY NextHourType DEF WriteRecordFails, LoopFails, NextHour
  <1>1. Append(buffer, batch[done + 1]) \in Seq(Record)
    BY <1>0 DEF FileType
  <1>2. /\ disk' \in [Hours -> File] /\ EmptyUntilFlushed' /\ HeaderNeverOverstates'
        /\ buffer' = <<>>
    BY <1>0, <1>1, LoseEffect DEF StreamInv
  <1>3. Accounting' /\ written' \in Nat
    BY <1>0, LoopFailsCounts
  <1>4. QueueType' /\ CounterType'
    BY <1>0, <1>3 DEF QueueType, CounterType
  <1>5. FlagType'
    BY <1>0 DEF FlagType
  <1>6. ThreadType' /\ ControlInv'
    BY <1>0 DEF ThreadType, WorkerPC, ControlInv
  <1>7. FileType'
    BY <1>0, <1>2, EmptySeq DEF FileType
  <1>8. StreamInv'
    BY <1>0, <1>2, NoFileAssumption DEF StreamInv, ControlInv, Persisting
  <1> QED BY <1>2, <1>3, <1>4, <1>5, <1>6, <1>7, <1>8

(* Coming back from persist_header_count moves no record. *)
LEMMA ReturnKeeps ==
    ASSUME WriterInv, Persisting, NEW ok \in BOOLEAN, Return(ok),
           UNCHANGED <<ctrl, dropped, tails, producer, ghost>>
    PROVE  /\ QueueType' /\ CounterType' /\ ThreadType' /\ ControlInv' /\ Accounting'
           /\ phase' = "data" /\ current' \in {current, NoFile}
           /\ worker = "persist" => current' = current /\ fileCount' = fileCount
           /\ worker # "persist" => current' = NoFile
  <1>0. phase' = "data"
    BY DEF Return
  <1>1. CASE worker = "persist"
    <2>0. /\ worker' = IF ok THEN "lock" ELSE "fail"
          /\ batch' = IF ok THEN <<>> ELSE batch
          /\ done' = IF ok THEN 0 ELSE done
          /\ UNCHANGED <<current, fileCount, written, owner>>
          /\ done = Len(batch)
      BY <1>1 DEF Return, ControlInv
    <2>1. QueueType' /\ CounterType' /\ ThreadType'
      BY <2>0, EmptySeq DEF QueueType, CounterType, ThreadType, WorkerPC
    <2>2. ControlInv'
      BY <1>1, <2>0 DEF ControlInv
    <2>3. Accounting'
      <3>1. InFlight = 0 /\ InFlight' = 0
        BY <1>1, <2>0, Lengths DEF InFlight
      <3> QED BY <2>0, <3>1 DEF Accounting
    <2> QED BY <1>0, <1>1, <2>0, <2>1, <2>2, <2>3
  <1>2. CASE worker = "roll"
    <2>0. /\ current' = NoFile /\ fileCount' = 0
          /\ \/ worker' = "create" /\ written' = written
             \/ LoopFails /\ worker' = "fail"
          /\ UNCHANGED <<batch, done, owner>>
      BY <1>2 DEF Return, ControlInv, LoopFails
    <2>1. Accounting' /\ written' \in Nat
      <3>1. CASE worker' = "create" /\ written' = written
        BY <1>2, <2>0, <3>1 DEF Accounting, InFlight, CounterType
      <3>2. CASE LoopFails
        BY <1>2, <2>0, <3>2, LoopFailsCounts
      <3> QED BY <2>0, <3>1, <3>2
    <2>2. QueueType' /\ CounterType' /\ ThreadType'
      BY <2>0, <2>1 DEF QueueType, CounterType, ThreadType, WorkerPC
    <2>3. ControlInv'
      BY <1>2, <2>0 DEF ControlInv
    <2> QED BY <1>0, <1>2, <2>0, <2>1, <2>2, <2>3
  <1>3. CASE owner = "final"
    <2>0. /\ worker = "none" /\ current' = NoFile /\ fileCount' = 0 /\ owner' = "closed"
          /\ UNCHANGED <<written, worker, batch, done>>
      BY <1>3 DEF Return, ControlInv
    <2>1. QueueType' /\ CounterType' /\ ThreadType'
      BY <2>0 DEF QueueType, CounterType, ThreadType, OwnerPC
    <2>2. ControlInv' /\ Accounting'
      BY <1>3, <2>0 DEF ControlInv, Accounting, InFlight
    <2> QED BY <1>0, <2>0, <2>1, <2>2
  <1> QED BY <1>1, <1>2, <1>3 DEF Persisting

(* The buffered records reach the file before the count does. *)
LEMMA PersistDataKeeps ==
    ASSUME WriterInv, PersistData
    PROVE  WriterInv'
  <1>0. /\ Persisting /\ current # NoFile /\ current \in Hours /\ ~writeError
        /\ disk' = [disk EXCEPT ![current] = Flushed(@, buffer, Len(buffer), FALSE)]
        /\ buffer' = <<>> /\ phase' = "count"
        /\ UNCHANGED <<ctrl, stats, current, fileCount, thread, owner, producer, ghost>>
    BY DEF PersistData, SeekToHeader, FileType
  <1>1. buffer \in Seq(Record) /\ Len(buffer) \in 0..Len(buffer)
    BY Lengths DEF FileType
  <1>2. /\ disk' \in [Hours -> File] /\ EmptyUntilFlushed' /\ HeaderNeverOverstates'
        /\ Len(disk'[current].recs) = Len(disk[current].recs) + Len(buffer)
    BY <1>0, <1>1, FlushEffect DEF StreamInv
  <1>3. QueueType' /\ CounterType' /\ ThreadType'
    BY <1>0 DEF QueueType, CounterType, ThreadType
  <1>4. FlagType'
    BY <1>0 DEF FlagType
  <1>5. FileType'
    BY <1>0, <1>2, EmptySeq DEF FileType
  <1>6. ControlInv' /\ Accounting'
    BY <1>0 DEF ControlInv, Accounting, InFlight
  <1>7. StreamInv'
    <2>1. worker # "fail" /\ Persisting'
      BY <1>0 DEF Persisting, ControlInv
    <2>2. fileCount = Len(disk[current].recs) + Len(buffer)
      BY <1>0, <2>1 DEF StreamInv
    <2>3. Len(disk'[current].recs) \in Nat /\ Len(buffer') = 0
      BY <1>0, <1>2, EmptySeq, LenProperties DEF File
    <2>4. \A m, n \in Nat : n = 0 => m + n = m
      OBVIOUS
    <2>5. fileCount' = Len(disk'[current].recs) + Len(buffer')
      BY <1>0, <1>2, <2>2, <2>3, <2>4
    <2> QED BY <1>0, <1>2, <2>1, <2>5 DEF StreamInv
  <1> QED BY <1>2, <1>3, <1>4, <1>5, <1>6, <1>7

(* The count is written over a file that holds all the records it counts. *)
LEMMA PersistCountKeeps ==
    ASSUME WriterInv, PersistCount
    PROVE  WriterInv'
  <1>0. /\ Persisting /\ current # NoFile /\ current \in Hours /\ ~writeError
        /\ buffer = <<>> /\ Return(TRUE)
        /\ disk' = [disk EXCEPT ![current].count = fileCount]
        /\ UNCHANGED <<ctrl, dropped, tails, writeError, buffer, cut, producer, ghost>>
    BY DEF PersistCount, StreamInv, FileType
  <1>1. /\ QueueType' /\ CounterType' /\ ThreadType' /\ ControlInv' /\ Accounting'
        /\ phase' = "data" /\ current' \in {current, NoFile}
        /\ worker = "persist" => current' = current /\ fileCount' = fileCount
        /\ worker # "persist" => current' = NoFile
    BY <1>0, ReturnKeeps
  <1>2. FlagType'
    BY <1>0 DEF FlagType
  <1>3. disk[current] \in File /\ disk[current].recs \in Seq(Record)
    BY <1>0 DEF FileType, File
  <1>4. fileCount = Len(disk[current].recs)
    <2>1. worker # "fail"
      BY <1>0 DEF Persisting, ControlInv
    <2>2. fileCount = Len(disk[current].recs) + Len(buffer)
      BY <1>0, <2>1 DEF StreamInv
    <2>3. Len(disk[current].recs) \in Nat /\ Len(buffer) = 0
      BY <1>0, <1>3, EmptySeq, LenProperties
    <2>4. \A m, n \in Nat : n = 0 => m + n = m
      OBVIOUS
    <2> QED BY <2>2, <2>3, <2>4
  <1>5. /\ disk' \in [Hours -> File]
        /\ \A h \in Hours : disk'[h].recs = disk[h].recs /\ disk'[h].kind = disk[h].kind
        /\ \A h \in Hours : h # current => disk'[h] = disk[h]
        /\ disk'[current].count = fileCount
    BY <1>0, <1>3 DEF FileType, File, CounterType
  <1>6. FileType'
    BY <1>0, <1>1, <1>5 DEF FileType
  <1>7. HeaderNeverOverstates'
    <2> SUFFICES ASSUME NEW h \in Hours PROVE disk'[h].count <= Len(disk'[h].recs)
      BY DEF HeaderNeverOverstates
    <2>1. CASE h = current
      BY <1>0, <1>4, <1>5, <2>1 DEF CounterType
    <2>2. CASE h # current
      BY <1>5, <2>2 DEF HeaderNeverOverstates
    <2> QED BY <2>1, <2>2
  <1>8. StreamInv'
    <2>1. EmptyUntilFlushed'
      BY <1>5 DEF StreamInv, EmptyUntilFlushed
    <2>2. current' # NoFile => fileCount' = Len(disk'[current'].recs) + Len(buffer')
      <3>1. current' # NoFile => current' = current /\ fileCount' = fileCount
        BY <1>1
      <3>2. fileCount = Len(disk[current].recs) + Len(buffer)
        BY <1>0 DEF StreamInv, Persisting, ControlInv
      <3> QED BY <1>0, <1>5, <3>1, <3>2
    <2> QED BY <1>0, <1>1, <2>1, <2>2 DEF StreamInv
  <1> QED BY <1>1, <1>2, <1>6, <1>7, <1>8

(* A failed flush loses what was buffered, and is remembered. *)
LEMMA PersistFailsKeeps ==
    ASSUME WriterInv, PersistFails
    PROVE  WriterInv'
  <1>0. /\ Persisting /\ current \in Hours /\ LoseBuffer(buffer) /\ Return(FALSE)
        /\ writeError' = TRUE
        /\ UNCHANGED <<ctrl, dropped, tails, cut, producer, ghost>>
    BY DEF PersistFails, FileType
  <1>1. /\ QueueType' /\ CounterType' /\ ThreadType' /\ ControlInv' /\ Accounting'
        /\ phase' = "data" /\ current' \in {current, NoFile}
    BY <1>0, ReturnKeeps
  <1>2. FlagType'
    BY <1>0 DEF FlagType
  <1>3. /\ disk' \in [Hours -> File] /\ EmptyUntilFlushed' /\ HeaderNeverOverstates'
        /\ buffer' = <<>>
    BY <1>0, LoseEffect DEF StreamInv, FileType
  <1>4. FileType'
    BY <1>0, <1>1, <1>3, EmptySeq DEF FileType
  <1>5. StreamInv'
    BY <1>0, <1>1, <1>3 DEF StreamInv
  <1> QED BY <1>1, <1>2, <1>3, <1>4, <1>5

(* close() without a file, or after a failure. *)
LEMMA FinalSkipKeeps ==
    ASSUME WriterInv, FinalSkip
    PROVE  WriterInv'
  <1>0. /\ Persisting /\ owner = "final" /\ Return(FALSE) /\ buffer' = <<>>
        /\ UNCHANGED <<ctrl, dropped, tails, writeError, cut, producer, disk, ghost>>
    BY DEF FinalSkip, Persisting
  <1>1. /\ QueueType' /\ CounterType' /\ ThreadType' /\ ControlInv' /\ Accounting'
        /\ phase' = "data" /\ current' = NoFile
    BY <1>0, ReturnKeeps DEF ControlInv
  <1>2. FlagType'
    BY <1>0 DEF FlagType
  <1>3. FileType'
    BY <1>0, <1>1, EmptySeq DEF FileType
  <1>4. StreamInv' /\ HeaderNeverOverstates'
    BY <1>0, <1>1 DEF StreamInv, EmptyUntilFlushed, HeaderNeverOverstates
  <1> QED BY <1>1, <1>2, <1>3, <1>4

(* A new file is empty, and so is the buffer in front of it. *)
LEMMA CreateFileKeeps ==
    ASSUME WriterInv, CreateFile
    PROVE  WriterInv'
  <1> DEFINE n == NextHour
  <1>0. /\ worker = "create" /\ done < Len(batch) /\ current = NoFile /\ buffer = <<>>
        /\ n \in Hours /\ disk[n].kind = "absent" /\ disk[n].recs = <<>>
        /\ disk' = [disk EXCEPT ![n].kind = "short"]
        /\ current' = n /\ fileCount' = 0 /\ worker' = "write"
        /\ UNCHANGED <<ctrl, stats, buffer, phase, batch, done, cut, owner, producer,
                       ghost>>
    BY NextHourType DEF CreateFile, ControlInv, StreamInv, EmptyUntilFlushed
  <1> HIDE DEF n
  <1>1. /\ disk' \in [Hours -> File]
        /\ \A h \in Hours : disk'[h].recs = disk[h].recs /\ disk'[h].count = disk[h].count
        /\ \A h \in Hours : h # n => disk'[h] = disk[h]
    BY <1>0 DEF FileType, File
  <1>2. QueueType' /\ CounterType' /\ ThreadType'
    BY <1>0 DEF QueueType, CounterType, ThreadType, WorkerPC
  <1>3. FlagType'
    BY <1>0 DEF FlagType
  <1>4. FileType'
    BY <1>0, <1>1 DEF FileType
  <1>5. ControlInv' /\ Accounting'
    BY <1>0 DEF ControlInv, Accounting, InFlight
  <1>6. HeaderNeverOverstates'
    BY <1>1 DEF HeaderNeverOverstates
  <1>7. StreamInv'
    <2>1. EmptyUntilFlushed'
      BY <1>0, <1>1 DEF StreamInv, EmptyUntilFlushed
    <2>2. fileCount' = Len(disk'[current'].recs) + Len(buffer')
      BY <1>0, <1>1, EmptySeq
    <2> QED BY <1>0, <2>1, <2>2, NoFileAssumption DEF StreamInv
  <1> QED BY <1>2, <1>3, <1>4, <1>5, <1>6, <1>7

(* The repair drops a torn tail and no complete record. *)
LEMMA RepairTruncateKeeps ==
    ASSUME WriterInv, RepairTruncate
    PROVE  WriterInv'
  <1> DEFINE n == NextHour
  <1>0. /\ worker = "create" /\ done < Len(batch) /\ current = NoFile
        /\ n \in Hours /\ disk[n].kind = "ok" /\ cut' = disk[n].torn
        /\ disk' = [disk EXCEPT ![n] = [@ EXCEPT !.torn = FALSE]]
        /\ worker' = "repair"
        /\ UNCHANGED <<ctrl, stats, stream, batch, done, owner, producer, ghost>>
    BY NextHourType DEF RepairTruncate, Repaired, ControlInv
  <1> HIDE DEF n
  <1>1. /\ disk' \in [Hours -> File] /\ disk[n].torn \in BOOLEAN
        /\ \A h \in Hours : /\ disk'[h].recs = disk[h].recs
                            /\ disk'[h].count = disk[h].count
                            /\ disk'[h].kind = disk[h].kind
    BY <1>0 DEF FileType, File
  <1>2. QueueType' /\ CounterType' /\ ThreadType'
    BY <1>0 DEF QueueType, CounterType, ThreadType, WorkerPC
  <1>3. FlagType'
    <2>1. cut' \in BOOLEAN
      BY <1>0, <1>1, Zenon
    <2> QED BY <1>0, <2>1, Zenon DEF FlagType
  <1>4. FileType'
    BY <1>0, <1>1 DEF FileType
  <1>5. ControlInv' /\ Accounting'
    BY <1>0 DEF ControlInv, Accounting, InFlight
  <1>6. HeaderNeverOverstates'
    BY <1>1 DEF HeaderNeverOverstates
  <1>7. StreamInv'
    BY <1>0, <1>1 DEF StreamInv, EmptyUntilFlushed, Persisting, ControlInv
  <1> QED BY <1>2, <1>3, <1>4, <1>5, <1>6, <1>7

(* The repair writes the true count, and writing goes on after it. *)
LEMMA RepairCountKeeps ==
    ASSUME WriterInv, RepairCount
    PROVE  WriterInv'
  <1> DEFINE n == NextHour
             l == Len(disk[n].recs)
  <1>0. /\ worker = "repair" /\ done < Len(batch) /\ current = NoFile /\ buffer = <<>>
        /\ n \in Hours /\ cut' = FALSE
        /\ disk' = [disk EXCEPT ![n].count = l]
        /\ tails' = tails + (IF cut THEN 1 ELSE 0)
        /\ \/ current' = n /\ fileCount' = l /\ worker' = "write" /\ written' = written
           \/ LoopFails /\ worker' = "fail" /\ UNCHANGED <<current, fileCount>>
        /\ UNCHANGED <<ctrl, dropped, writeError, buffer, phase, batch, done, owner,
                       producer, ghost>>
    BY NextHourType DEF RepairCount, ControlInv, StreamInv, LoopFails
  <1>1. l \in Nat
    <2>1. n \in Hours
      BY <1>0
    <2> HIDE DEF n
    <2>2. disk[n].recs \in Seq(Record)
      BY <2>1 DEF FileType, File
    <2> QED BY <2>2, LenProperties
  <1> HIDE DEF n
  <1>2. l = Len(disk[n].recs)
    OBVIOUS
  <1> HIDE DEF l
  <1>3. /\ disk' \in [Hours -> File]
        /\ \A h \in Hours : disk'[h].recs = disk[h].recs /\ disk'[h].kind = disk[h].kind
        /\ \A h \in Hours : h # n => disk'[h] = disk[h]
        /\ disk'[n].count = l
    BY <1>0, <1>1 DEF FileType, File
  <1>4. Accounting' /\ written' \in Nat
    <2>1. CASE worker' = "write" /\ written' = written
      BY <1>0, <2>1 DEF Accounting, InFlight, CounterType
    <2>2. CASE LoopFails
      BY <1>0, <2>2, LoopFailsCounts
    <2> QED BY <1>0, <2>1, <2>2
  <1>5. QueueType' /\ CounterType' /\ ThreadType'
    <2>1. tails' \in Nat
      BY <1>0 DEF CounterType
    <2> QED BY <1>0, <1>1, <1>4, <2>1 DEF QueueType, CounterType, ThreadType, WorkerPC
  <1>6. FlagType'
    BY <1>0 DEF FlagType
  <1>7. FileType'
    BY <1>0, <1>3 DEF FileType
  <1>8. ControlInv'
    BY <1>0 DEF ControlInv
  <1>9. HeaderNeverOverstates'
    <2> SUFFICES ASSUME NEW h \in Hours PROVE disk'[h].count <= Len(disk'[h].recs)
      BY DEF HeaderNeverOverstates
    <2>1. CASE h = n
      BY <1>1, <1>2, <1>3, <2>1
    <2>2. CASE h # n
      BY <1>3, <2>2 DEF HeaderNeverOverstates
    <2> QED BY <2>1, <2>2
  <1>10. StreamInv'
    <2>1. EmptyUntilFlushed'
      BY <1>3 DEF StreamInv, EmptyUntilFlushed
    <2>2. current' # NoFile => fileCount' = Len(disk'[current'].recs) + Len(buffer')
      <3>1. Len(buffer') = 0
        BY <1>0, EmptySeq
      <3>2. \A m, k \in Nat : k = 0 => m = m + k
        OBVIOUS
      <3> QED BY <1>0, <1>1, <1>2, <1>3, <3>1, <3>2
    <2> QED BY <1>0, <2>1, <2>2 DEF StreamInv, Persisting, ControlInv
  <1> QED BY <1>4, <1>5, <1>6, <1>7, <1>8, <1>9, <1>10

(* open_file fails. *)
LEMMA OpenFileFailsKeeps ==
    ASSUME WriterInv, OpenFileFails
    PROVE  WriterInv'
  <1>0. /\ worker \in {"create", "repair"} /\ worker' = "fail" /\ LoopFails
        /\ cut' = FALSE
        /\ UNCHANGED <<ctrl, dropped, tails, writeError, stream, batch, done, owner,
                       producer, disk, ghost>>
    BY DEF OpenFileFails, LoopFails
  <1>1. Accounting' /\ written' \in Nat
    BY <1>0, LoopFailsCounts
  <1>2. QueueType' /\ CounterType' /\ ThreadType' /\ FileType'
    BY <1>0, <1>1 DEF QueueType, CounterType, ThreadType, WorkerPC, FileType
  <1>3. FlagType'
    BY <1>0 DEF FlagType
  <1>4. ControlInv'
    BY <1>0 DEF ControlInv
  <1>5. StreamInv' /\ HeaderNeverOverstates'
    BY <1>0 DEF ControlInv, StreamInv, EmptyUntilFlushed, HeaderNeverOverstates,
       Persisting
  <1> QED BY <1>1, <1>2, <1>3, <1>4, <1>5

-------------------------------------------------------------------------------
(* The invariant is inductive. *)
LEMMA NextKeeps == WriterInv /\ [Next]_vars => WriterInv'
  <1> SUFFICES ASSUME WriterInv, [Next]_vars PROVE WriterInv'
    OBVIOUS
  <1> USE DEF WorkerStep, PersistStep
  <1>1. CASE UNCHANGED vars
    <2>1. QueueType' /\ CounterType' /\ ThreadType' /\ FileType'
      BY <1>1 DEF vars, QueueType, CounterType, ThreadType, FileType
    <2>2. FlagType'
      BY <1>1 DEF vars, FlagType
    <2>3. ControlInv' /\ Accounting'
      BY <1>1 DEF vars, ControlInv, Accounting, InFlight
    <2>4. StreamInv' /\ HeaderNeverOverstates'
      BY <1>1 DEF vars, StreamInv, EmptyUntilFlushed, HeaderNeverOverstates, Persisting
    <2> QED BY <2>1, <2>2, <2>3, <2>4
  <1>2. CASE Open \/ Close \/ CloseNotify \/ CloseJoin \/ SpuriousWakeup \/ Crash
    BY <1>2, OpenKeeps, CloseKeeps, CloseNotifyKeeps, CloseJoinKeeps, SpuriousWakeupKeeps,
       CrashKeeps
  <1>3. CASE \E p \in Producers : EnqueueNotify(p) \/ \E h \in Hours : Enqueue(p, h)
    BY <1>3, EnqueueNotifyKeeps, EnqueueKeeps
  <1>4. CASE WorkerStep
    BY <1>4, TakeBatchKeeps, ChooseFileKeeps, WriteRecordKeeps, WriteRecordFailsKeeps,
       LoopEndsKeeps, FailKeeps, CreateFileKeeps, RepairTruncateKeeps, RepairCountKeeps,
       OpenFileFailsKeeps
  <1>5. CASE PersistStep
    BY <1>5, PersistDataKeeps, PersistCountKeeps, PersistFailsKeeps, FinalSkipKeeps
  <1>6. CASE Finished
    BY <1>1, <1>6 DEF Finished
  <1> QED BY <1>1, <1>2, <1>3, <1>4, <1>5, <1>6 DEF Next

(* The writer always satisfies its invariant. *)
THEOREM WriterInvariance == Spec => []WriterInv
  <1> HIDE DEF WriterInv
  <1> QED BY InitInv, NextKeeps, PTL DEF Spec

(* TypeOK, for every capacity: the queue never outgrows queue_capacity_. *)
THEOREM WriterTypes == Spec => []TypeOK
  <1>1. WriterInv => TypeOK
    OBVIOUS
  <1> HIDE DEF WriterInv, TypeOK
  <1> QED BY <1>1, WriterInvariance, PTL

(* Accounting, for every capacity and batch size: each call of write() is in
   exactly one of records_written_, records_dropped_, the queue, the worker's
   batch, or was refused by a stopped writer. *)
THEOREM WriterAccounting == Spec => []Accounting
  <1>1. WriterInv => Accounting
    OBVIOUS
  <1> HIDE DEF WriterInv
  <1> QED BY <1>1, WriterInvariance, PTL

(* HeaderNeverOverstates, for every number of files and records: wherever the
   process dies, a header's record_count is at most what the file holds. *)
THEOREM WriterHeaders == Spec => []HeaderNeverOverstates
  <1>1. WriterInv => HeaderNeverOverstates
    OBVIOUS
  <1> HIDE DEF WriterInv
  <1> QED BY <1>1, WriterInvariance, PTL

-------------------------------------------------------------------------------
(* The order of the records on their way to the files. *)

Ids(s) == {s[i].id : i \in 1..Len(s)}
Below(A, B) == \A a \in A, b \in B : a < b

(* The calls whose records the files hold, and those the worker still has to
   write. *)
OnDisk == UNION {Ids(disk[h].recs) : h \in Hours}
Pending == {batch[i].id : i \in (done + 1)..Len(batch)}

(* The files, the stream's buffer, the rest of the batch and the queue hold the
   records of ever later calls, each in the order of the calls: rolling to another
   file and back never lets a later record overtake one that is still buffered. *)
OrderInv ==
    /\ \A h \in Hours : Rising(disk[h].recs)
    /\ Rising(buffer) /\ Rising(batch) /\ Rising(queue)
    /\ Below(OnDisk, Ids(buffer)) /\ Below(OnDisk \cup Ids(buffer), Pending)
    /\ Below(OnDisk \cup Ids(buffer) \cup Pending, Ids(queue))
    /\ OnDisk \cup Ids(buffer) \cup Pending \cup Ids(queue) \subseteq 1..offered

(* One more record at the end. *)
LEMMA AppendOrder ==
    ASSUME NEW s \in Seq(Record), NEW r \in Record
    PROVE  /\ Ids(Append(s, r)) = Ids(s) \cup {r.id}
           /\ Rising(s) /\ Below(Ids(s), {r.id}) => Rising(Append(s, r))
  <1> DEFINE t == Append(s, r)  n == Len(s)
  <1>1. n \in Nat /\ Len(t) = n + 1 /\ t[n + 1] = r /\ \A i \in 1..n : t[i] = s[i]
    OBVIOUS
  <1> HIDE DEF t
  <1>2. Ids(t) \subseteq Ids(s) \cup {r.id}
    <2>1. ASSUME NEW i \in 1..(n + 1) PROVE t[i].id \in Ids(s) \cup {r.id}
      <3>1. CASE i = n + 1
        BY <1>1, <3>1
      <3>2. CASE i \in 1..n
        BY <1>1, <3>2 DEF Ids
      <3> QED BY <1>1, <3>1, <3>2
    <2> QED BY <1>1, <2>1 DEF Ids
  <1>3. Ids(s) \cup {r.id} \subseteq Ids(t)
    <2>1. r.id \in Ids(t)
      <3>1. n + 1 \in 1..Len(t)
        BY <1>1
      <3> QED BY <1>1, <3>1 DEF Ids
    <2>2. ASSUME NEW i \in 1..n PROVE s[i].id \in Ids(t)
      <3>1. i \in 1..Len(t)
        BY <1>1
      <3> QED BY <1>1, <3>1 DEF Ids
    <2> QED BY <2>1, <2>2 DEF Ids
  <1>4. ASSUME Rising(s), Below(Ids(s), {r.id}) PROVE Rising(t)
    <2> SUFFICES ASSUME NEW i \in 1..Len(t), NEW j \in 1..Len(t), i < j
                 PROVE  t[i].id < t[j].id
      BY DEF Rising
    <2>1. i \in 1..n
      BY <1>1
    <2>2. CASE j = n + 1
      BY <1>1, <1>4, <2>1, <2>2 DEF Below, Ids
    <2>3. CASE j \in 1..n
      BY <1>1, <1>4, <2>1, <2>3 DEF Rising
    <2> QED BY <1>1, <2>2, <2>3
  <1> QED BY <1>2, <1>3, <1>4 DEF t

(* The two parts of a sequence. *)
LEMMA CutOrder ==
    ASSUME NEW s \in Seq(Record), NEW k \in 0..Len(s)
    PROVE  /\ Ids(s) = Ids(SubSeq(s, 1, k)) \cup Ids(SubSeq(s, k + 1, Len(s)))
           /\ Rising(s) => /\ Rising(SubSeq(s, 1, k)) /\ Rising(SubSeq(s, k + 1, Len(s)))
                           /\ Below(Ids(SubSeq(s, 1, k)), Ids(SubSeq(s, k + 1, Len(s))))
  <1> DEFINE a == SubSeq(s, 1, k)  b == SubSeq(s, k + 1, Len(s))  n == Len(s)
  <1>1. /\ n \in Nat /\ k \in Nat /\ k <= n /\ Len(a) = k /\ Len(b) = n - k
        /\ \A i \in 1..k : a[i] = s[i]
        /\ \A i \in 1..(n - k) : b[i] = s[k + i]
    OBVIOUS
  <1> HIDE DEF a, b, n
  <1>2. \A i \in 1..(n - k) : k + i \in 1..n /\ k + i > k
    BY <1>1
  <1>3. Ids(a) \subseteq Ids(s) /\ Ids(b) \subseteq Ids(s)
    <2>1. \A i \in 1..k : i \in 1..n
      BY <1>1
    <2>2. ASSUME NEW i \in 1..k PROVE a[i].id \in Ids(s)
      BY <1>1, <2>1 DEF Ids, n
    <2>3. ASSUME NEW i \in 1..(n - k) PROVE b[i].id \in Ids(s)
      <3>1. k + i \in 1..Len(s) /\ b[i] = s[k + i]
        BY <1>1, <1>2 DEF n
      <3> QED BY <3>1 DEF Ids
    <2> QED BY <1>1, <2>2, <2>3 DEF Ids
  <1>4. ASSUME NEW i \in 1..n PROVE s[i].id \in Ids(a) \cup Ids(b)
    <2>1. CASE i <= k
      <3>1. i \in 1..k
        BY <1>1, <2>1
      <3> QED BY <1>1, <3>1 DEF Ids
    <2>2. CASE i > k
      <3>1. i - k \in 1..(n - k) /\ k + (i - k) = i
        BY <1>1, <2>2
      <3>2. b[i - k] = s[i] /\ i - k \in 1..Len(b)
        BY <1>1, <3>1
      <3> QED BY <3>2 DEF Ids
    <2> QED BY <1>1, <2>1, <2>2
  <1>5. Ids(s) = Ids(a) \cup Ids(b)
    BY <1>3, <1>4 DEF Ids, n
  <1>6. ASSUME Rising(s) PROVE Rising(a) /\ Rising(b) /\ Below(Ids(a), Ids(b))
    <2>1. \A i, j \in 1..n : i < j => s[i].id < s[j].id
      BY <1>6 DEF Rising, n
    <2>2. Rising(a)
      <3>1. \A i \in 1..k : i \in 1..n
        BY <1>1
      <3> QED BY <1>1, <2>1, <3>1 DEF Rising
    <2>3. Rising(b)
      <3> SUFFICES ASSUME NEW i \in 1..(n - k), NEW j \in 1..(n - k), i < j
                   PROVE  b[i].id < b[j].id
        BY <1>1 DEF Rising
      <3>1. k + i \in 1..n /\ k + j \in 1..n /\ k + i < k + j
        BY <1>1
      <3> QED BY <1>1, <2>1, <3>1
    <2>4. ASSUME NEW i \in 1..k, NEW j \in 1..(n - k) PROVE a[i].id < b[j].id
      <3>1. i \in 1..n /\ k + j \in 1..n /\ i < k + j
        BY <1>1
      <3> QED BY <1>1, <2>1, <3>1
    <2> QED BY <1>1, <2>2, <2>3, <2>4 DEF Below, Ids
  <1> QED BY <1>5, <1>6 DEF a, b, n

(* Two sequences put together. *)
LEMMA JoinOrder ==
    ASSUME NEW s \in Seq(Record), NEW t \in Seq(Record)
    PROVE  /\ Ids(s \o t) = Ids(s) \cup Ids(t)
           /\ Rising(s) /\ Rising(t) /\ Below(Ids(s), Ids(t)) => Rising(s \o t)
  <1> DEFINE u == s \o t  m == Len(s)  n == Len(t)
  <1>1. /\ m \in Nat /\ n \in Nat /\ Len(u) = m + n
        /\ \A i \in 1..m : u[i] = s[i]
        /\ \A i \in 1..n : u[m + i] = t[i]
    OBVIOUS
  <1> HIDE DEF u, m, n
  <1>2. ASSUME NEW i \in 1..(m + n) PROVE i \in 1..m \/ (i - m \in 1..n /\ u[i] = t[i - m])
    <2>1. CASE i <= m
      BY <1>1, <2>1
    <2>2. CASE i > m
      <3>1. i - m \in 1..n /\ m + (i - m) = i
        BY <1>1, <2>2
      <3> QED BY <1>1, <3>1
    <2> QED BY <1>1, <2>1, <2>2
  <1>3. Ids(u) \subseteq Ids(s) \cup Ids(t)
    <2>1. ASSUME NEW i \in 1..(m + n) PROVE u[i].id \in Ids(s) \cup Ids(t)
      BY <1>1, <1>2 DEF Ids, m, n
    <2> QED BY <1>1, <2>1 DEF Ids
  <1>4. Ids(s) \cup Ids(t) \subseteq Ids(u)
    <2>1. ASSUME NEW i \in 1..m PROVE s[i].id \in Ids(u)
      <3>1. i \in 1..Len(u)
        BY <1>1
      <3> QED BY <1>1, <3>1 DEF Ids
    <2>2. ASSUME NEW i \in 1..n PROVE t[i].id \in Ids(u)
      <3>1. m + i \in 1..Len(u) /\ u[m + i] = t[i]
        BY <1>1
      <3> QED BY <3>1 DEF Ids
    <2> QED BY <2>1, <2>2 DEF Ids, m, n
  <1>5. ASSUME Rising(s), Rising(t), Below(Ids(s), Ids(t)) PROVE Rising(u)
    <2> SUFFICES ASSUME NEW i \in 1..(m + n), NEW j \in 1..(m + n), i < j
                 PROVE  u[i].id < u[j].id
      BY <1>1 DEF Rising
    <2>1. CASE i \in 1..m /\ j \in 1..m
      BY <1>1, <1>5, <2>1 DEF Rising, m
    <2>2. CASE i \in 1..m /\ j \notin 1..m
      <3>1. s[i].id \in Ids(s) /\ t[j - m].id \in Ids(t) /\ u[j] = t[j - m] /\ u[i] = s[i]
        BY <1>1, <1>2, <2>2 DEF Ids, m, n
      <3> QED BY <1>5, <3>1 DEF Below
    <2>3. CASE i \notin 1..m
      <3>1. /\ i - m \in 1..n /\ j - m \in 1..n /\ i - m < j - m
            /\ u[i] = t[i - m] /\ u[j] = t[j - m]
        BY <1>1, <1>2, <2>3
      <3> QED BY <1>5, <3>1 DEF Rising, n
    <2> QED BY <2>1, <2>2, <2>3
  <1> QED BY <1>3, <1>4, <1>5 DEF u

(* What a step may do to the files: nothing, or add records of calls that come
   after all those on disk to the end of one of them. *)
SameRecords == \A g \in Hours : disk'[g].recs = disk[g].recs
Grows(h, x) == /\ disk'[h].recs = disk[h].recs \o x
               /\ \A g \in Hours \ {h} : disk'[g].recs = disk[g].recs
               /\ Rising(x) /\ Below(OnDisk, Ids(x))
FilesGrow == SameRecords \/ \E h \in Hours, x \in Seq(Record) : Grows(h, x)

(* The order survives when records only move on towards the files or are lost. *)
LEMMA OrderMoves ==
    ASSUME OrderInv, NEW X, OnDisk' = OnDisk \cup X, offered' = offered,
           \A h \in Hours : Rising(disk'[h].recs),
           Rising(buffer'), Rising(batch'), Rising(queue'),
           X \cup Ids(buffer') \cup Pending' \cup Ids(queue')
              \subseteq Ids(buffer) \cup Pending \cup Ids(queue),
           Below(X, Ids(buffer')), Below(X \cup Ids(buffer'), Pending'),
           Below(X \cup Ids(buffer') \cup Pending', Ids(queue'))
    PROVE  OrderInv'
  <1>1. Below(OnDisk, Ids(buffer) \cup Pending \cup Ids(queue))
    BY DEF OrderInv, Below
  <1>2. Below(OnDisk', Ids(buffer'))
    BY <1>1 DEF Below
  <1>3. Below(OnDisk' \cup Ids(buffer'), Pending')
    BY <1>1 DEF Below
  <1>4. Below(OnDisk' \cup Ids(buffer') \cup Pending', Ids(queue'))
    BY <1>1 DEF Below
  <1>5. OnDisk' \cup Ids(buffer') \cup Pending' \cup Ids(queue') \subseteq 1..offered'
    BY DEF OrderInv
  <1> QED BY <1>2, <1>3, <1>4, <1>5 DEF OrderInv

(* The empty sequence. *)
LEMMA EmptyOrder == Ids(<<>>) = {} /\ Rising(<<>>)
BY DEF Ids, Rising

(* A file that takes records of later calls stays in order. *)
LEMMA GrowsInOrder ==
    ASSUME WriterInv, OrderInv, NEW h \in Hours, NEW x \in Seq(Record), Grows(h, x)
    PROVE  (\A g \in Hours : Rising(disk'[g].recs)) /\ OnDisk' = OnDisk \cup Ids(x)
  <1>1. disk[h].recs \in Seq(Record)
    BY DEF FileType, File
  <1>2. Ids(disk[h].recs) \subseteq OnDisk
    BY DEF OnDisk
  <1>3. Ids(disk'[h].recs) = Ids(disk[h].recs) \cup Ids(x) /\ Rising(disk'[h].recs)
    <2>1. Rising(disk[h].recs) /\ Below(Ids(disk[h].recs), Ids(x))
      BY <1>2 DEF OrderInv, Grows, Below
    <2> QED BY <1>1, <2>1, JoinOrder DEF Grows
  <1>4. \A g \in Hours \ {h} : disk'[g].recs = disk[g].recs
    BY DEF Grows
  <1>5. OnDisk' = UNION {Ids(disk'[g].recs) : g \in Hours}
    BY DEF OnDisk
  <1>6. OnDisk' = OnDisk \cup Ids(x)
    <2>1. ASSUME NEW g \in Hours PROVE Ids(disk'[g].recs) \subseteq OnDisk \cup Ids(x)
      <3>1. CASE g = h
        BY <1>2, <1>3, <3>1
      <3>2. CASE g # h
        BY <1>4, <3>2 DEF OnDisk
      <3> QED BY <3>1, <3>2
    <2>2. ASSUME NEW g \in Hours PROVE Ids(disk[g].recs) \subseteq Ids(disk'[g].recs)
      <3>1. CASE g = h
        BY <1>3, <3>1
      <3>2. CASE g # h
        BY <1>4, <3>2
      <3> QED BY <3>1, <3>2
    <2>3. Ids(x) \subseteq Ids(disk'[h].recs)
      BY <1>3
    <2>4. OnDisk = UNION {Ids(disk[g].recs) : g \in Hours}
      BY DEF OnDisk
    <2> QED BY <1>5, <2>1, <2>2, <2>3, <2>4
  <1> QED BY <1>3, <1>4, <1>6 DEF OrderInv

(* So it does where nothing is added. *)
LEMMA SameInOrder ==
    ASSUME OrderInv, SameRecords
    PROVE  (\A g \in Hours : Rising(disk'[g].recs)) /\ OnDisk' = OnDisk
  <1>1. \A g \in Hours : Ids(disk'[g].recs) = Ids(disk[g].recs)
    BY DEF SameRecords
  <1>2. OnDisk' = UNION {Ids(disk'[g].recs) : g \in Hours}
    BY DEF OnDisk
  <1>3. OnDisk = UNION {Ids(disk[g].recs) : g \in Hours}
    BY DEF OnDisk
  <1> QED BY <1>1, <1>2, <1>3 DEF OrderInv, SameRecords

(* The first k records of b reach the open file. *)
LEMMA FlushGrows ==
    ASSUME WriterInv, NEW h \in Hours, NEW b \in Seq(Record), NEW k \in 0..Len(b),
           NEW t \in BOOLEAN, disk' = [disk EXCEPT ![h] = Flushed(@, b, k, t)],
           Rising(b), Below(OnDisk, Ids(b))
    PROVE  SubSeq(b, 1, k) \in Seq(Record) /\ Grows(h, SubSeq(b, 1, k))
  <1> DEFINE x == SubSeq(b, 1, k)  f == Flushed(disk[h], b, k, t)
  <1>1. disk \in [Hours -> File] /\ disk[h] \in File
    BY DEF FileType
  <1>2. f.recs = disk[h].recs \o x
    BY <1>1 DEF Flushed, File
  <1>3. x \in Seq(Record)
    BY Cut
  <1>4. Rising(x) /\ Ids(x) \subseteq Ids(b)
    BY CutOrder
  <1> HIDE DEF x, f
  <1>5. disk' = [disk EXCEPT ![h] = f]
    BY DEF f
  <1>6. disk'[h].recs = disk[h].recs \o x /\ \A g \in Hours \ {h} : disk'[g].recs = disk[g].recs
    BY <1>1, <1>2, <1>5
  <1>7. Below(OnDisk, Ids(x))
    BY <1>4 DEF Below
  <1> QED BY <1>3, <1>4, <1>6, <1>7 DEF Grows, x

(* Most steps move no record; some drop the buffer, the batch or the queue. *)
LEMMA StillOrder ==
    ASSUME WriterInv, OrderInv, SameRecords, offered' = offered,
           buffer' \in {buffer, <<>>}, queue' \in {queue, <<>>},
           (UNCHANGED <<batch, done>>) \/ (batch' = <<>> /\ done' = 0)
    PROVE  OrderInv'
  <1>1. Rising(buffer') /\ Ids(buffer') \subseteq Ids(buffer)
    BY EmptyOrder DEF OrderInv
  <1>2. Rising(queue') /\ Ids(queue') \subseteq Ids(queue)
    BY EmptyOrder DEF OrderInv
  <1>3. Rising(batch') /\ Pending' \subseteq Pending
    <2>1. CASE UNCHANGED <<batch, done>>
      BY <2>1 DEF OrderInv, Pending
    <2>2. CASE batch' = <<>> /\ done' = 0
      BY <2>2, EmptyOrder DEF Pending
    <2> QED BY <2>1, <2>2
  <1>4. /\ Below(Ids(buffer'), Pending')
        /\ Below(Ids(buffer') \cup Pending', Ids(queue'))
    BY <1>1, <1>2, <1>3 DEF OrderInv, Below
  <1>5. OnDisk' = OnDisk \cup {} /\ (\A h \in Hours : Rising(disk'[h].recs))
    BY SameInOrder
  <1>6. /\ {} \cup Ids(buffer') \cup Pending' \cup Ids(queue')
              \subseteq Ids(buffer) \cup Pending \cup Ids(queue)
        /\ Below({}, Ids(buffer')) /\ Below({} \cup Ids(buffer'), Pending')
        /\ Below({} \cup Ids(buffer') \cup Pending', Ids(queue'))
    BY <1>1, <1>2, <1>3, <1>4 DEF Below
  <1> QED BY <1>1, <1>2, <1>3, <1>5, <1>6, OrderMoves

(* Part of the buffer reaches the open file and the rest is lost, or all of it. *)
LEMMA DrainOrder ==
    ASSUME WriterInv, OrderInv, current \in Hours, NEW k \in 0..Len(buffer), NEW t \in BOOLEAN,
           disk' = [disk EXCEPT ![current] = Flushed(@, buffer, k, t)],
           buffer' = <<>>, queue' = queue, offered' = offered,
           (UNCHANGED <<batch, done>>) \/ (batch' = <<>> /\ done' = 0)
    PROVE  OrderInv' /\ FilesGrow
  <1> DEFINE x == SubSeq(buffer, 1, k)
  <1>1. x \in Seq(Record) /\ Grows(current, x)
    BY FlushGrows DEF OrderInv, FileType
  <1>2. Ids(x) \subseteq Ids(buffer)
    BY CutOrder DEF FileType
  <1> HIDE DEF x
  <1>3. Ids(buffer') = {} /\ Rising(buffer') /\ Rising(queue')
    BY EmptyOrder DEF OrderInv
  <1>4. Rising(batch') /\ Pending' \subseteq Pending
    <2>1. CASE UNCHANGED <<batch, done>>
      BY <2>1 DEF OrderInv, Pending
    <2>2. CASE batch' = <<>> /\ done' = 0
      BY <2>2, EmptyOrder DEF Pending
    <2> QED BY <2>1, <2>2
  <1>5. /\ Below(Ids(x), Ids(buffer')) /\ Below(Ids(x) \cup Ids(buffer'), Pending')
        /\ Below(Ids(x) \cup Ids(buffer') \cup Pending', Ids(queue'))
        /\ Ids(x) \cup Ids(buffer') \cup Pending' \cup Ids(queue')
              \subseteq Ids(buffer) \cup Pending \cup Ids(queue)
    BY <1>2, <1>3, <1>4 DEF OrderInv, Below
  <1>6. OnDisk' = OnDisk \cup Ids(x) /\ \A h \in Hours : Rising(disk'[h].recs)
    BY <1>1, GrowsInOrder
  <1>7. OrderInv'
    BY <1>3, <1>4, <1>5, <1>6, OrderMoves
  <1> QED BY <1>1, <1>7 DEF FilesGrow

(* The record the worker is at comes after everything buffered and before the
   rest of its batch. *)
LEMMA NextRecordOrder ==
    ASSUME WriterInv, OrderInv, done < Len(batch)
    PROVE  LET r == batch[done + 1]
               rest == {batch[i].id : i \in (done + 2)..Len(batch)}
           IN  /\ Pending = {r.id} \cup rest /\ Below({r.id}, rest)
               /\ Below(OnDisk \cup Ids(buffer), {r.id}) /\ Below({r.id} \cup rest, Ids(queue))
  <1> DEFINE r == batch[done + 1]  rest == {batch[i].id : i \in (done + 2)..Len(batch)}
  <1>1. done \in Nat /\ Len(batch) \in Nat
    BY Lengths
  <1>2. \A i \in (done + 1)..Len(batch) : i = done + 1 \/ i \in (done + 2)..Len(batch)
    BY <1>1
  <1>3. done + 1 \in (done + 1)..Len(batch) /\ done + 1 \in 1..Len(batch)
    BY <1>1
  <1>4. \A i \in (done + 2)..Len(batch) :
           i \in (done + 1)..Len(batch) /\ i \in 1..Len(batch) /\ done + 1 < i
    BY <1>1
  <1>5. Pending = {r.id} \cup rest
    BY <1>2, <1>3, <1>4 DEF Pending
  <1>6. Below({r.id}, rest)
    BY <1>3, <1>4 DEF OrderInv, Rising, Below
  <1> HIDE DEF r, rest
  <1>7. Below(OnDisk \cup Ids(buffer), {r.id}) /\ Below({r.id} \cup rest, Ids(queue))
    BY <1>5 DEF OrderInv, Below
  <1> QED BY <1>5, <1>6, <1>7 DEF r, rest

(* file_.write took the record. *)
LEMMA WriteRecordOrder ==
    ASSUME WriterInv, OrderInv, WriteRecord
    PROVE  OrderInv' /\ FilesGrow
  <1> DEFINE r == batch[done + 1]  rest == {batch[i].id : i \in (done + 2)..Len(batch)}
             b == Append(buffer, r)
  <1>0. /\ done < Len(batch) /\ r \in Record /\ current \in Hours
        /\ done' = done + 1 /\ UNCHANGED <<batch, queue, offered>>
    BY NextHourType DEF WriteRecord, NextHour
  <1>1. /\ Pending = {r.id} \cup rest /\ Below({r.id}, rest)
        /\ Below(OnDisk \cup Ids(buffer), {r.id}) /\ Below({r.id} \cup rest, Ids(queue))
    BY <1>0, NextRecordOrder
  <1>2. Pending' = rest
    <2>1. (done + 1) + 1 = done + 2
      BY Lengths
    <2> QED BY <1>0, <2>1 DEF Pending
  <1>3. b \in Seq(Record) /\ Ids(b) = Ids(buffer) \cup {r.id} /\ Rising(b)
    <2>1. buffer \in Seq(Record) /\ Rising(buffer) /\ Below(Ids(buffer), {r.id})
      BY <1>1 DEF FileType, OrderInv, Below
    <2> QED BY <1>0, <2>1, AppendOrder
  <1>4. \/ buffer' = b /\ UNCHANGED disk
        \/ \E o \in FlushOutcomes(b) :
              /\ disk' = [disk EXCEPT ![current] = Flushed(@, b, o.k, o.t)]
              /\ buffer' = SubSeq(b, o.k + 1, Len(b))
    BY DEF WriteRecord
  <1> HIDE DEF b, r, rest
  <1>5. /\ Below(OnDisk, Ids(b)) /\ Below(Ids(b), rest) /\ Below(Ids(b) \cup rest, Ids(queue))
        /\ Ids(b) \cup rest \subseteq Ids(buffer) \cup Pending
    BY <1>1, <1>3 DEF OrderInv, Below
  <1>6. Rising(batch') /\ Rising(queue')
    BY <1>0 DEF OrderInv
  <1>7. CASE buffer' = b /\ UNCHANGED disk
    <2>1. SameRecords
      BY <1>7 DEF SameRecords
    <2>2. OnDisk' = OnDisk \cup {} /\ \A h \in Hours : Rising(disk'[h].recs)
      BY <2>1, SameInOrder
    <2>3. /\ {} \cup Ids(buffer') \cup Pending' \cup Ids(queue')
               \subseteq Ids(buffer) \cup Pending \cup Ids(queue)
          /\ Below({}, Ids(buffer')) /\ Below({} \cup Ids(buffer'), Pending')
          /\ Below({} \cup Ids(buffer') \cup Pending', Ids(queue'))
      BY <1>0, <1>2, <1>5, <1>7 DEF Below
    <2>4. OrderInv'
      BY <1>0, <1>3, <1>6, <1>7, <2>2, <2>3, OrderMoves
    <2> QED BY <2>1, <2>4 DEF FilesGrow
  <1>8. CASE \E o \in FlushOutcomes(b) :
                /\ disk' = [disk EXCEPT ![current] = Flushed(@, b, o.k, o.t)]
                /\ buffer' = SubSeq(b, o.k + 1, Len(b))
    <2> PICK o \in FlushOutcomes(b) :
                /\ disk' = [disk EXCEPT ![current] = Flushed(@, b, o.k, o.t)]
                /\ buffer' = SubSeq(b, o.k + 1, Len(b))
      BY <1>8
    <2>1. o.k \in 0..Len(b) /\ o.t \in BOOLEAN
      BY DEF FlushOutcomes
    <2> DEFINE x == SubSeq(b, 1, o.k)
    <2>2. x \in Seq(Record) /\ Grows(current, x)
      BY <1>0, <1>3, <1>5, <2>1, FlushGrows
    <2>3. Ids(b) = Ids(x) \cup Ids(buffer') /\ Rising(buffer') /\ Below(Ids(x), Ids(buffer'))
      BY <1>3, <2>1, CutOrder
    <2> HIDE DEF x
    <2>4. /\ Ids(x) \cup Ids(buffer') \cup Pending' \cup Ids(queue')
               \subseteq Ids(buffer) \cup Pending \cup Ids(queue)
          /\ Below(Ids(x) \cup Ids(buffer'), Pending')
          /\ Below(Ids(x) \cup Ids(buffer') \cup Pending', Ids(queue'))
      BY <1>0, <1>2, <1>5, <2>3 DEF Below
    <2>5. OnDisk' = OnDisk \cup Ids(x) /\ \A h \in Hours : Rising(disk'[h].recs)
      BY <1>0, <2>2, GrowsInOrder
    <2>6. OrderInv'
      BY <1>0, <1>6, <2>3, <2>4, <2>5, OrderMoves
    <2> QED BY <1>0, <2>2, <2>6 DEF FilesGrow
  <1> QED BY <1>4, <1>7, <1>8

(* A failed flush of the buffer, or of the buffer and the record that is being
   written: that record never reaches the file. *)
LEMMA LoseOrder ==
    ASSUME WriterInv, OrderInv, current \in Hours, NEW b \in Seq(Record), LoseBuffer(b),
           b = buffer \/ (done < Len(batch) /\ b = Append(buffer, batch[done + 1])),
           queue' = queue, offered' = offered,
           (UNCHANGED <<batch, done>>) \/ (batch' = <<>> /\ done' = 0)
    PROVE  OrderInv' /\ FilesGrow
  <1>0. buffer' = <<>> /\ buffer \in Seq(Record)
    BY DEF LoseBuffer, FileType
  <1>1. CASE UNCHANGED disk
    <2>1. SameRecords
      BY <1>1 DEF SameRecords
    <2>2. OrderInv'
      BY <1>0, <2>1, StillOrder
    <2> QED BY <2>1, <2>2 DEF FilesGrow
  <1>2. CASE \E o \in FlushOutcomes(b) :
                o.k < Len(b) /\ disk' = [disk EXCEPT ![current] = Flushed(@, b, o.k, o.t)]
    <2> PICK o \in FlushOutcomes(b) :
                o.k < Len(b) /\ disk' = [disk EXCEPT ![current] = Flushed(@, b, o.k, o.t)]
      BY <1>2
    <2>1. o.k \in 0..Len(b) /\ o.t \in BOOLEAN /\ Len(b) \in Nat
      BY LenProperties DEF FlushOutcomes
    <2>2. o.k \in 0..Len(buffer) /\ SubSeq(b, 1, o.k) = SubSeq(buffer, 1, o.k)
      <3>1. CASE b = buffer
        BY <2>1, <3>1
      <3>2. CASE done < Len(batch) /\ b = Append(buffer, batch[done + 1])
        <4>1. batch[done + 1] \in Record
          BY <3>2, NextHourType
        <4>2. /\ Len(b) = Len(buffer) + 1 /\ Len(buffer) \in Nat
              /\ \A i \in 1..Len(buffer) : b[i] = buffer[i]
          BY <1>0, <3>2, <4>1
        <4>3. o.k \in 0..Len(buffer)
          BY <2>1, <4>2
        <4>4. SubSeq(b, 1, o.k) = SubSeq(buffer, 1, o.k)
          BY <1>0, <2>1, <4>2, <4>3
        <4> QED BY <4>3, <4>4
      <3> QED BY <3>1, <3>2
    <2>3. Flushed(disk[current], b, o.k, o.t) = Flushed(disk[current], buffer, o.k, o.t)
      BY <2>2 DEF Flushed
    <2>4. disk' = [disk EXCEPT ![current] = Flushed(@, buffer, o.k, o.t)]
      BY <2>3
    <2> QED BY <1>0, <2>1, <2>2, <2>4, DrainOrder
  <1> QED BY <1>1, <1>2 DEF LoseBuffer

(* A new call is the latest, and its record goes to the end of the queue. *)
LEMMA EnqueueOrder ==
    ASSUME WriterInv, OrderInv, NEW p \in Producers, NEW h \in Hours, Enqueue(p, h)
    PROVE  OrderInv' /\ SameRecords /\ offered' = offered + 1
  <1> DEFINE r == [id |-> offered + 1, hour |-> h]
  <1>0. /\ offered' = offered + 1 /\ offered \in Nat
        /\ UNCHANGED <<disk, buffer, batch, done>>
        /\ queue' = queue \/ queue' = Append(queue, r)
    BY BoundAssumption DEF Enqueue, CounterType
  <1>1. r \in Record /\ r.id = offered + 1
    BY BoundAssumption DEF Enqueue, Record, CounterType
  <1> HIDE DEF r
  <1>2. SameRecords /\ OnDisk' = OnDisk /\ Pending' = Pending /\ Ids(buffer') = Ids(buffer)
    BY <1>0 DEF SameRecords, OnDisk, Pending
  <1>3. OnDisk \cup Ids(buffer) \cup Pending \cup Ids(queue) \subseteq 1..offered
    BY DEF OrderInv
  <1>4. Ids(queue') \subseteq Ids(queue) \cup {offered + 1} /\ Rising(queue')
    <2>1. Below(Ids(queue), {r.id})
      BY <1>0, <1>1, <1>3 DEF Below
    <2>2. queue \in Seq(Record) /\ Rising(queue)
      BY DEF QueueType, OrderInv
    <2> QED BY <1>0, <1>1, <2>1, <2>2, AppendOrder
  <1>5. Below(OnDisk' \cup Ids(buffer') \cup Pending', Ids(queue'))
    <2>1. Below(OnDisk \cup Ids(buffer) \cup Pending, {offered + 1})
      BY <1>0, <1>3 DEF Below
    <2>2. Below(OnDisk \cup Ids(buffer) \cup Pending, Ids(queue))
      BY DEF OrderInv
    <2> QED BY <1>2, <1>4, <2>1, <2>2 DEF Below
  <1>6. OnDisk' \cup Ids(buffer') \cup Pending' \cup Ids(queue') \subseteq 1..offered'
    <2>1. 1..offered \subseteq 1..(offered + 1) /\ offered + 1 \in 1..(offered + 1)
      BY <1>0
    <2> QED BY <1>0, <1>2, <1>3, <1>4, <2>1
  <1>7. /\ \A g \in Hours : Rising(disk'[g].recs)
        /\ Rising(buffer') /\ Rising(batch')
        /\ Below(OnDisk', Ids(buffer')) /\ Below(OnDisk' \cup Ids(buffer'), Pending')
    BY <1>0, <1>2 DEF OrderInv
  <1> QED BY <1>0, <1>2, <1>4, <1>5, <1>6, <1>7 DEF OrderInv

(* The front of the queue becomes the batch. *)
LEMMA TakeBatchOrder ==
    ASSUME WriterInv, OrderInv, TakeBatch
    PROVE  OrderInv' /\ SameRecords
  <1>0. UNCHANGED <<disk, buffer, offered>>
    BY DEF TakeBatch
  <1>1. SameRecords
    BY <1>0 DEF SameRecords
  <1>2. CASE UNCHANGED <<queue, batch, done>>
    BY <1>0, <1>1, <1>2, StillOrder
  <1>3. CASE /\ batch' = SubSeq(queue, 1, BatchSize) /\ queue' = StillQueued(BatchSize)
             /\ done' = 0
    <2>1. BatchSize \in 0..Len(queue) /\ queue \in Seq(Record) /\ Rising(queue)
      BY Lengths, BatchAssumption DEF BatchSize, QueueType, OrderInv
    <2>2. /\ Ids(queue) = Ids(batch') \cup Ids(queue')
          /\ Rising(batch') /\ Rising(queue') /\ Below(Ids(batch'), Ids(queue'))
      BY <1>3, <2>1, CutOrder DEF StillQueued
    <2>3. Pending' = Ids(batch')
      <3>1. 0 + 1 = 1
        OBVIOUS
      <3> QED BY <1>3, <3>1 DEF Pending, Ids
    <2>4. OnDisk' = OnDisk \cup {} /\ \A h \in Hours : Rising(disk'[h].recs)
      BY <1>1, SameInOrder
    <2>5. Rising(buffer') /\ Ids(buffer') = Ids(buffer)
      BY <1>0 DEF OrderInv
    <2>6. /\ {} \cup Ids(buffer') \cup Pending' \cup Ids(queue')
               \subseteq Ids(buffer) \cup Pending \cup Ids(queue)
          /\ Below({}, Ids(buffer')) /\ Below({} \cup Ids(buffer'), Pending')
          /\ Below({} \cup Ids(buffer') \cup Pending', Ids(queue'))
      BY <2>2, <2>3, <2>5 DEF OrderInv, Below
    <2>7. OrderInv'
      BY <1>0, <2>2, <2>4, <2>5, <2>6, OrderMoves
    <2> QED BY <1>1, <2>7
  <1> QED BY <1>1, <1>2, <1>3 DEF TakeBatch

(* persist_header_count keeps the batch or is done with it. *)
LEMMA ReturnBatch ==
    ASSUME NEW ok \in BOOLEAN, Return(ok)
    PROVE  (UNCHANGED <<batch, done>>) \/ (batch' = <<>> /\ done' = 0)
BY DEF Return

(* The owner, the notifications and the steps between two records. *)
LEMMA QuietOrder ==
    ASSUME WriterInv, OrderInv,
           \/ Open \/ Close \/ CloseNotify \/ CloseJoin \/ SpuriousWakeup \/ Crash
           \/ ChooseFile \/ LoopEnds \/ Fail \/ OpenFileFails \/ FinalSkip
           \/ (\E p \in Producers : EnqueueNotify(p)) \/ UNCHANGED vars
    PROVE  OrderInv' /\ SameRecords /\ offered' = offered
  <1>1. UNCHANGED <<disk, offered>>
    BY DEF Open, Close, CloseNotify, CloseJoin, SpuriousWakeup, Crash, ChooseFile, LoopEnds,
           Fail, OpenFileFails, FinalSkip, EnqueueNotify, vars
  <1>2. buffer' \in {buffer, <<>>} /\ queue' \in {queue, <<>>}
    BY DEF Open, Close, CloseNotify, CloseJoin, SpuriousWakeup, Crash, ChooseFile, LoopEnds,
           Fail, OpenFileFails, FinalSkip, EnqueueNotify, vars
  <1>3. (UNCHANGED <<batch, done>>) \/ (batch' = <<>> /\ done' = 0)
    <2>1. CASE FinalSkip
      BY <2>1, ReturnBatch DEF FinalSkip
    <2>2. CASE ~FinalSkip
      BY <2>2 DEF Open, Close, CloseNotify, CloseJoin, SpuriousWakeup, Crash, ChooseFile,
             LoopEnds, Fail, OpenFileFails, EnqueueNotify, vars
    <2> QED BY <2>1, <2>2
  <1>4. SameRecords
    BY <1>1 DEF SameRecords
  <1> QED BY <1>1, <1>2, <1>3, <1>4, StillOrder

(* Creating and repairing a file, and writing its count, leave its records. *)
LEMMA HeaderOrder ==
    ASSUME WriterInv, OrderInv, CreateFile \/ RepairTruncate \/ RepairCount \/ PersistCount
    PROVE  OrderInv' /\ SameRecords /\ offered' = offered
  <1>1. UNCHANGED <<buffer, queue, offered>>
    BY DEF CreateFile, RepairTruncate, RepairCount, PersistCount
  <1>2. (UNCHANGED <<batch, done>>) \/ (batch' = <<>> /\ done' = 0)
    <2>1. CASE PersistCount
      BY <2>1, ReturnBatch DEF PersistCount
    <2>2. CASE ~PersistCount
      BY <2>2 DEF CreateFile, RepairTruncate, RepairCount
    <2> QED BY <2>1, <2>2
  <1>3. disk \in [Hours -> File]
    BY DEF FileType
  <1>4. SameRecords
    <2>1. CASE PersistCount
      BY <1>3, <2>1 DEF PersistCount, SameRecords, File
    <2>2. CASE CreateFile
      BY <1>3, <2>2 DEF CreateFile, SameRecords, File
    <2>3. CASE RepairTruncate
      BY <1>3, <2>3 DEF RepairTruncate, Repaired, SameRecords, File
    <2>4. CASE RepairCount
      BY <1>3, <2>4 DEF RepairCount, SameRecords, File
    <2> QED BY <2>1, <2>2, <2>3, <2>4
  <1> QED BY <1>1, <1>2, <1>4, StillOrder

(* The steps that hand records to the operating system. *)
LEMMA FlushOrder ==
    ASSUME WriterInv, OrderInv, WriteRecord \/ WriteRecordFails \/ PersistData \/ PersistFails
    PROVE  OrderInv' /\ FilesGrow /\ offered' = offered
  <1>1. CASE WriteRecord
    BY <1>1, WriteRecordOrder DEF WriteRecord
  <1>2. CASE WriteRecordFails
    <2> DEFINE b == Append(buffer, batch[done + 1])
    <2>1. /\ done < Len(batch) /\ batch[done + 1] \in Record /\ current \in Hours
          /\ UNCHANGED <<queue, offered, batch, done>> /\ LoseBuffer(b)
      BY <1>2, NextHourType DEF WriteRecordFails, NextHour
    <2>2. b \in Seq(Record)
      BY <2>1 DEF FileType
    <2> QED BY <2>1, <2>2, LoseOrder
  <1>3. CASE PersistData
    <2>1. /\ current \in Hours /\ UNCHANGED <<queue, offered, batch, done>>
          /\ disk' = [disk EXCEPT ![current] = Flushed(@, buffer, Len(buffer), FALSE)]
          /\ buffer' = <<>>
      BY <1>3 DEF PersistData, SeekToHeader, FileType
    <2>2. Len(buffer) \in 0..Len(buffer) /\ FALSE \in BOOLEAN
      BY Lengths
    <2> QED BY <2>1, <2>2, DrainOrder
  <1>4. CASE PersistFails
    <2>1. /\ current \in Hours /\ UNCHANGED <<queue, offered>> /\ LoseBuffer(buffer)
          /\ Return(FALSE)
      BY <1>4 DEF PersistFails, FileType
    <2>2. buffer \in Seq(Record)
      BY DEF FileType
    <2> QED BY <2>1, <2>2, ReturnBatch, LoseOrder
  <1> QED BY <1>1, <1>2, <1>3, <1>4

(* Every step keeps the order, and adds to the files at most. *)
LEMMA OrderStep ==
    ASSUME WriterInv, OrderInv, [Next]_vars
    PROVE  /\ OrderInv'
           /\ \/ FilesGrow /\ offered' = offered
              \/ SameRecords /\ offered' = offered + 1
  <1>1. CASE \/ Open \/ Close \/ CloseNotify \/ CloseJoin \/ SpuriousWakeup \/ Crash
             \/ ChooseFile \/ LoopEnds \/ Fail \/ OpenFileFails \/ FinalSkip
             \/ (\E p \in Producers : EnqueueNotify(p)) \/ UNCHANGED vars
    BY <1>1, QuietOrder DEF FilesGrow
  <1>2. CASE CreateFile \/ RepairTruncate \/ RepairCount \/ PersistCount
    BY <1>2, HeaderOrder DEF FilesGrow
  <1>3. CASE WriteRecord \/ WriteRecordFails \/ PersistData \/ PersistFails
    BY <1>3, FlushOrder
  <1>4. CASE \E p \in Producers, h \in Hours : Enqueue(p, h)
    BY <1>4, EnqueueOrder
  <1>5. CASE TakeBatch
    <2>1. offered' = offered
      BY <1>5 DEF TakeBatch
    <2> QED BY <1>5, <2>1, TakeBatchOrder DEF FilesGrow
  <1>6. CASE Finished
    BY <1>1, <1>6 DEF Finished
  <1> QED BY <1>1, <1>2, <1>3, <1>4, <1>5, <1>6 DEF Next, WorkerStep, PersistStep

(* Nothing is written yet. *)
LEMMA OrderInit == Init => OrderInv
  <1> SUFFICES ASSUME Init PROVE OrderInv
    OBVIOUS
  <1>1. /\ queue = <<>> /\ buffer = <<>> /\ batch = <<>> /\ done = 0 /\ offered = 0
        /\ \A h \in Hours : disk[h].recs = <<>>
    BY DEF Init, NoRecords
  <1>2. Pending = {} /\ OnDisk = {} /\ Ids(buffer) = {} /\ Ids(queue) = {}
    BY <1>1, EmptyOrder DEF Pending, OnDisk
  <1> QED BY <1>1, <1>2, EmptyOrder DEF OrderInv, Below

(* Records on their way to the files never overtake each other. *)
THEOREM WriterOrder == Spec => []OrderInv
  <1>1. WriterInv /\ OrderInv /\ [Next]_vars => OrderInv'
    BY OrderStep
  <1> QED BY <1>1, OrderInit, WriterInvariance, PTL DEF Spec

-------------------------------------------------------------------------------
(* The refinement of DurableLog. *)

(* The numbers of a sequence of records. *)
LEMMA NumbersOf ==
    ASSUME NEW s \in Seq(Record)
    PROVE  /\ Len(IdsOf(s)) = Len(s) /\ \A i \in 1..Len(s) : IdsOf(s)[i] = s[i].id
           /\ \A n \in Nat : Ids(s) \subseteq 1..n => IdsOf(s) \in Seq(1..n)
  <1>1. Len(s) \in Nat
    OBVIOUS
  <1>2. Len(IdsOf(s)) = Len(s) /\ \A i \in 1..Len(s) : IdsOf(s)[i] = s[i].id
    BY <1>1 DEF IdsOf
  <1>3. ASSUME NEW n \in Nat, Ids(s) \subseteq 1..n PROVE IdsOf(s) \in Seq(1..n)
    <2>1. \A i \in 1..Len(s) : s[i].id \in 1..n
      BY <1>3 DEF Ids
    <2>2. IdsOf(s) \in [1..Len(s) -> 1..n]
      BY <2>1 DEF IdsOf
    <2> QED BY <1>1, <2>2
  <1> QED BY <1>2, <1>3

(* Records added to one file are a step of the log. *)
LEMMA GrowsStores ==
    ASSUME WriterInv, WriterInv', OrderInv, OrderInv', offered' = offered,
           NEW h \in Hours, NEW x \in Seq(Record), Grows(h, x)
    PROVE  Durable!Store(h)
  <1> DEFINE old == disk[h].recs  new == disk'[h].recs
  <1>1. \A g \in Hours : disk[g].recs \in Seq(Record) /\ disk'[g].recs \in Seq(Record)
    BY DEF FileType, File
  <1>2. offered \in Nat
    BY BoundAssumption DEF CounterType
  <1>3. FileIds' \in [Hours -> Seq(1..offered)]
    <2>1. ASSUME NEW g \in Hours PROVE IdsOf(disk'[g].recs) \in Seq(1..offered)
      <3>1. Ids(disk'[g].recs) \subseteq OnDisk'
        BY DEF OnDisk
      <3>2. OnDisk' \subseteq 1..offered
        BY DEF OrderInv
      <3> QED BY <1>1, <1>2, <3>1, <3>2, NumbersOf
    <2> QED BY <2>1 DEF FileIds
  <1>4. \A g \in Hours \ {h} : FileIds'[g] = FileIds[g]
    BY DEF Grows, FileIds
  <1>5. /\ old \in Seq(Record) /\ new \in Seq(Record) /\ new = old \o x
        /\ Rising(new) /\ Below(OnDisk, Ids(x))
    BY <1>1 DEF Grows, OrderInv
  <1>6. FileIds'[h] = IdsOf(new) /\ FileIds[h] = IdsOf(old)
    BY DEF FileIds
  <1>7. \A n : n \in Durable!Stored => n \in OnDisk
    <2>1. ASSUME NEW g \in Hours, NEW i \in 1..Len(IdsOf(disk[g].recs))
          PROVE  IdsOf(disk[g].recs)[i] \in OnDisk
      <3>1. Ids(disk[g].recs) \subseteq OnDisk
        BY DEF OnDisk
      <3>2. IdsOf(disk[g].recs)[i] = disk[g].recs[i].id /\ i \in 1..Len(disk[g].recs)
        BY <1>1, NumbersOf
      <3> QED BY <3>1, <3>2 DEF Ids
    <2> QED BY <2>1 DEF Durable!Stored, FileIds
  <1> HIDE DEF old, new
  <1>8. /\ Len(old) \in Nat /\ Len(x) \in Nat /\ Len(new) = Len(old) + Len(x)
        /\ \A i \in 1..Len(old) : new[i] = old[i]
        /\ \A i \in 1..Len(x) : new[Len(old) + i] = x[i]
    BY <1>5
  <1>9. /\ Len(IdsOf(old)) = Len(old) /\ \A i \in 1..Len(old) : IdsOf(old)[i] = old[i].id
        /\ Len(IdsOf(new)) = Len(new) /\ \A i \in 1..Len(new) : IdsOf(new)[i] = new[i].id
    BY <1>5, NumbersOf
  <1>10. Len(IdsOf(new)) >= Len(IdsOf(old))
    BY <1>8, <1>9
  <1>11. SubSeq(IdsOf(new), 1, Len(IdsOf(old))) = IdsOf(old)
    <2>1. \A i \in 1..Len(old) : i \in 1..Len(new)
      BY <1>8
    <2>2. \A i \in 1..Len(old) : IdsOf(new)[i] = IdsOf(old)[i]
      BY <1>8, <1>9, <2>1
    <2>3. IdsOf(new) \in Seq(1..offered)
      BY <1>3, <1>6
    <2>4. IdsOf(old) = [i \in 1..Len(old) |-> old[i].id]
      BY DEF IdsOf
    <2>5. SubSeq(IdsOf(new), 1, Len(old)) = [i \in 1..Len(old) |-> IdsOf(new)[i]]
      BY <1>8, <1>9, <2>3
    <2> QED BY <1>9, <2>2, <2>4, <2>5
  <1>12. ASSUME NEW i \in Len(IdsOf(old)) + 1 .. Len(IdsOf(new))
         PROVE  IdsOf(new)[i] \notin Durable!Stored
    <2>1. i - Len(old) \in 1..Len(x) /\ i \in 1..Len(new) /\ Len(old) + (i - Len(old)) = i
      BY <1>8, <1>9
    <2>2. IdsOf(new)[i] = x[i - Len(old)].id
      BY <1>8, <1>9, <2>1
    <2>3. IdsOf(new)[i] \in Ids(x) /\ IdsOf(new)[i] \in Int
      <3>1. new[i] \in Record
        BY <1>5, <2>1, ElementOfSeq
      <3>2. new[i].id \in Int
        BY <3>1, BoundAssumption DEF Record
      <3> QED BY <1>9, <2>1, <2>2, <3>2 DEF Ids
    <2>4. ASSUME IdsOf(new)[i] \in OnDisk PROVE FALSE
      <3>1. IdsOf(new)[i] < IdsOf(new)[i]
        BY <1>5, <2>3, <2>4 DEF Below
      <3> QED BY <2>3, <3>1
    <2> QED BY <1>7, <2>4
  <1>13. Durable!Increasing(IdsOf(new))
    <2>1. ASSUME NEW i \in 1..Len(IdsOf(new)), NEW j \in 1..Len(IdsOf(new)), i < j
          PROVE  IdsOf(new)[i] < IdsOf(new)[j]
      <3>1. i \in 1..Len(new) /\ j \in 1..Len(new)
        BY <1>9
      <3>2. new[i].id < new[j].id
        BY <1>5, <2>1, <3>1 DEF Rising
      <3> QED BY <1>9, <3>1, <3>2
    <2> QED BY <2>1 DEF Durable!Increasing
  <1> QED BY <1>3, <1>4, <1>6, <1>10, <1>11, <1>12, <1>13 DEF Durable!Store

(* For every number of hours, records and openings and every capacity, the files
   are a durable log of the calls of write(): whatever fails and wherever the
   process dies, no complete record is removed, moved, repeated or reordered. *)
THEOREM WriterImplementsDurableLog == Spec => ImplementsDurableLog
  <1>1. Init => Durable!Init
    <2> SUFFICES ASSUME Init PROVE Durable!Init
      OBVIOUS
    <2>1. offered = 0 /\ \A h \in Hours : disk[h].recs = <<>>
      BY DEF Init, NoRecords
    <2>2. IdsOf(<<>>) = <<>>
      BY DEF IdsOf
    <2> QED BY <2>1, <2>2 DEF Durable!Init, FileIds
  <1>2. WriterInv /\ WriterInv' /\ OrderInv /\ [Next]_vars => [Durable!Next]_<<offered, FileIds>>
    <2> SUFFICES ASSUME WriterInv, WriterInv', OrderInv, [Next]_vars
                 PROVE  Durable!Next \/ UNCHANGED <<offered, FileIds>>
      OBVIOUS
    <2>1. /\ OrderInv'
          /\ \/ FilesGrow /\ offered' = offered
             \/ SameRecords /\ offered' = offered + 1
      BY OrderStep
    <2>2. SameRecords => FileIds' = FileIds
      BY DEF SameRecords, FileIds
    <2>3. CASE SameRecords /\ offered' = offered
      BY <2>2, <2>3
    <2>4. CASE SameRecords /\ offered' = offered + 1
      BY <2>2, <2>4 DEF Durable!Next, Durable!Offer
    <2>5. CASE offered' = offered /\ \E h \in Hours, x \in Seq(Record) : Grows(h, x)
      <3>1. PICK h \in Hours, x \in Seq(Record) : Grows(h, x)
        BY <2>5
      <3>2. Durable!Store(h)
        BY <2>1, <2>5, <3>1, GrowsStores
      <3> QED BY <3>2 DEF Durable!Next
    <2> QED BY <2>1, <2>3, <2>4, <2>5 DEF FilesGrow
  <1> QED
    BY <1>1, <1>2, WriterInvariance, WriterOrder, PTL
       DEF Spec, ImplementsDurableLog, Durable!Spec

-------------------------------------------------------------------------------
(* Nothing accepted is lost without an error. *)

(* The records the worker still has to write, and all that were accepted and may
   not have reached the operating system yet. *)
Left == {batch[i] : i \in (done + 1)..Len(batch)}
Held == RecordsOf(buffer) \cup Left \cup RecordsOf(queue)

(* An I/O operation has failed; the worker may still have to say so. *)
Failed == writeError \/ worker = "fail"

(* After a failure the worker only leaves; where it waits or has left in peace
   its batch is done with; a count follows complete records. *)
RestInv ==
    /\ writeError => worker \in {"fail", "exited", "none"}
    /\ worker \in {"lock", "waiting"} \/ (worker \in {"exited", "none"} /\ ~writeError)
          => batch = <<>>
    /\ phase = "count" => ~disk[current].torn

(* Until something fails every accepted record is in its file or still held; the
   buffer holds records of the open file only. *)
HeldInv ==
    /\ startId <= offered
    /\ \A r \in RecordsOf(accepted) : startId < r.id /\ r.id <= offered
    /\ Held \subseteq RecordsOf(accepted)
    /\ \A r \in RecordsOf(buffer) : r.hour = current
    /\ ~Failed => \A h \in Hours : Accepted(h) \subseteq WrittenNow(h) \cup Held

(* What the files hold of this opening was accepted, with no hole. *)
NoHoles ==
    \A h \in Hours :
        /\ WrittenNow(h) \subseteq Accepted(h)
        /\ \A r \in WrittenNow(h), s \in Accepted(h) : s.id < r.id => s \in WrittenNow(h)

(* Until something fails, a file that was written to and left is whole. *)
SealedInv ==
    ~Failed => \A h \in Hours \ {current} : WrittenNow(h) # {} =>
                  disk[h].count = Len(disk[h].recs) /\ ~disk[h].torn

LossInv == RestInv /\ HeldInv /\ NoHoles /\ SealedInv

(* The records of a sequence, and their numbers. *)
LEMMA RecordsIds ==
    ASSUME NEW s \in Seq(Record)
    PROVE  /\ RecordsOf(s) \subseteq Record
           /\ \A r \in RecordsOf(s) : r.id \in Ids(s) /\ r.id \in Int
  <1>1. \A i \in 1..Len(s) : s[i] \in Record
    OBVIOUS
  <1>2. \A r \in Record : r.id \in Int
    BY BoundAssumption DEF Record
  <1> QED BY <1>1, <1>2 DEF RecordsOf, Ids

(* One more record at the end. *)
LEMMA AppendRecords ==
    ASSUME NEW s \in Seq(Record), NEW r \in Record
    PROVE  RecordsOf(Append(s, r)) = RecordsOf(s) \cup {r}
  <1> DEFINE t == Append(s, r)  n == Len(s)
  <1>1. n \in Nat /\ Len(t) = n + 1 /\ t[n + 1] = r /\ \A i \in 1..n : t[i] = s[i]
    OBVIOUS
  <1> HIDE DEF t
  <1>2. ASSUME NEW i \in 1..(n + 1) PROVE t[i] \in RecordsOf(s) \cup {r}
    <2>1. CASE i = n + 1
      BY <1>1, <2>1
    <2>2. CASE i \in 1..n
      BY <1>1, <2>2 DEF RecordsOf
    <2> QED BY <1>1, <2>1, <2>2
  <1>3. r \in RecordsOf(t)
    <2>1. n + 1 \in 1..Len(t)
      BY <1>1
    <2> QED BY <1>1, <2>1 DEF RecordsOf
  <1>4. ASSUME NEW i \in 1..n PROVE s[i] \in RecordsOf(t)
    <2>1. i \in 1..Len(t)
      BY <1>1
    <2> QED BY <1>1, <2>1 DEF RecordsOf
  <1>5. RecordsOf(t) \subseteq RecordsOf(s) \cup {r}
    BY <1>1, <1>2 DEF RecordsOf
  <1>6. RecordsOf(s) \subseteq RecordsOf(t)
    BY <1>4 DEF RecordsOf
  <1> QED BY <1>3, <1>5, <1>6 DEF t

(* The two parts of a sequence. *)
LEMMA CutRecords ==
    ASSUME NEW s \in Seq(Record), NEW k \in 0..Len(s)
    PROVE  RecordsOf(s) = RecordsOf(SubSeq(s, 1, k)) \cup RecordsOf(SubSeq(s, k + 1, Len(s)))
  <1> DEFINE a == SubSeq(s, 1, k)  b == SubSeq(s, k + 1, Len(s))  n == Len(s)
  <1>1. /\ n \in Nat /\ k \in Nat /\ k <= n /\ Len(a) = k /\ Len(b) = n - k
        /\ \A i \in 1..k : a[i] = s[i]
        /\ \A i \in 1..(n - k) : b[i] = s[k + i]
    OBVIOUS
  <1> HIDE DEF a, b, n
  <1>2. ASSUME NEW i \in 1..k PROVE a[i] \in RecordsOf(s)
    <2>1. i \in 1..Len(s) /\ a[i] = s[i]
      BY <1>1 DEF n
    <2> QED BY <2>1 DEF RecordsOf
  <1>3. ASSUME NEW i \in 1..(n - k) PROVE b[i] \in RecordsOf(s)
    <2>1. k + i \in 1..Len(s) /\ b[i] = s[k + i]
      BY <1>1 DEF n
    <2> QED BY <2>1 DEF RecordsOf
  <1>4. ASSUME NEW i \in 1..n PROVE s[i] \in RecordsOf(a) \cup RecordsOf(b)
    <2>1. CASE i <= k
      <3>1. i \in 1..Len(a) /\ a[i] = s[i]
        BY <1>1, <2>1
      <3> QED BY <3>1 DEF RecordsOf
    <2>2. CASE i > k
      <3>1. i - k \in 1..Len(b) /\ k + (i - k) = i
        BY <1>1, <2>2
      <3>2. b[i - k] = s[i]
        BY <1>1, <3>1
      <3> QED BY <3>1, <3>2 DEF RecordsOf
    <2> QED BY <1>1, <2>1, <2>2
  <1>5. RecordsOf(a) \subseteq RecordsOf(s) /\ RecordsOf(b) \subseteq RecordsOf(s)
    BY <1>1, <1>2, <1>3 DEF RecordsOf
  <1>6. RecordsOf(s) \subseteq RecordsOf(a) \cup RecordsOf(b)
    BY <1>4 DEF RecordsOf, n
  <1> QED BY <1>5, <1>6 DEF a, b, n

(* Two sequences put together. *)
LEMMA JoinRecords ==
    ASSUME NEW s \in Seq(Record), NEW t \in Seq(Record)
    PROVE  RecordsOf(s \o t) = RecordsOf(s) \cup RecordsOf(t)
  <1> DEFINE u == s \o t  m == Len(s)  n == Len(t)
  <1>1. /\ m \in Nat /\ n \in Nat /\ Len(u) = m + n
        /\ \A i \in 1..m : u[i] = s[i]
        /\ \A i \in 1..n : u[m + i] = t[i]
    OBVIOUS
  <1> HIDE DEF u, m, n
  <1>2. ASSUME NEW i \in 1..(m + n) PROVE u[i] \in RecordsOf(s) \cup RecordsOf(t)
    <2>1. CASE i <= m
      <3>1. i \in 1..Len(s) /\ u[i] = s[i]
        BY <1>1, <2>1 DEF m
      <3> QED BY <3>1 DEF RecordsOf
    <2>2. CASE i > m
      <3>1. i - m \in 1..Len(t) /\ m + (i - m) = i
        BY <1>1, <2>2 DEF n
      <3>2. u[i] = t[i - m]
        BY <1>1, <3>1 DEF n
      <3> QED BY <3>1, <3>2 DEF RecordsOf
    <2> QED BY <1>1, <2>1, <2>2
  <1>3. ASSUME NEW i \in 1..m PROVE s[i] \in RecordsOf(u)
    <2>1. i \in 1..Len(u) /\ u[i] = s[i]
      BY <1>1
    <2> QED BY <2>1 DEF RecordsOf
  <1>4. ASSUME NEW i \in 1..n PROVE t[i] \in RecordsOf(u)
    <2>1. m + i \in 1..Len(u) /\ u[m + i] = t[i]
      BY <1>1
    <2> QED BY <2>1 DEF RecordsOf
  <1>5. RecordsOf(u) \subseteq RecordsOf(s) \cup RecordsOf(t)
    BY <1>1, <1>2 DEF RecordsOf
  <1>6. RecordsOf(s) \subseteq RecordsOf(u)
    BY <1>3 DEF RecordsOf, m
  <1>7. RecordsOf(t) \subseteq RecordsOf(u)
    BY <1>4 DEF RecordsOf, n
  <1> QED BY <1>5, <1>6, <1>7 DEF u

(* No records. *)
LEMMA EmptyRecords == RecordsOf(<<>>) = {}
BY DEF RecordsOf

(* Records moving between the batch, the buffer and the queue, or lost with an
   error, while the files keep theirs. *)
LEMMA HeldStill ==
    ASSUME HeldInv, NoHoles, SameRecords, UNCHANGED <<accepted, startId, offered>>,
           Held' \subseteq Held, \A r \in RecordsOf(buffer') : r.hour = current',
           ~Failed' => ~Failed /\ Held' = Held
    PROVE  HeldInv' /\ NoHoles'
  <1>1. \A h \in Hours : Accepted(h)' = Accepted(h) /\ WrittenNow(h)' = WrittenNow(h)
    BY DEF Accepted, WrittenNow, SameRecords
  <1>2. NoHoles'
    BY <1>1 DEF NoHoles
  <1>3. ~Failed' => \A h \in Hours : Accepted(h)' \subseteq WrittenNow(h)' \cup Held'
    BY <1>1 DEF HeldInv
  <1>4. RecordsOf(accepted)' = RecordsOf(accepted)
    OBVIOUS
  <1>5. /\ \A r \in RecordsOf(accepted)' : startId' < r.id /\ r.id <= offered'
        /\ Held' \subseteq RecordsOf(accepted)'
    BY <1>4 DEF HeldInv
  <1> QED BY <1>2, <1>3, <1>5 DEF HeldInv

(* A new opening or a new process: nothing is accepted yet. *)
LEMMA HeldReset ==
    ASSUME WriterInv, OrderInv, SameRecords, accepted' = <<>>, startId' = offered,
           offered' = offered, Held' = {}
    PROVE  HeldInv' /\ NoHoles' /\ \A h \in Hours : WrittenNow(h)' = {}
  <1>1. RecordsOf(accepted)' = {} /\ \A h \in Hours : Accepted(h)' = {}
    BY EmptyRecords DEF Accepted
  <1>2. ASSUME NEW h \in Hours PROVE WrittenNow(h)' = {}
    <2>1. disk[h].recs \in Seq(Record)
      BY DEF FileType, File
    <2>2. \A r \in RecordsOf(disk[h].recs) : r.id \in OnDisk
      BY <2>1, RecordsIds DEF OnDisk
    <2>3. \A n \in OnDisk : ~(n > offered)
      BY BoundAssumption DEF OrderInv, CounterType
    <2>4. RecordsOf(disk'[h].recs) = RecordsOf(disk[h].recs)
      BY DEF SameRecords
    <2> QED BY <2>2, <2>3, <2>4 DEF WrittenNow
  <1>3. NoHoles'
    BY <1>1, <1>2 DEF NoHoles
  <1>4. RecordsOf(buffer') = {}
    BY DEF Held
  <1>5. startId' <= offered'
    BY BoundAssumption DEF CounterType
  <1>6. HeldInv'
    BY <1>1, <1>4, <1>5 DEF HeldInv
  <1> QED BY <1>2, <1>3, <1>6

(* What comes next: the records b for the open file, and those after them. *)
Front(b, A) ==
    /\ b \in Seq(Record) /\ Rising(b) /\ Held = RecordsOf(b) \cup A
    /\ Below(OnDisk, Ids(b)) /\ Below(OnDisk \cup Ids(b), {r.id : r \in A})
    /\ \A r \in RecordsOf(b) : r.hour = current

(* A flush changes one file, and leaves half a record there or not. *)
LEMMA FlushRecords ==
    ASSUME WriterInv, NEW h \in Hours, NEW b \in Seq(Record), NEW k \in 0..Len(b),
           NEW t \in BOOLEAN, disk' = [disk EXCEPT ![h] = Flushed(@, b, k, t)]
    PROVE  disk'[h].torn = t /\ \A g \in Hours \ {h} : disk'[g] = disk[g]
  <1> DEFINE f == Flushed(disk[h], b, k, t)
  <1>1. disk \in [Hours -> File] /\ disk[h] \in File
    BY DEF FileType
  <1>2. f.torn = t
    BY <1>1 DEF Flushed, File
  <1> HIDE DEF f
  <1>3. disk' = [disk EXCEPT ![h] = f]
    BY DEF f
  <1> QED BY <1>1, <1>2, <1>3

(* A flush of the first k records of what comes next.  If the others are lost an
   error is raised, and the files end before the first one lost. *)
LEMMA HeldFlush ==
    ASSUME WriterInv, OrderInv, HeldInv, NoHoles, ~Failed, NEW h \in Hours, h = current,
           NEW b, NEW A, Front(b, A), NEW k \in 0..Len(b), NEW t \in BOOLEAN,
           disk' = [disk EXCEPT ![h] = Flushed(@, b, k, t)],
           UNCHANGED <<accepted, startId, offered>>,
           Held' \subseteq Held, \A r \in RecordsOf(buffer') : r.hour = current',
           ~Failed' => Held' = RecordsOf(SubSeq(b, k + 1, Len(b))) \cup A
    PROVE  HeldInv' /\ NoHoles' /\ \A g \in Hours \ {h} : WrittenNow(g)' = WrittenNow(g)
  <1> DEFINE x == SubSeq(b, 1, k)  y == SubSeq(b, k + 1, Len(b))
  <1>1. b \in Seq(Record) /\ Rising(b) /\ Below(OnDisk, Ids(b))
    BY DEF Front
  <1>2. x \in Seq(Record) /\ y \in Seq(Record) /\ Grows(h, x)
    BY <1>1, Cut, FlushGrows
  <1>3. OnDisk' = OnDisk \cup Ids(x)
    BY <1>2, GrowsInOrder
  <1>4. /\ Ids(b) = Ids(x) \cup Ids(y) /\ Below(Ids(x), Ids(y))
        /\ RecordsOf(b) = RecordsOf(x) \cup RecordsOf(y)
    BY <1>1, CutOrder, CutRecords
  <1>5. /\ RecordsOf(disk'[h].recs) = RecordsOf(disk[h].recs) \cup RecordsOf(x)
        /\ \A g \in Hours \ {h} : disk'[g] = disk[g]
    <2>1. disk'[h].recs = disk[h].recs \o x /\ disk[h].recs \in Seq(Record)
      BY <1>2 DEF Grows, FileType, File
    <2> HIDE DEF x
    <2>3. RecordsOf(disk[h].recs \o x) = RecordsOf(disk[h].recs) \cup RecordsOf(x)
      BY <1>2, <2>1, JoinRecords
    <2>2. \A g \in Hours \ {h} : disk'[g] = disk[g]
      BY <1>1, FlushRecords
    <2> QED BY <2>1, <2>2, <2>3
  <1> HIDE DEF x, y
  <1>6. Held = RecordsOf(x) \cup RecordsOf(y) \cup A
    BY <1>4 DEF Front
  <1>7. RecordsOf(x) \subseteq RecordsOf(accepted) /\ \A r \in RecordsOf(x) : r.hour = h
    BY <1>4, <1>6 DEF Front, HeldInv
  <1>8. RecordsOf(x) \subseteq Accepted(h)
    BY <1>7 DEF Accepted
  <1>9. \A g \in Hours : Accepted(g)' = Accepted(g)
    BY DEF Accepted
  <1>10. WrittenNow(h)' = WrittenNow(h) \cup RecordsOf(x)
    <2>1. \A r \in RecordsOf(x) : r.id > startId
      <3>1. \A r \in RecordsOf(x) : startId < r.id /\ r.id \in Int
        BY <1>2, <1>7, RecordsIds DEF HeldInv
      <3> QED BY <3>1, BoundAssumption DEF CounterType
    <2> QED BY <1>5, <2>1 DEF WrittenNow
  <1>11. \A g \in Hours \ {h} : WrittenNow(g)' = WrittenNow(g)
    BY <1>5 DEF WrittenNow
  <1>12. \A g \in Hours : WrittenNow(g)' \subseteq Accepted(g)'
    BY <1>8, <1>9, <1>10, <1>11 DEF NoHoles
  <1>13. \A r \in RecordsOf(x) : r \in WrittenNow(r.hour)'
    BY <1>7, <1>10
  <1>14. \A g \in Hours : WrittenNow(g) \subseteq WrittenNow(g)'
    BY <1>10, <1>11
  <1>15. ASSUME NEW g \in Hours, NEW s \in Accepted(g)
         PROVE  s \in WrittenNow(g)' \cup RecordsOf(y) \cup A
    <2>1. s \in WrittenNow(g) \cup Held /\ s.hour = g
      BY DEF HeldInv, Accepted
    <2> QED BY <1>6, <1>13, <1>14, <2>1
  <1>16. \A g \in Hours : \A r \in WrittenNow(g)' : r.id \in OnDisk' /\ r.id \in Int
    <2> SUFFICES ASSUME NEW g \in Hours, NEW r \in WrittenNow(g)' PROVE r.id \in OnDisk' /\ r.id \in Int
      OBVIOUS
    <2>1. disk[g].recs \in Seq(Record)
      BY DEF FileType, File
    <2>2. r \in RecordsOf(disk[g].recs) \/ r \in RecordsOf(x)
      BY <1>5 DEF WrittenNow
    <2>3. r \in RecordsOf(x) => r.id \in Ids(x) /\ r.id \in Int
      BY <1>2, RecordsIds
    <2>4. r \in RecordsOf(disk[g].recs) => r.id \in OnDisk /\ r.id \in Int
      BY <2>1, RecordsIds DEF OnDisk
    <2> QED BY <1>3, <2>2, <2>3, <2>4
  <1>17. \A n \in OnDisk', s \in RecordsOf(y) \cup A : n < s.id
    <2>1. Below(OnDisk', Ids(y))
      BY <1>1, <1>3, <1>4 DEF Below
    <2>2. \A n \in OnDisk', s \in A : n < s.id
      BY <1>3, <1>4 DEF Front, Below
    <2>3. \A s \in RecordsOf(y) : s.id \in Ids(y)
      BY <1>2, RecordsIds
    <2> QED BY <2>1, <2>2, <2>3 DEF Below
  <1>18. ASSUME NEW g \in Hours, NEW r \in WrittenNow(g)', NEW s \in Accepted(g)', s.id < r.id
         PROVE  s \in WrittenNow(g)'
    <2>1. s \in WrittenNow(g)' \cup RecordsOf(y) \cup A
      BY <1>9, <1>15
    <2>2. ASSUME s \in RecordsOf(y) \cup A PROVE FALSE
      <3>1. r.id < s.id /\ r.id \in Int
        BY <1>16, <1>17, <2>2
      <3>2. s.id \in Int
        <4>1. s \in RecordsOf(accepted) /\ accepted \in Seq(Record)
          BY <1>9 DEF Accepted, QueueType
        <4> QED BY <4>1, RecordsIds
      <3> QED BY <1>18, <3>1, <3>2
    <2> QED BY <2>1, <2>2
  <1>19. NoHoles'
    BY <1>12, <1>18 DEF NoHoles
  <1>20. ~Failed' => \A g \in Hours : Accepted(g)' \subseteq WrittenNow(g)' \cup Held'
    <2>1. ~Failed' => Held' = RecordsOf(y) \cup A
      BY DEF y
    <2> QED BY <1>9, <1>15, <2>1
  <1>21. RecordsOf(accepted)' = RecordsOf(accepted)
    OBVIOUS
  <1>22. HeldInv'
    BY <1>20, <1>21 DEF HeldInv
  <1> QED BY <1>11, <1>19, <1>22

(* Where the count is about to be written the worker is not writing records. *)
LEMMA CountPhase ==
    ASSUME WriterInv, phase = "count"
    PROVE  /\ worker \in {"roll", "persist"} \/ (owner = "final" /\ worker = "none")
           /\ current \in Hours /\ buffer = <<>> /\ ~Failed
  <1>1. Persisting /\ buffer = <<>> /\ current \in Hours /\ ~writeError
    BY DEF StreamInv, FileType
  <1>2. worker \in {"roll", "persist"} \/ (owner = "final" /\ worker = "none")
    BY <1>1 DEF Persisting, ControlInv
  <1> QED BY <1>1, <1>2 DEF Failed

(* The steps that leave the directory alone. *)
LEMMA RestQuiet ==
    ASSUME WriterInv, RestInv,
           \/ Open \/ Close \/ CloseNotify \/ CloseJoin \/ SpuriousWakeup \/ Crash
           \/ ChooseFile \/ LoopEnds \/ Fail \/ OpenFileFails \/ FinalSkip \/ TakeBatch
           \/ (\E p \in Producers : EnqueueNotify(p) \/ \E h \in Hours : Enqueue(p, h))
           \/ UNCHANGED vars
    PROVE  RestInv'
  <1>1. CASE Open \/ Crash
    BY <1>1, CountPhase DEF Open, Crash, RestInv, ControlInv
  <1>2. CASE Close \/ CloseNotify \/ CloseJoin \/ SpuriousWakeup
    BY <1>2, CountPhase DEF Close, CloseNotify, CloseNotifies, NotifyWorker, CloseJoin,
           SpuriousWakeup, RestInv, WorkerPC
  <1>3. CASE ChooseFile \/ LoopEnds \/ Fail \/ OpenFileFails
    BY <1>3, CountPhase DEF ChooseFile, LoopEnds, Fail, OpenFileFails, LoopFails, RestInv
  <1>4. CASE FinalSkip
    BY <1>4 DEF FinalSkip, Return, RestInv, ControlInv
  <1>5. CASE TakeBatch
    <2>1. phase # "count"
      BY <1>5, CountPhase, Zenon DEF TakeBatch
    <2>2. ~writeError
      BY <1>5 DEF TakeBatch, RestInv
    <2> QED BY <1>5, <2>1, <2>2 DEF TakeBatch, RestInv
  <1>6. CASE \E p \in Producers : EnqueueNotify(p) \/ \E h \in Hours : Enqueue(p, h)
    <2>1. /\ worker' \in {worker, IF worker = "waiting" THEN "lock" ELSE worker}
          /\ UNCHANGED <<writeError, batch, phase, disk, current>>
      BY <1>6 DEF EnqueueNotify, NotifyWorker, Enqueue
    <2> QED BY <2>1 DEF RestInv
  <1>7. CASE UNCHANGED vars
    BY <1>7 DEF vars, RestInv
  <1> QED BY <1>1, <1>2, <1>3, <1>4, <1>5, <1>6, <1>7

(* The steps that touch a file. *)
LEMMA RestBusy ==
    ASSUME WriterInv, RestInv,
           \/ CreateFile \/ RepairTruncate \/ RepairCount \/ PersistCount
           \/ WriteRecord \/ WriteRecordFails \/ PersistData \/ PersistFails
    PROVE  RestInv'
  <1>1. CASE CreateFile \/ RepairTruncate \/ RepairCount \/ WriteRecord \/ WriteRecordFails
    <2>1. worker \in {"create", "repair", "write"}
      BY <1>1 DEF CreateFile, RepairTruncate, RepairCount, WriteRecord, WriteRecordFails
    <2>2. phase # "count" /\ ~writeError
      BY <2>1, CountPhase DEF RestInv, ControlInv
    <2>3. UNCHANGED <<phase, writeError>> /\ worker' \in {"write", "repair", "fail"}
      BY <1>1 DEF CreateFile, RepairTruncate, RepairCount, WriteRecord, WriteRecordFails,
             LoopFails
    <2> QED BY <2>2, <2>3 DEF RestInv
  <1>2. CASE PersistCount
    <2>1. phase' = "data" /\ ~writeError'
      BY <1>2, CountPhase DEF PersistCount, Return, Failed
    <2>2. \/ worker' = "lock" /\ batch' = <<>>
          \/ worker' = "create"
          \/ UNCHANGED <<worker, batch>> /\ writeError' = writeError
      BY <1>2 DEF PersistCount, Return
    <2> QED BY <2>1, <2>2 DEF RestInv
  <1>3. CASE PersistData
    <2>1. UNCHANGED <<worker, batch, writeError, current>> /\ current \in Hours
      BY <1>3 DEF PersistData, FileType
    <2>2. disk'[current].torn = FALSE
      <3>1. disk' = [disk EXCEPT ![current] = Flushed(@, buffer, Len(buffer), FALSE)]
        BY <1>3 DEF PersistData, SeekToHeader
      <3>2. Len(buffer) \in 0..Len(buffer) /\ buffer \in Seq(Record) /\ FALSE \in BOOLEAN
        BY Lengths DEF FileType
      <3> QED BY <2>1, <3>1, <3>2, FlushRecords
    <2> QED BY <2>1, <2>2 DEF RestInv
  <1>4. CASE PersistFails
    <2>1. phase' = "data" /\ writeError'
      BY <1>4 DEF PersistFails, Return
    <2>2. worker' \in {"fail", "none"}
      BY <1>4 DEF PersistFails, Return, LoopFails, ControlInv
    <2> QED BY <2>1, <2>2 DEF RestInv
  <1> QED BY <1>1, <1>2, <1>3, <1>4

(* A file the writer has left stays whole. *)
LEMMA SealedStill ==
    ASSUME SealedInv, startId' = startId,
           ~Failed' =>
              /\ ~Failed
              /\ \A h \in Hours \ {current'} :
                    \/ /\ h # current /\ disk'[h].recs = disk[h].recs
                       /\ disk'[h].count = disk[h].count
                       /\ ~disk[h].torn => ~disk'[h].torn
                    \/ disk'[h].count = Len(disk'[h].recs) /\ ~disk'[h].torn
    PROVE  SealedInv'
  <1> SUFFICES ASSUME ~Failed', NEW h \in Hours \ {current'}, WrittenNow(h)' # {}
               PROVE  disk'[h].count = Len(disk'[h].recs) /\ ~disk'[h].torn
    BY DEF SealedInv
  <1>1. CASE /\ h # current /\ disk'[h].recs = disk[h].recs /\ disk'[h].count = disk[h].count
             /\ ~disk[h].torn => ~disk'[h].torn
    <2>1. WrittenNow(h)' = WrittenNow(h)
      BY <1>1 DEF WrittenNow
    <2> QED BY <1>1, <2>1 DEF SealedInv
  <1> QED BY <1>1

(* No batch, no buffer and no queue. *)
LEMMA NothingHeld ==
    ASSUME batch' = <<>>, done' = 0, buffer' = <<>>, queue' = <<>>
    PROVE  Held' = {}
  <1>1. Left' = {}
    BY DEF Left
  <1> QED BY <1>1, EmptyRecords DEF Held

(* The writer is opened, or its process dies. *)
LEMMA ResetLoss ==
    ASSUME WriterInv, OrderInv, Open \/ Crash
    PROVE  HeldInv' /\ NoHoles' /\ SealedInv'
  <1>1. batch' = <<>> /\ done' = 0 /\ buffer' = <<>> /\ queue' = <<>>
    BY DEF Open, Crash, ControlInv, StreamInv
  <1>2. accepted' = <<>> /\ startId' = offered /\ UNCHANGED <<disk, offered>>
    BY DEF Open, Crash
  <1>3. HeldInv' /\ NoHoles' /\ \A h \in Hours : WrittenNow(h)' = {}
    BY <1>1, <1>2, NothingHeld, HeldReset DEF SameRecords
  <1> QED BY <1>3 DEF SealedInv

(* The owner, the notifications and the steps between two records. *)
LEMMA QuietLoss ==
    ASSUME WriterInv, HeldInv, NoHoles, SealedInv,
           \/ Close \/ CloseNotify \/ CloseJoin \/ SpuriousWakeup \/ ChooseFile \/ LoopEnds
           \/ (\E p \in Producers : EnqueueNotify(p)) \/ UNCHANGED vars
    PROVE  HeldInv' /\ NoHoles' /\ SealedInv'
  <1>1. UNCHANGED <<buffer, batch, done, queue, current, disk, accepted, startId, offered>>
    BY DEF Close, CloseNotify, CloseJoin, SpuriousWakeup, ChooseFile, LoopEnds, EnqueueNotify,
           vars
  <1>2. ~Failed' => ~Failed
    BY DEF Close, CloseNotify, CloseNotifies, NotifyWorker, CloseJoin, SpuriousWakeup,
           ChooseFile, LoopEnds, EnqueueNotify, vars, Failed
  <1>3. Held' = Held /\ SameRecords /\ \A r \in RecordsOf(buffer') : r.hour = current'
    BY <1>1 DEF Held, Left, SameRecords, HeldInv
  <1>4. HeldInv' /\ NoHoles'
    BY <1>1, <1>2, <1>3, HeldStill
  <1> QED BY <1>1, <1>2, <1>4, SealedStill

(* The failure branch, a file that cannot be opened, and the close that has
   nothing to write. *)
LEMMA FailLoss ==
    ASSUME WriterInv, HeldInv, NoHoles, SealedInv, Fail \/ OpenFileFails \/ FinalSkip
    PROVE  HeldInv' /\ NoHoles' /\ SealedInv'
  <1>1. UNCHANGED <<batch, done, disk, accepted, startId, offered>>
    BY DEF Fail, OpenFileFails, FinalSkip, Return, ControlInv
  <1>2. buffer' \in {buffer, <<>>} /\ queue' \in {queue, <<>>}
    BY DEF Fail, OpenFileFails, FinalSkip
  <1>3. Held' \subseteq Held
    BY <1>1, <1>2, EmptyRecords DEF Held, Left
  <1>4. ~Failed' => FinalSkip /\ ~Failed /\ current = NoFile /\ buffer = <<>> /\ queue' = queue
    BY DEF Fail, OpenFileFails, LoopFails, FinalSkip, Failed, ControlInv, StreamInv, Return
  <1>5. ~Failed' => ~Failed /\ Held' = Held /\ current' = current
    <2>1. FinalSkip => current' = NoFile
      BY DEF FinalSkip, Return, ControlInv
    <2>2. ~Failed' => buffer' = buffer
      BY <1>2, <1>4
    <2> QED BY <1>1, <1>4, <2>1, <2>2 DEF Held, Left
  <1>6. \A r \in RecordsOf(buffer') : r.hour = current'
    <2>1. CASE FinalSkip
      BY <2>1, EmptyRecords DEF FinalSkip
    <2>2. CASE Fail \/ OpenFileFails
      BY <2>2 DEF Fail, OpenFileFails, HeldInv
    <2> QED BY <2>1, <2>2
  <1>7. HeldInv' /\ NoHoles'
    BY <1>1, <1>3, <1>5, <1>6, HeldStill DEF SameRecords
  <1> QED BY <1>1, <1>5, <1>7, SealedStill

(* A file is created or repaired. *)
LEMMA OpenFileLoss ==
    ASSUME WriterInv, HeldInv, NoHoles, SealedInv, CreateFile \/ RepairTruncate \/ RepairCount
    PROVE  HeldInv' /\ NoHoles' /\ SealedInv'
  <1>1. UNCHANGED <<buffer, batch, done, queue, accepted, startId, offered, writeError>>
    BY DEF CreateFile, RepairTruncate, RepairCount
  <1>2. worker \in {"create", "repair"} /\ current = NoFile /\ buffer = <<>>
    BY DEF CreateFile, RepairTruncate, RepairCount, ControlInv, StreamInv
  <1>3. NextHour \in Hours /\ disk \in [Hours -> File] /\ \A h \in Hours : disk[h].recs \in Seq(Record)
    BY <1>2, NextHourType DEF ControlInv, FileType, File
  <1>4. SameRecords
    <2>1. CASE CreateFile
      BY <1>3, <2>1 DEF CreateFile, SameRecords, File
    <2>2. CASE RepairTruncate
      BY <1>3, <2>2 DEF RepairTruncate, Repaired, SameRecords, File
    <2>3. CASE RepairCount
      BY <1>3, <2>3 DEF RepairCount, SameRecords, File
    <2> QED BY <2>1, <2>2, <2>3
  <1>5. Held' = Held /\ RecordsOf(buffer') = {} /\ (~Failed' => ~Failed)
    BY <1>1, <1>2, EmptyRecords DEF Held, Left, Failed
  <1>6. HeldInv' /\ NoHoles'
    BY <1>1, <1>4, <1>5, HeldStill
  <1>7. \A h \in Hours \ {NextHour} : disk'[h] = disk[h]
    BY <1>3 DEF CreateFile, RepairTruncate, RepairCount
  <1>8. ASSUME NEW h \in Hours, h = NextHour
        PROVE  \/ /\ disk'[h].recs = disk[h].recs /\ disk'[h].count = disk[h].count
                  /\ ~disk[h].torn => ~disk'[h].torn
               \/ ~Failed' => current' = NextHour
    <2>1. CASE CreateFile
      BY <2>1 DEF CreateFile
    <2>2. CASE RepairTruncate
      BY <1>3, <1>8, <2>2 DEF RepairTruncate, Repaired, File
    <2>3. CASE RepairCount
      BY <2>3 DEF RepairCount, LoopFails, Failed
    <2> QED BY <2>1, <2>2, <2>3
  <1>9. ~Failed' => \A h \in Hours \ {current'} :
                       /\ h # current /\ disk'[h].recs = disk[h].recs
                       /\ disk'[h].count = disk[h].count
                       /\ ~disk[h].torn => ~disk'[h].torn
    BY <1>2, <1>7, <1>8, NoFileAssumption
  <1> QED BY <1>1, <1>5, <1>6, <1>9, SealedStill

(* The header's count is written, and the file is kept or left. *)
LEMMA PersistCountLoss ==
    ASSUME WriterInv, RestInv, HeldInv, NoHoles, SealedInv, PersistCount
    PROVE  HeldInv' /\ NoHoles' /\ SealedInv'
  <1>1. /\ UNCHANGED <<buffer, queue, accepted, startId, offered, writeError>>
        /\ phase = "count" /\ disk' = [disk EXCEPT ![current].count = fileCount]
    BY DEF PersistCount
  <1>2. /\ current \in Hours /\ buffer = <<>> /\ ~Failed
        /\ fileCount = Len(disk[current].recs) /\ ~disk[current].torn
    <2>1. current \in Hours /\ buffer = <<>> /\ ~Failed
      BY <1>1, CountPhase
    <2>2. fileCount = Len(disk[current].recs) + Len(buffer) /\ current # NoFile
      BY <2>1, NoFileAssumption DEF StreamInv, Failed
    <2>3. Len(disk[current].recs) \in Nat /\ Len(<<>>) = 0
      BY <2>1, LenProperties, EmptySeq DEF FileType, File
    <2> QED BY <1>1, <2>1, <2>2, <2>3 DEF RestInv
  <1>3. disk \in [Hours -> File]
    BY DEF FileType
  <1>4. /\ \A h \in Hours : disk'[h].recs = disk[h].recs /\ disk'[h].torn = disk[h].torn
        /\ \A h \in Hours \ {current} : disk'[h] = disk[h]
        /\ disk'[current].count = fileCount
    BY <1>1, <1>2, <1>3 DEF File
  <1>5. Left' = Left
    <2>1. CASE UNCHANGED <<batch, done>>
      BY <2>1 DEF Left
    <2>2. CASE batch' = <<>> /\ done' = 0 /\ done = Len(batch)
      <3>1. (done + 1)..Len(batch) = {}
        BY <2>2, Lengths
      <3> QED BY <2>2, <3>1 DEF Left
    <2> QED BY <2>1, <2>2 DEF PersistCount, Return, ControlInv
  <1>6. Held' = Held /\ RecordsOf(buffer') = {}
    BY <1>1, <1>2, <1>5, EmptyRecords DEF Held
  <1>7. HeldInv' /\ NoHoles'
    BY <1>1, <1>2, <1>4, <1>6, HeldStill DEF SameRecords
  <1>8. \A h \in Hours \ {current'} :
           \/ /\ h # current /\ disk'[h].recs = disk[h].recs
              /\ disk'[h].count = disk[h].count /\ (~disk[h].torn => ~disk'[h].torn)
           \/ disk'[h].count = Len(disk'[h].recs) /\ ~disk'[h].torn
    BY <1>2, <1>4
  <1> QED BY <1>1, <1>2, <1>7, <1>8, SealedStill

(* The front of the queue becomes the batch. *)
LEMMA TakeBatchLoss ==
    ASSUME WriterInv, RestInv, HeldInv, NoHoles, SealedInv, TakeBatch
    PROVE  HeldInv' /\ NoHoles' /\ SealedInv'
  <1>1. UNCHANGED <<buffer, current, disk, accepted, startId, offered, writeError>>
    BY DEF TakeBatch
  <1>2. worker = "lock" /\ batch = <<>>
    BY DEF TakeBatch, RestInv
  <1>3. Held' = Held
    <2>1. CASE UNCHANGED <<queue, batch, done>>
      BY <1>1, <2>1 DEF Held, Left
    <2>2. CASE /\ batch' = SubSeq(queue, 1, BatchSize) /\ queue' = StillQueued(BatchSize)
               /\ done' = 0
      <3>1. BatchSize \in 0..Len(queue) /\ queue \in Seq(Record)
        BY Lengths, BatchAssumption DEF BatchSize, QueueType
      <3>2. RecordsOf(queue) = RecordsOf(batch') \cup RecordsOf(queue')
        BY <2>2, <3>1, CutRecords DEF StillQueued
      <3>3. Left' = RecordsOf(batch')
        <4>1. 0 + 1 = 1
          OBVIOUS
        <4> QED BY <2>2, <4>1 DEF Left, RecordsOf
      <3>4. Left = {}
        <4>1. (done + 1)..Len(batch) = {}
          BY <1>2, Lengths
        <4> QED BY <4>1 DEF Left
      <3> QED BY <1>1, <3>2, <3>3, <3>4 DEF Held
    <2> QED BY <2>1, <2>2 DEF TakeBatch
  <1>4. ~Failed' => ~Failed
    BY <1>1, <1>2 DEF Failed
  <1>5. HeldInv' /\ NoHoles'
    BY <1>1, <1>3, <1>4, HeldStill DEF SameRecords, HeldInv
  <1> QED BY <1>1, <1>4, <1>5, SealedStill

(* write(): a record that is accepted is queued, and comes after all others. *)
LEMMA EnqueueLoss ==
    ASSUME WriterInv, OrderInv, HeldInv, NoHoles, SealedInv,
           NEW p \in Producers, NEW h \in Hours, Enqueue(p, h)
    PROVE  HeldInv' /\ NoHoles' /\ SealedInv'
  <1> DEFINE r == [id |-> offered + 1, hour |-> h]
  <1>1. /\ UNCHANGED <<buffer, batch, done, current, disk, startId, worker, writeError>>
        /\ offered' = offered + 1
        /\ \/ UNCHANGED <<queue, accepted>>
           \/ queue' = Append(queue, r) /\ accepted' = Append(accepted, r)
    BY DEF Enqueue
  <1>2. offered \in Nat /\ startId \in Nat /\ offered < MaxRecords
    BY BoundAssumption DEF Enqueue, CounterType
  <1>3. r \in Record /\ r.id = offered + 1 /\ r.hour = h
    BY <1>2, BoundAssumption DEF Record
  <1>4. queue \in Seq(Record) /\ accepted \in Seq(Record)
    BY DEF QueueType
  <1> HIDE DEF r
  <1>5. /\ RecordsOf(queue) \subseteq RecordsOf(queue')
        /\ RecordsOf(accepted) \subseteq RecordsOf(accepted')
        /\ RecordsOf(accepted') \subseteq RecordsOf(accepted) \cup {r}
        /\ RecordsOf(queue') \subseteq RecordsOf(queue) \cup RecordsOf(accepted')
        /\ RecordsOf(accepted') \subseteq RecordsOf(accepted) \cup RecordsOf(queue')
    <2>1. CASE UNCHANGED <<queue, accepted>>
      BY <2>1
    <2>2. CASE queue' = Append(queue, r) /\ accepted' = Append(accepted, r)
      <3>1. /\ RecordsOf(queue') = RecordsOf(queue) \cup {r}
            /\ RecordsOf(accepted') = RecordsOf(accepted) \cup {r}
        BY <1>3, <1>4, <2>2, AppendRecords
      <3> QED BY <3>1
    <2> QED BY <1>1, <2>1, <2>2
  <1>6. /\ RecordsOf(accepted)' = RecordsOf(accepted') /\ Left' = Left
        /\ Held' = RecordsOf(buffer) \cup Left \cup RecordsOf(queue')
    BY <1>1 DEF Left, Held
  <1>7. \A g \in Hours : WrittenNow(g)' = WrittenNow(g)
    BY <1>1 DEF WrittenNow
  <1>8. Held' \subseteq RecordsOf(accepted)' /\ Held \subseteq Held'
    BY <1>5, <1>6 DEF HeldInv, Held
  <1>9. ASSUME NEW s \in RecordsOf(accepted)' PROVE startId' < s.id /\ s.id <= offered'
    <2>1. CASE s = r
      BY <1>1, <1>2, <1>3, <2>1 DEF HeldInv
    <2>2. CASE s \in RecordsOf(accepted)
      <3>1. startId < s.id /\ s.id <= offered /\ s.id \in Int
        BY <1>4, <2>2, RecordsIds DEF HeldInv
      <3> QED BY <1>1, <1>2, <3>1
    <2> QED BY <1>5, <1>6, <2>1, <2>2
  <1>10. \A g \in Hours : Accepted(g)' \subseteq Accepted(g) \cup {r} /\ Accepted(g) \subseteq Accepted(g)'
    BY <1>5, <1>6 DEF Accepted
  <1>11. Failed' <=> Failed
    BY <1>1 DEF Failed
  <1>12. ~Failed' => \A g \in Hours : Accepted(g)' \subseteq WrittenNow(g)' \cup Held'
    <2> SUFFICES ASSUME ~Failed, NEW g \in Hours, NEW s \in Accepted(g)'
                 PROVE  s \in WrittenNow(g) \cup Held'
      BY <1>7, <1>11
    <2>1. CASE s \in Accepted(g)
      BY <1>8, <2>1 DEF HeldInv
    <2>2. CASE s \notin Accepted(g)
      <3>1. s \in RecordsOf(accepted') /\ s \notin RecordsOf(accepted)
        BY <1>6, <2>2 DEF Accepted
      <3> QED BY <1>5, <1>6, <3>1
    <2> QED BY <2>1, <2>2
  <1>13. HeldInv'
    <2>1. startId' <= offered' /\ \A s \in RecordsOf(buffer') : s.hour = current'
      BY <1>1, <1>2 DEF HeldInv
    <2> QED BY <1>8, <1>9, <1>12, <2>1 DEF HeldInv
  <1>14. ASSUME NEW g \in Hours, NEW w \in WrittenNow(g)', NEW s \in Accepted(g)', s.id < w.id
         PROVE  s \in WrittenNow(g)'
    <2>1. w \in WrittenNow(g)
      BY <1>7
    <2>2. w.id \in 1..offered
      <3>1. disk[g].recs \in Seq(Record) /\ w \in RecordsOf(disk[g].recs)
        BY <2>1 DEF FileType, File, WrittenNow
      <3>2. w.id \in OnDisk
        BY <3>1, RecordsIds DEF OnDisk
      <3> QED BY <3>2 DEF OrderInv
    <2>3. s # r
      BY <1>2, <1>3, <1>14, <2>2
    <2>4. s \in Accepted(g)
      BY <1>10, <2>3
    <2> QED BY <1>7, <1>14, <2>1, <2>4 DEF NoHoles
  <1>15. NoHoles'
    BY <1>7, <1>10, <1>14 DEF NoHoles
  <1>16. SealedInv'
    BY <1>1, <1>11, SealedStill
  <1> QED BY <1>13, <1>15, <1>16

(* The buffer comes before the batch and the queue. *)
LEMMA BufferInFront ==
    ASSUME WriterInv, OrderInv, HeldInv
    PROVE  Front(buffer, Left \cup RecordsOf(queue))
  <1>1. buffer \in Seq(Record) /\ queue \in Seq(Record)
    BY DEF FileType, QueueType
  <1>2. \A r \in Left : r.id \in Pending
    BY DEF Left, Pending
  <1>3. \A r \in RecordsOf(queue) : r.id \in Ids(queue)
    BY <1>1, RecordsIds
  <1>4. Below(OnDisk \cup Ids(buffer), {r.id : r \in Left \cup RecordsOf(queue)})
    BY <1>2, <1>3 DEF OrderInv, Below
  <1>5. Held = RecordsOf(buffer) \cup (Left \cup RecordsOf(queue))
    BY DEF Held
  <1> QED BY <1>1, <1>4, <1>5 DEF Front, OrderInv, HeldInv

(* So do the buffer and the record the worker is at. *)
LEMMA RecordInFront ==
    ASSUME WriterInv, OrderInv, HeldInv, done < Len(batch), batch[done + 1].hour = current
    PROVE  LET rest == {batch[i] : i \in (done + 2)..Len(batch)}
           IN  /\ Front(Append(buffer, batch[done + 1]), rest \cup RecordsOf(queue))
               /\ Left = {batch[done + 1]} \cup rest
  <1> DEFINE r == batch[done + 1]  rest == {batch[i] : i \in (done + 2)..Len(batch)}
             b == Append(buffer, r)  later == {batch[i].id : i \in (done + 2)..Len(batch)}
  <1>1. buffer \in Seq(Record) /\ queue \in Seq(Record) /\ r \in Record
    BY NextHourType DEF FileType, QueueType
  <1>2. /\ Pending = {r.id} \cup later /\ Below({r.id}, later)
        /\ Below(OnDisk \cup Ids(buffer), {r.id}) /\ Below({r.id} \cup later, Ids(queue))
    BY NextRecordOrder
  <1>3. Left = {r} \cup rest
    <2>1. \A i \in (done + 1)..Len(batch) : i = done + 1 \/ i \in (done + 2)..Len(batch)
      BY Lengths
    <2>2. done + 1 \in (done + 1)..Len(batch)
      BY Lengths
    <2>3. \A i \in (done + 2)..Len(batch) : i \in (done + 1)..Len(batch)
      BY Lengths
    <2> QED BY <2>1, <2>2, <2>3 DEF Left
  <1>4. \A s \in rest : s.id \in later
    OBVIOUS
  <1>5. \A s \in RecordsOf(queue) : s.id \in Ids(queue)
    BY <1>1, RecordsIds
  <1>6. /\ b \in Seq(Record) /\ Ids(b) = Ids(buffer) \cup {r.id} /\ Rising(b)
        /\ RecordsOf(b) = RecordsOf(buffer) \cup {r}
    <2>1. Rising(buffer) /\ Below(Ids(buffer), {r.id})
      BY <1>2 DEF OrderInv, Below
    <2> QED BY <1>1, <2>1, AppendOrder, AppendRecords
  <1> HIDE DEF b, r, rest, later
  <1>7. Below(OnDisk, Ids(b))
    BY <1>2, <1>6 DEF OrderInv, Below
  <1>8. Below(OnDisk \cup Ids(b), later) /\ Below(OnDisk \cup Ids(b), Ids(queue))
    BY <1>2, <1>6 DEF OrderInv, Below
  <1>9. Below(OnDisk \cup Ids(b), {s.id : s \in rest \cup RecordsOf(queue)})
    BY <1>4, <1>5, <1>8 DEF Below
  <1>10. Held = RecordsOf(b) \cup (rest \cup RecordsOf(queue))
    BY <1>3, <1>6 DEF Held
  <1>11. \A s \in RecordsOf(b) : s.hour = current
    BY <1>6 DEF HeldInv, r
  <1>12. Front(b, rest \cup RecordsOf(queue))
    BY <1>6, <1>7, <1>9, <1>10, <1>11 DEF Front
  <1> QED BY <1>3, <1>12 DEF b, r, rest

(* A buffer that is lost on the way: the error is raised, and the files end before
   the first record lost. *)
LEMMA LoseLoss ==
    ASSUME WriterInv, OrderInv, HeldInv, NoHoles, SealedInv, ~Failed, current \in Hours,
           NEW b, NEW A, Front(b, A), LoseBuffer(b), Failed',
           UNCHANGED <<accepted, startId, offered>>, Held' \subseteq Held
    PROVE  HeldInv' /\ NoHoles' /\ SealedInv'
  <1>1. b \in Seq(Record) /\ RecordsOf(buffer') = {}
    BY EmptyRecords DEF Front, LoseBuffer
  <1>2. SealedInv'
    BY DEF SealedInv
  <1>3. CASE UNCHANGED disk
    <2>1. SameRecords
      BY <1>3 DEF SameRecords
    <2> QED BY <1>1, <1>2, <2>1, HeldStill
  <1>4. CASE \E o \in FlushOutcomes(b) :
                disk' = [disk EXCEPT ![current] = Flushed(@, b, o.k, o.t)]
    <2> PICK o \in FlushOutcomes(b) :
                disk' = [disk EXCEPT ![current] = Flushed(@, b, o.k, o.t)]
      BY <1>4
    <2>1. o.k \in 0..Len(b) /\ o.t \in BOOLEAN
      BY DEF FlushOutcomes
    <2>2. HeldInv' /\ NoHoles'
      BY <1>1, <2>1, HeldFlush
    <2> QED BY <1>2, <2>2
  <1> QED BY <1>3, <1>4 DEF LoseBuffer

(* write_to_file moves a record from the batch to the buffer and lets the stream
   hand some of it to the operating system. *)
LEMMA WriteRecordLoss ==
    ASSUME WriterInv, OrderInv, RestInv, HeldInv, NoHoles, SealedInv, WriteRecord
    PROVE  HeldInv' /\ NoHoles' /\ SealedInv'
  <1> DEFINE rest == {batch[i] : i \in (done + 2)..Len(batch)}
             b == Append(buffer, batch[done + 1])  A == rest \cup RecordsOf(queue)
  <1>1. /\ UNCHANGED <<queue, accepted, startId, offered, current, worker, writeError, batch>>
        /\ done' = done + 1 /\ done < Len(batch) /\ batch[done + 1].hour = current
        /\ worker = "write" /\ current \in Hours
    BY NextHourType DEF WriteRecord, NextHour
  <1>2. ~Failed /\ ~Failed'
    BY <1>1 DEF Failed, RestInv
  <1>3. Front(b, A) /\ Left = {batch[done + 1]} \cup rest
    BY <1>1, RecordInFront
  <1>4. Left' = rest
    <2>1. done' + 1 = done + 2
      BY <1>1, Lengths
    <2> QED BY <1>1, <2>1 DEF Left
  <1>5. Held = RecordsOf(b) \cup A /\ Held' = RecordsOf(buffer') \cup A
    BY <1>1, <1>3, <1>4 DEF Front, Held
  <1>6. b \in Seq(Record) /\ \A r \in RecordsOf(b) : r.hour = current
    BY <1>3 DEF Front
  <1> HIDE DEF b, A, rest
  <1>7. CASE buffer' = b /\ UNCHANGED disk
    <2>1. Held' = Held /\ SameRecords /\ \A r \in RecordsOf(buffer') : r.hour = current'
      BY <1>1, <1>5, <1>6, <1>7 DEF SameRecords
    <2>2. HeldInv' /\ NoHoles'
      BY <1>1, <1>2, <2>1, HeldStill
    <2> QED BY <1>1, <1>2, <1>7, <2>2, SealedStill
  <1>8. CASE \E o \in FlushOutcomes(b) :
                /\ disk' = [disk EXCEPT ![current] = Flushed(@, b, o.k, o.t)]
                /\ buffer' = SubSeq(b, o.k + 1, Len(b))
    <2> PICK o \in FlushOutcomes(b) :
                /\ disk' = [disk EXCEPT ![current] = Flushed(@, b, o.k, o.t)]
                /\ buffer' = SubSeq(b, o.k + 1, Len(b))
      BY <1>8
    <2>1. o.k \in 0..Len(b) /\ o.t \in BOOLEAN
      BY DEF FlushOutcomes
    <2>2. RecordsOf(buffer') \subseteq RecordsOf(b)
      BY <1>6, <2>1, CutRecords
    <2>3. Held' \subseteq Held /\ \A r \in RecordsOf(buffer') : r.hour = current'
      BY <1>1, <1>5, <1>6, <2>2
    <2>4. HeldInv' /\ NoHoles'
      BY <1>1, <1>2, <1>3, <1>5, <2>1, <2>3, HeldFlush
    <2>5. \A g \in Hours \ {current} : disk'[g] = disk[g]
      BY <1>1, <1>6, <2>1, FlushRecords
    <2>6. SealedInv'
      BY <1>1, <1>2, <2>5, SealedStill
    <2> QED BY <2>4, <2>6
  <1> QED BY <1>7, <1>8 DEF WriteRecord, b

(* file_.write leaves the stream not good. *)
LEMMA WriteRecordFailsLoss ==
    ASSUME WriterInv, OrderInv, RestInv, HeldInv, NoHoles, SealedInv, WriteRecordFails
    PROVE  HeldInv' /\ NoHoles' /\ SealedInv'
  <1> DEFINE rest == {batch[i] : i \in (done + 2)..Len(batch)}
             b == Append(buffer, batch[done + 1])  A == rest \cup RecordsOf(queue)
  <1>1. /\ UNCHANGED <<queue, accepted, startId, offered, batch, done>>
        /\ done < Len(batch) /\ batch[done + 1].hour = current
        /\ worker = "write" /\ current \in Hours /\ worker' = "fail" /\ LoseBuffer(b)
    BY NextHourType DEF WriteRecordFails, LoopFails, NextHour
  <1>2. ~Failed /\ Failed'
    BY <1>1 DEF Failed, RestInv
  <1>3. Front(b, A)
    BY <1>1, RecordInFront
  <1>4. Held' \subseteq Held
    <2>1. buffer' = <<>>
      BY <1>1 DEF LoseBuffer
    <2> QED BY <1>1, <2>1, EmptyRecords DEF Held, Left
  <1> HIDE DEF b, A
  <1> QED BY <1>1, <1>2, <1>3, <1>4, LoseLoss

(* persist_header_count writes the buffer out, or fails to. *)
LEMMA PersistLoss ==
    ASSUME WriterInv, OrderInv, RestInv, HeldInv, NoHoles, SealedInv,
           PersistData \/ PersistFails
    PROVE  HeldInv' /\ NoHoles' /\ SealedInv'
  <1> DEFINE A == Left \cup RecordsOf(queue)
  <1>1. /\ UNCHANGED <<queue, accepted, startId, offered>> /\ current \in Hours
        /\ ~Failed /\ buffer \in Seq(Record)
    BY DEF PersistData, PersistFails, Persisting, Failed, ControlInv, FileType
  <1>2. Front(buffer, A)
    BY BufferInFront
  <1>3. CASE PersistData
    <2>1. /\ UNCHANGED <<batch, done, worker, writeError, current>> /\ buffer' = <<>>
          /\ disk' = [disk EXCEPT ![current] = Flushed(@, buffer, Len(buffer), FALSE)]
      BY <1>3 DEF PersistData, SeekToHeader
    <2>2. Len(buffer) \in 0..Len(buffer) /\ FALSE \in BOOLEAN
      BY Lengths
    <2>3. RecordsOf(SubSeq(buffer, Len(buffer) + 1, Len(buffer))) = {}
      <3>1. SubSeq(buffer, Len(buffer) + 1, Len(buffer)) = <<>>
        BY <1>1, Lengths
      <3> QED BY <3>1, EmptyRecords
    <2>4. RecordsOf(buffer') = {} /\ Held' = A /\ Held' \subseteq Held
      BY <1>1, <2>1, EmptyRecords DEF Held, Left
    <2> HIDE DEF A
    <2>5. HeldInv' /\ NoHoles'
      BY <1>1, <1>2, <2>1, <2>2, <2>3, <2>4, HeldFlush
    <2>6. \A g \in Hours \ {current} : disk'[g] = disk[g]
      BY <1>1, <2>1, <2>2, FlushRecords
    <2>7. SealedInv'
      BY <1>1, <2>1, <2>6, SealedStill
    <2> QED BY <2>5, <2>7
  <1>4. CASE PersistFails
    <2>1. LoseBuffer(buffer) /\ Failed' /\ Return(FALSE)
      BY <1>4 DEF PersistFails, Failed
    <2>2. (UNCHANGED <<batch, done>>) \/ (batch' = <<>> /\ done' = 0)
      BY <2>1, ReturnBatch
    <2>3. Left' \subseteq Left
      BY <2>2 DEF Left
    <2>4. Held' \subseteq Held
      <3>1. buffer' = <<>>
        BY <2>1 DEF LoseBuffer
      <3> QED BY <1>1, <2>3, <3>1, EmptyRecords DEF Held
    <2> HIDE DEF A
    <2> QED BY <1>1, <1>2, <2>1, <2>4, LoseLoss
  <1> QED BY <1>3, <1>4

(* Every step keeps the invariant. *)
LEMMA LossStep ==
    ASSUME WriterInv, OrderInv, LossInv, [Next]_vars
    PROVE  LossInv'
  <1> USE DEF LossInv
  <1>1. CASE Open \/ Crash
    BY <1>1, RestQuiet, ResetLoss
  <1>2. CASE \/ Close \/ CloseNotify \/ CloseJoin \/ SpuriousWakeup \/ ChooseFile \/ LoopEnds
             \/ (\E p \in Producers : EnqueueNotify(p)) \/ UNCHANGED vars
    BY <1>2, RestQuiet, QuietLoss
  <1>3. CASE Fail \/ OpenFileFails \/ FinalSkip
    BY <1>3, RestQuiet, FailLoss
  <1>4. CASE CreateFile \/ RepairTruncate \/ RepairCount
    BY <1>4, RestBusy, OpenFileLoss
  <1>5. CASE PersistCount
    BY <1>5, RestBusy, PersistCountLoss
  <1>6. CASE TakeBatch
    BY <1>6, RestQuiet, TakeBatchLoss
  <1>7. CASE \E p \in Producers, h \in Hours : Enqueue(p, h)
    BY <1>7, RestQuiet, EnqueueLoss
  <1>8. CASE WriteRecord
    BY <1>8, RestBusy, WriteRecordLoss
  <1>9. CASE WriteRecordFails
    BY <1>9, RestBusy, WriteRecordFailsLoss
  <1>10. CASE PersistData \/ PersistFails
    BY <1>10, RestBusy, PersistLoss
  <1>11. CASE Finished
    BY <1>2, <1>11 DEF Finished
  <1> QED
    BY <1>1, <1>2, <1>3, <1>4, <1>5, <1>6, <1>7, <1>8, <1>9, <1>10, <1>11
       DEF Next, WorkerStep, PersistStep

(* Nothing is accepted yet. *)
LEMMA LossInit == Init => LossInv
  <1> SUFFICES ASSUME Init PROVE LossInv
    OBVIOUS
  <1>1. RestInv
    BY DEF Init, RestInv
  <1>2. /\ RecordsOf(accepted) = {} /\ RecordsOf(buffer) = {} /\ RecordsOf(queue) = {}
        /\ \A h \in Hours : disk[h].recs = <<>>
    BY EmptyRecords DEF Init, NoRecords
  <1>3. Left = {}
    BY DEF Init, Left
  <1>4. \A h \in Hours : Accepted(h) = {} /\ WrittenNow(h) = {}
    BY <1>2, EmptyRecords DEF Accepted, WrittenNow
  <1>5. Held = {} /\ startId <= offered
    BY <1>2, <1>3 DEF Held, Init
  <1>6. HeldInv
    BY <1>2, <1>4, <1>5 DEF HeldInv
  <1>7. NoHoles /\ SealedInv
    BY <1>4 DEF NoHoles, SealedInv
  <1> QED BY <1>1, <1>6, <1>7 DEF LossInv

(* Until an I/O failure is raised every accepted record is in its file, in the
   stream's buffer, in the worker's batch or in the queue. *)
THEOREM NothingLostSilently == Spec => []LossInv
  <1>1. WriterInv /\ OrderInv /\ LossInv /\ [Next]_vars => LossInv'
    BY LossStep
  <1> QED BY <1>1, LossInit, WriterInvariance, WriterOrder, PTL DEF Spec

(* For every number of hours and records, every queue capacity and every batch
   size, each file holds the first of the records that write() accepted for its
   hour, in the order of the calls, whatever failed. *)
THEOREM FilesFollowTheCalls == Spec => []FilesFollowAccepted
  <1>1. OrderInv /\ LossInv => FilesFollowAccepted
    BY DEF OrderInv, LossInv, NoHoles, FilesFollowAccepted
  <1> QED BY <1>1, WriterOrder, NothingLostSilently, PTL

(* close() that returns with has_error() false has put every accepted record into
   its file, whole and counted. *)
THEOREM CleanCloseKeepsAll == Spec => []CleanCloseIsComplete
  <1>1. WriterInv /\ LossInv => CleanCloseIsComplete
    <2> SUFFICES ASSUME WriterInv, LossInv, owner = "closed", ~writeError,
                        NEW h \in Hours, Accepted(h) # {}
                 PROVE  /\ WrittenNow(h) = Accepted(h)
                        /\ disk[h].count = Len(disk[h].recs) /\ ~disk[h].torn
      BY DEF CleanCloseIsComplete
    <2>1. worker = "none" /\ queue = <<>> /\ current = NoFile /\ buffer = <<>>
      BY DEF ControlInv, StreamInv
    <2>2. batch = <<>> /\ ~Failed
      BY <2>1 DEF LossInv, RestInv, Failed
    <2>3. Left = {}
      <3>1. (done + 1)..Len(batch) = {}
        BY <2>2, Lengths
      <3> QED BY <3>1 DEF Left
    <2>4. Held = {}
      BY <2>1, <2>3, EmptyRecords DEF Held
    <2>5. WrittenNow(h) = Accepted(h)
      BY <2>2, <2>4 DEF LossInv, HeldInv, NoHoles
    <2>6. h \in Hours \ {current}
      BY <2>1, NoFileAssumption
    <2> QED BY <2>2, <2>5, <2>6 DEF LossInv, SealedInv
  <1> QED BY <1>1, WriterInvariance, NothingLostSilently, PTL
===============================================================================
