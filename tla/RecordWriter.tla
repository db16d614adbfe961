----------------------------- MODULE RecordWriter -----------------------------
(***************************************************************************)
(* BinaryRecordWriter (src/src/storage/binary_record_writer.h) together    *)
(* with the file repair it calls (src/src/storage/record_integrity.h): a   *)
(* bounded queue filled by callback threads, one worker thread that drains *)
(* it in batches into hourly files through a buffered std::fstream, and    *)
(* the owner that opens and closes the writer.  The process may crash      *)
(* between any two steps; what the stream has handed to the operating      *)
(* system survives, everything else is gone.                               *)
(***************************************************************************)
EXTENDS Naturals, Sequences

CONSTANTS Hours,       \* UTC hours; one file each (file_roll.h)
          NoFile,      \* current_name_ is empty and file_ is not open
          Producers,   \* threads that call write()
          Capacity,    \* queue_capacity_
          BatchMax,    \* records taken from the queue at once (1024)
          MaxRecords,  \* bound: calls of write() in a behaviour
          MaxOpens     \* bound: calls of open() in a behaviour

ASSUME CapacityAssumption == Capacity \in Nat \ {0}
ASSUME BatchAssumption    == BatchMax \in Nat \ {0}
ASSUME BoundAssumption    == MaxRecords \in Nat /\ MaxOpens \in Nat
ASSUME NoFileAssumption   == NoFile \notin Hours

VARIABLES
    (* Members guarded by mutex_, and the statistics. *)
    queue, accepting, running, written, dropped, tails, writeError, depthMax,
    (* The open file: current_name_, file_record_count_, the bytes still in
       the stream's buffer, and how far persist_header_count has come. *)
    current, fileCount, buffer, phase,
    (* The worker's program counter, its batch, how much of it went through
       write_to_file, and whether the repair in progress cut a tail. *)
    worker, batch, done, cut,
    (* The owner's program counter and the producers'. *)
    owner, producer,
    (* The directory: per hour, what the operating system holds. *)
    disk,
    (* History: calls of open() and write() so far; of the current opening,
       the calls, those refused by a stopped writer, the records accepted,
       and the number of the last call before it. *)
    opens, offered, calls, refused, accepted, startId

ctrl   == <<queue, accepting, running, depthMax>>
stats  == <<written, dropped, tails, writeError>>
stream == <<current, fileCount, buffer, phase>>
thread == <<worker, batch, done, cut>>
ghost  == <<opens, offered, calls, refused, accepted, startId>>
vars   == <<ctrl, stats, stream, thread, owner, producer, disk, ghost>>

-------------------------------------------------------------------------------
(* A record is its call number and the hour of its recv_ts_us. *)
Record == [id : 1..MaxRecords, hour : Hours]

(* A file: missing, created but its header still unflushed ("short"), or with
   a valid header; the header's record_count; the complete records; and
   whether a partial record follows them. *)
File == [kind : {"absent", "short", "ok"}, count : Nat,
         recs : Seq(Record), torn : BOOLEAN]

NoRecords == [kind |-> "absent", count |-> 0, recs |-> <<>>, torn |-> FALSE]

WorkerPC == {"none", "lock", "waiting", "write", "roll", "create", "repair",
             "persist", "fail", "exited"}
OwnerPC  == {"closed", "open", "notify", "join", "final"}

(* Records the worker holds that no counter covers yet: records_written_ is
   only advanced when the batch loop ends. *)
InFlight == IF worker \in {"write", "roll", "create", "repair"} THEN Len(batch)
            ELSE IF worker = "fail" THEN Len(batch) - done
            ELSE 0

-------------------------------------------------------------------------------
(* How the buffered stream meets the disk. *)

(* The first k of the buffered records b reach file f, and part of the next one
   when t; the header, first in the buffer of a new file, goes along. *)
Flushed(f, b, k, t) == [f EXCEPT !.kind = "ok", !.torn = t,
                                 !.recs = @ \o SubSeq(b, 1, k)]

(* What a flush of b can leave behind: part of a record only where one is left
   over, and bytes already in the file stay there. *)
FlushOutcomes(b) ==
    {o \in [k : 0..Len(b), t : BOOLEAN] :
        /\ o.t => o.k < Len(b)
        /\ (disk[current].torn /\ o.k = 0) => o.t}

(* A flush of b fails (disk full, device error): at most a proper prefix has
   reached the file, the rest never will. *)
LoseBuffer(b) ==
    /\ \/ UNCHANGED disk
       \/ \E o \in FlushOutcomes(b) :
             /\ o.k < Len(b)
             /\ disk' = [disk EXCEPT ![current] = Flushed(@, b, o.k, o.t)]
    /\ buffer' = <<>>

-------------------------------------------------------------------------------
(* The owner: open and close hold lifecycle_mutex_, so they never overlap. *)

(* open() of a closed writer; the owner does not reopen one it has not closed. *)
Open ==
    /\ owner = "closed" /\ opens < MaxOpens
    /\ owner' = "open"
    /\ accepting' = TRUE /\ running' = TRUE /\ depthMax' = 0
    /\ written' = 0 /\ dropped' = 0 /\ tails' = 0 /\ writeError' = FALSE
    /\ current' = NoFile /\ fileCount' = 0
    /\ worker' = "lock" /\ batch' = <<>> /\ done' = 0
    /\ opens' = opens + 1
    /\ calls' = 0 /\ refused' = 0 /\ accepted' = <<>> /\ startId' = offered
    /\ UNCHANGED <<queue, buffer, phase, cut, producer, disk, offered>>

(* close() up to the release of mutex_. *)
Close ==
    /\ owner = "open"
    /\ owner' = "notify"
    /\ accepting' = FALSE /\ running' = FALSE
    /\ UNCHANGED <<queue, depthMax, stats, stream, thread, producer, disk, ghost>>

(* cv_.notify_all and cv_.notify_one wake the worker, the only thread that waits. *)
NotifyWorker == worker' = IF worker = "waiting" THEN "lock" ELSE worker

(* Mutation: close() without its notify_all. *)
CloseNotifyMissing == UNCHANGED worker
CloseNotifies == NotifyWorker

CloseNotify ==
    /\ owner = "notify"
    /\ owner' = "join"
    /\ CloseNotifies
    /\ UNCHANGED <<ctrl, stats, stream, batch, done, cut, producer, disk, ghost>>

(* worker_.join() *)
CloseJoin ==
    /\ owner = "join" /\ worker = "exited"
    /\ worker' = "none"
    /\ owner' = "final"
    /\ UNCHANGED <<ctrl, stats, stream, batch, done, cut, producer, disk, ghost>>

-------------------------------------------------------------------------------
(* write(), called by a callback thread. *)

(* Mutation: the queue is full one record too late. *)
QueueFullLate == Len(queue) > Capacity
QueueFull == Len(queue) >= Capacity

(* Mutation: queue_.empty() read after the push. *)
ShouldNotifyAfterPush == FALSE
ShouldNotify == queue = <<>>

Enqueue(p, h) ==
    /\ producer[p] = "idle" /\ offered < MaxRecords
    /\ offered' = offered + 1 /\ calls' = calls + 1
    /\ LET r == [id |-> offered + 1, hour |-> h]
       IN  \/ /\ ~(accepting /\ running)
              /\ refused' = refused + 1
              /\ UNCHANGED <<queue, depthMax, dropped, accepted, producer>>
           \/ /\ accepting /\ running
              /\ QueueFull
              /\ dropped' = dropped + 1
              /\ UNCHANGED <<queue, depthMax, refused, accepted, producer>>
           \/ /\ accepting /\ running
              /\ ~QueueFull
              /\ queue' = Append(queue, r)
              /\ depthMax' = IF Len(queue) + 1 > depthMax THEN Len(queue) + 1
                                                         ELSE depthMax
              /\ accepted' = Append(accepted, r)
              /\ producer' = [producer EXCEPT
                                ![p] = IF ShouldNotify THEN "notify" ELSE "idle"]
              /\ UNCHANGED <<refused, dropped>>
    /\ UNCHANGED <<accepting, running, written, tails, writeError, stream, thread,
                   owner, disk, opens, startId>>

(* cv_.notify_one() after mutex_ was released. *)
EnqueueNotify(p) ==
    /\ producer[p] = "notify"
    /\ producer' = [producer EXCEPT ![p] = "idle"]
    /\ NotifyWorker
    /\ UNCHANGED <<ctrl, stats, stream, batch, done, cut, owner, disk, ghost>>

-------------------------------------------------------------------------------
(* writer_loop *)

(* The number of records the next batch takes, and what stays queued.
   Mutation: the record after the batch is dropped with it. *)
BatchSize == IF Len(queue) < BatchMax THEN Len(queue) ELSE BatchMax
StillQueuedSkip(n) == SubSeq(queue, n + 2, Len(queue))
StillQueued(n) == SubSeq(queue, n + 1, Len(queue))

(* Mutation: the worker leaves as soon as running_ is false. *)
LoopExitUndrained == ~running
LoopExit == ~running /\ queue = <<>>

(* Under mutex_: wait, leave the loop, or take a batch. *)
TakeBatch ==
    /\ worker = "lock"
    /\ \/ /\ running /\ queue = <<>>
          /\ worker' = "waiting"
          /\ UNCHANGED <<queue, batch, done>>
       \/ /\ LoopExit
          /\ worker' = "exited"
          /\ UNCHANGED <<queue, batch, done>>
       \/ /\ queue # <<>> /\ ~LoopExit
          /\ batch' = SubSeq(queue, 1, BatchSize)
          /\ queue' = StillQueued(BatchSize)
          /\ done' = 0
          /\ worker' = "write"
    /\ UNCHANGED <<accepting, running, depthMax, stats, stream, cut, owner, producer,
                   disk, ghost>>

(* std::condition_variable may wake without a notification. *)
SpuriousWakeup ==
    /\ worker = "waiting"
    /\ worker' = "lock"
    /\ UNCHANGED <<ctrl, stats, stream, batch, done, cut, owner, producer, disk, ghost>>

(* The batch loop ends after a failed write_to_file: what went through counts
   as written. *)
LoopFails == /\ written' = written + done
             /\ worker' = "fail"

(* write_to_file: the record belongs to another hour than the open file. *)
ChooseFile ==
    /\ worker = "write" /\ done < Len(batch)
    /\ batch[done + 1].hour # current
    /\ worker' = IF current = NoFile THEN "create" ELSE "roll"
    /\ UNCHANGED <<ctrl, stats, stream, batch, done, cut, owner, producer, disk, ghost>>

(* write_to_file: the stream takes the record, handing as much of its buffer to
   the operating system as it likes. *)
WriteRecord ==
    /\ worker = "write" /\ done < Len(batch)
    /\ batch[done + 1].hour = current
    /\ done' = done + 1 /\ fileCount' = fileCount + 1
    /\ LET b == Append(buffer, batch[done + 1])
       IN  \/ buffer' = b /\ UNCHANGED disk
           \/ \E o \in FlushOutcomes(b) :
                 /\ disk' = [disk EXCEPT ![current] = Flushed(@, b, o.k, o.t)]
                 /\ buffer' = SubSeq(b, o.k + 1, Len(b))
    /\ UNCHANGED <<ctrl, stats, current, phase, worker, batch, cut, owner, producer, ghost>>

(* write_to_file: file_.write leaves the stream not good. *)
WriteRecordFails ==
    /\ worker = "write" /\ done < Len(batch)
    /\ batch[done + 1].hour = current
    /\ LoseBuffer(Append(buffer, batch[done + 1]))
    /\ LoopFails
    /\ UNCHANGED <<ctrl, dropped, tails, writeError, current, fileCount, phase, batch,
                   done, cut, owner, producer, ghost>>

(* The batch went through; the header is persisted next. *)
LoopEnds ==
    /\ worker = "write" /\ done = Len(batch)
    /\ written' = written + done
    /\ worker' = "persist"
    /\ UNCHANGED <<ctrl, dropped, tails, writeError, stream, batch, done, cut, owner,
                   producer, disk, ghost>>

(* Mutation: what is still queued is not counted. *)
LostOnFailureBatchOnly == Len(batch) - done
LostOnFailure == Len(batch) - done + Len(queue)

(* The failure branch of writer_loop, under mutex_. *)
Fail ==
    /\ worker = "fail"
    /\ writeError' = TRUE
    /\ accepting' = FALSE /\ running' = FALSE
    /\ dropped' = dropped + LostOnFailure
    /\ queue' = <<>>
    /\ worker' = "exited"
    /\ UNCHANGED <<depthMax, written, tails, stream, batch, done, cut, owner, producer,
                   disk, ghost>>

-------------------------------------------------------------------------------
(* persist_header_count, called at the end of a batch and by
   close_current_file when the file rolls and when the writer closes. *)

Persisting == worker \in {"roll", "persist"} \/ owner = "final"

(* close_current_file after persist_header_count, and its callers.
   ok is what persist_header_count returned. *)
Return(ok) ==
    /\ phase' = "data"
    /\ \/ /\ worker = "persist"
          /\ worker' = IF ok THEN "lock" ELSE "fail"
          /\ batch' = IF ok THEN <<>> ELSE batch
          /\ done' = IF ok THEN 0 ELSE done
          /\ UNCHANGED <<current, fileCount, written, owner>>
       \/ /\ worker = "roll"
          /\ current' = NoFile /\ fileCount' = 0
          /\ IF ok THEN worker' = "create" /\ UNCHANGED written ELSE LoopFails
          /\ UNCHANGED <<batch, done, owner>>
       \/ /\ owner = "final"
          /\ current' = NoFile /\ fileCount' = 0
          /\ owner' = "closed"
          /\ UNCHANGED <<written, worker, batch, done>>

(* seekp to the header writes the buffered records out first.
   Mutation: the count overtakes the buffered records. *)
SeekToHeaderUnflushed ==
    disk' = [disk EXCEPT ![current].kind = "ok"] /\ UNCHANGED buffer
SeekToHeader ==
    /\ disk' = [disk EXCEPT ![current] = Flushed(@, buffer, Len(buffer), FALSE)]
    /\ buffer' = <<>>

PersistData ==
    /\ Persisting /\ current # NoFile /\ ~writeError /\ phase = "data"
    /\ SeekToHeader
    /\ phase' = "count"
    /\ UNCHANGED <<ctrl, stats, current, fileCount, thread, owner, producer, ghost>>

(* The count follows, flushed by the seek back. *)
PersistCount ==
    /\ Persisting /\ phase = "count"
    /\ disk' = [disk EXCEPT ![current].count = fileCount]
    /\ Return(TRUE)
    /\ UNCHANGED <<ctrl, dropped, tails, writeError, buffer, cut, producer, ghost>>

(* Either flush, or the final close of the file, fails. *)
PersistFails ==
    /\ Persisting /\ current # NoFile /\ ~writeError
    /\ LoseBuffer(buffer)
    /\ writeError' = TRUE
    /\ Return(FALSE)
    /\ UNCHANGED <<ctrl, dropped, tails, cut, producer, ghost>>

(* close() when no file is open, or after a failure: close_current_file only
   drops the stream. *)
FinalSkip ==
    /\ owner = "final" /\ (current = NoFile \/ writeError)
    /\ buffer' = <<>>
    /\ Return(FALSE)
    /\ UNCHANGED <<ctrl, dropped, tails, writeError, cut, producer, disk, ghost>>

-------------------------------------------------------------------------------
(* open_file *)

NextHour == batch[done + 1].hour

(* No such file: it is created, its header stays in the buffer. *)
CreateFile ==
    /\ worker = "create" /\ disk[NextHour].kind = "absent"
    /\ disk' = [disk EXCEPT ![NextHour].kind = "short"]
    /\ current' = NextHour /\ fileCount' = 0
    /\ worker' = "write"
    /\ UNCHANGED <<ctrl, stats, buffer, phase, batch, done, cut, owner, producer, ghost>>

(* What repair_record_file keeps: everything up to the last complete record
   with a good CRC.  Mutation: everything the header counts. *)
RepairedToCount(f) == [f EXCEPT !.torn = FALSE, !.recs = SubSeq(@, 1, f.count)]
Repaired(f) == [f EXCEPT !.torn = FALSE]

(* repair_record_file up to the truncation. *)
RepairTruncate ==
    /\ worker = "create" /\ disk[NextHour].kind = "ok"
    /\ cut' = disk[NextHour].torn
    /\ disk' = [disk EXCEPT ![NextHour] = Repaired(@)]
    /\ worker' = "repair"
    /\ UNCHANGED <<ctrl, stats, stream, batch, done, owner, producer, ghost>>

(* repair_record_file writes the count back; open_file reopens the file and
   continues at its end. *)
RepairCount ==
    /\ worker = "repair"
    /\ disk' = [disk EXCEPT ![NextHour].count = Len(disk[NextHour].recs)]
    /\ tails' = tails + (IF cut THEN 1 ELSE 0)
    /\ cut' = FALSE
    /\ \/ /\ current' = NextHour /\ fileCount' = Len(disk[NextHour].recs)
          /\ worker' = "write"
          /\ UNCHANGED written
       \/ LoopFails /\ UNCHANGED <<current, fileCount>>
    /\ UNCHANGED <<ctrl, dropped, writeError, buffer, phase, batch, done, owner, producer,
                   ghost>>

(* open_file returns false: the file cannot be created, opened, truncated or
   written, or it exists without a valid header. *)
OpenFileFails ==
    /\ worker \in {"create", "repair"}
    /\ cut' = FALSE
    /\ LoopFails
    /\ UNCHANGED <<ctrl, dropped, tails, writeError, stream, batch, done, owner, producer,
                   disk, ghost>>

-------------------------------------------------------------------------------
(* The process dies and a new one starts with a writer not yet opened. *)
Crash ==
    /\ owner # "closed"
    /\ owner' = "closed"
    /\ queue' = <<>> /\ accepting' = FALSE /\ running' = FALSE /\ depthMax' = 0
    /\ written' = 0 /\ dropped' = 0 /\ tails' = 0 /\ writeError' = FALSE
    /\ current' = NoFile /\ fileCount' = 0 /\ buffer' = <<>> /\ phase' = "data"
    /\ worker' = "none" /\ batch' = <<>> /\ done' = 0 /\ cut' = FALSE
    /\ producer' = [p \in Producers |-> "idle"]
    /\ calls' = 0 /\ refused' = 0 /\ accepted' = <<>> /\ startId' = offered
    /\ UNCHANGED <<disk, opens, offered>>

Init ==
    /\ queue = <<>> /\ accepting = FALSE /\ running = FALSE /\ depthMax = 0
    /\ written = 0 /\ dropped = 0 /\ tails = 0 /\ writeError = FALSE
    /\ current = NoFile /\ fileCount = 0 /\ buffer = <<>> /\ phase = "data"
    /\ worker = "none" /\ batch = <<>> /\ done = 0 /\ cut = FALSE
    /\ owner = "closed"
    /\ producer = [p \in Producers |-> "idle"]
    /\ disk = [h \in Hours |-> NoRecords]
    /\ opens = 0 /\ offered = 0
    /\ calls = 0 /\ refused = 0 /\ accepted = <<>> /\ startId = 0

WorkerStep ==
    \/ TakeBatch \/ ChooseFile \/ WriteRecord \/ WriteRecordFails \/ LoopEnds \/ Fail
    \/ CreateFile \/ RepairTruncate \/ RepairCount \/ OpenFileFails

PersistStep == PersistData \/ PersistCount \/ PersistFails \/ FinalSkip

(* Everything the bounds allow has happened. *)
Finished == owner = "closed" /\ opens = MaxOpens /\ UNCHANGED vars

Next ==
    \/ Open \/ Close \/ CloseNotify \/ CloseJoin
    \/ \E p \in Producers : EnqueueNotify(p) \/ \E h \in Hours : Enqueue(p, h)
    \/ WorkerStep \/ SpuriousWakeup \/ PersistStep
    \/ Crash
    \/ Finished

(* The scheduler runs every thread that can run; nothing forces a call of
   write() or close(), a crash or a spurious wakeup. *)
Fairness ==
    /\ WF_vars(WorkerStep) /\ WF_vars(PersistStep)
    /\ WF_vars(CloseNotify) /\ WF_vars(CloseJoin)
    /\ \A p \in Producers : WF_vars(EnqueueNotify(p))

Spec == Init /\ [][Next]_vars
FairSpec == Spec /\ Fairness

-------------------------------------------------------------------------------
(* Properties *)

(* Every variable has its type; in particular the queue never outgrows
   queue_capacity_ and the high-water mark covers it. *)
QueueType ==
    /\ queue \in Seq(Record) /\ accepted \in Seq(Record)
    /\ Len(queue) <= depthMax
    /\ depthMax \in 0..Capacity

FlagType == {accepting, running, writeError, cut} \subseteq BOOLEAN

CounterType ==
    /\ written \in Nat /\ dropped \in Nat /\ tails \in Nat /\ fileCount \in Nat
    /\ opens \in 0..MaxOpens /\ offered \in 0..MaxRecords /\ startId \in 0..MaxRecords
    /\ calls \in Nat /\ refused \in Nat

ThreadType ==
    /\ worker \in WorkerPC
    /\ batch \in Seq(Record) /\ done \in 0..Len(batch)
    /\ owner \in OwnerPC
    /\ producer \in [Producers -> {"idle", "notify"}]

FileType ==
    /\ current \in Hours \cup {NoFile}
    /\ buffer \in Seq(Record)
    /\ phase \in {"data", "count"}
    /\ disk \in [Hours -> File]

TypeOK == QueueType /\ FlagType /\ CounterType /\ ThreadType /\ FileType

(* Conservation: at every moment each call of write() since open() is counted
   exactly once: in records_written_, in records_dropped_, in the queue, in the
   worker's batch, or refused because the writer had stopped.  An I/O failure
   in the middle of a batch neither loses nor counts a record twice. *)
Accounting == calls = written + dropped + Len(queue) + InFlight + refused

(* At every moment, so at every point where the process may die, a file's
   header.record_count is no larger than the number of complete records the
   operating system holds: a reader never runs out of announced records. *)
HeaderNeverOverstates == \A h \in Hours : disk[h].count <= Len(disk[h].recs)

(* The records of a sequence; records in the order of their calls. *)
RecordsOf(s) == {s[i] : i \in 1 .. Len(s)}
Rising(s) == \A i, j \in 1 .. Len(s) : i < j => s[i].id < s[j].id

(* The records of hour h that were accepted since the writer was opened, and those
   of them that are in its file. *)
Accepted(h) == {r \in RecordsOf(accepted) : r.hour = h}
WrittenNow(h) == {r \in RecordsOf(disk[h].recs) : r.id > startId}

(* Each file holds, in the order of the calls and without a hole or a repetition,
   the first of the records that write() accepted for its hour, however the queue
   was split into batches, the files rolled back and forth, and whatever failed. *)
FilesFollowAccepted ==
    \A h \in Hours :
        /\ Rising(disk[h].recs)
        /\ WrittenNow(h) \subseteq Accepted(h)
        /\ \A r \in WrittenNow(h), s \in Accepted(h) : s.id < r.id => s \in WrittenNow(h)

(* close() returned and has_error() is false: every accepted record is in its
   file, no file this writer touched ends in half a record, and its header
   counts exactly its records. *)
CleanCloseIsComplete ==
    owner = "closed" /\ ~writeError =>
        \A h \in Hours : Accepted(h) # {} =>
            /\ WrittenNow(h) = Accepted(h)
            /\ disk[h].count = Len(disk[h].recs)
            /\ ~disk[h].torn

(* The numbers of the calls whose records the files hold. *)
IdsOf(s) == [i \in 1 .. Len(s) |-> s[i].id]
FileIds == [h \in Hours |-> IdsOf(disk[h].recs)]
Durable == INSTANCE DurableLog WITH last <- offered, files <- FileIds

(* Whatever the interleaving of callers, worker and owner, whatever fails and
   wherever the process dies and starts again, the files behave as a durable log
   of the calls of write(): opening, repairing, rolling and appending never
   remove, move, repeat or reorder a complete record. *)
ImplementsDurableLog == Durable!Spec

(* write() notifies only when it finds the queue empty, and outside the lock;
   still the worker never sleeps on a queue that has records. *)
QueueDrains == queue # <<>> ~> queue = <<>>

(* close() always returns: the worker sees running_, drains what was accepted,
   with or without an I/O failure, and is joined. *)
CloseReturns == owner = "notify" ~> owner = "closed"
===============================================================================
